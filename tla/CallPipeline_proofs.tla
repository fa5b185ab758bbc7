------------------------- MODULE CallPipeline_proofs -------------------------
(***************************************************************************)
(* Proofs about the call pipeline: TypeOK, TranscriptInOrder, InboundFirst *)
(* and OnlyWhatPolicyAllowed.  The stage a call is at says what it has on  *)
(* the bus and behind it (Stage), and what the file mentions of a call     *)
(* says how far it has come (FileOfCalls); both lean on the invariants of  *)
(* the bus, BusInv and FileInv, which MemoryService_proofs shows for       *)
(* whoever drives it.                                                      *)
(***************************************************************************)
EXTENDS CallPipeline, FiniteSetTheorems, SequenceTheorems, WellFoundedInduction, TLAPS

-----------------------------------------------------------------------------
(* The bus: the lemmas of MemoryService_proofs that are about the bus alone,*)
(* with the service's own parameters and variables left empty               *)

Bus == INSTANCE MemoryService_proofs WITH
         Queries <- {}, MaxCrashes <- 0, MaxOwner <- 0, pushed <- <<>>, written <- {},
         interrupted <- 0, crashes <- 0, clears <- 0, removes <- 0

LEMMA Instance == Bus!BusAssumption /\ Bus!ServiceAssumption /\ Bus!MutexAssumption
<1>1. Bus!BusAssumption
  BY BusAssumption DEF Bus!BusAssumption
<1>2. Bus!ServiceAssumption
  BY DEF Bus!ServiceAssumption
<1>3. Bus!MutexAssumption
  BY MutexAssumption DEF Bus!MutexAssumption, Bus!Journal!Nobody, Journal!Nobody
<1>4. QED
  BY <1>1, <1>2, <1>3

LEMMA SameStart == ASSUME BusInit PROVE Bus!BusInit
  BY DEF BusInit, Bus!BusInit, Volatile!VolatileInit, Bus!Volatile!VolatileInit,
         Journal!JournalInit, Bus!Journal!JournalInit, Journal!Nobody, Bus!Journal!Nobody,
         Vector!VectorInit, Bus!Vector!VectorInit

LEMMA SamePush ==
  ASSUME NEW w \in Writers, NEW r \in Records, PushVolatile(w, r)
  PROVE  Bus!PushVolatile(w, r)
<1>1. Volatile!Push(r)
  BY DEF PushVolatile
<1>2. Bus!Volatile!Push(r)
  BY ZenonT(30), <1>1
     DEF Volatile!BytesOf, Volatile!FoldLeft, Volatile!MapThenFoldSet, Volatile!Max,
         Volatile!Push, Volatile!EvictForCapacity, Volatile!EvictForBytes, Volatile!Evicted,
         Volatile!Minus,
         Bus!Volatile!BytesOf, Bus!Volatile!FoldLeft, Bus!Volatile!MapThenFoldSet,
         Bus!Volatile!Max, Bus!Volatile!Push, Bus!Volatile!EvictForCapacity,
         Bus!Volatile!EvictForBytes, Bus!Volatile!Evicted, Bus!Volatile!Minus
<1>3. QED
  BY <1>2 DEF PushVolatile, Bus!PushVolatile, Goto, Bus!Goto, Busy, Bus!Busy,
              journalVars, Bus!journalVars

LEMMA SameAbandon ==
  ASSUME NEW w \in Writers, Abandon(w)
  PROVE  Bus!Abandon(w)
  BY DEF Abandon, Bus!Abandon, Journal!AbandonLine, Bus!Journal!AbandonLine,
         Journal!AbandonNewline, Bus!Journal!AbandonNewline, Journal!Part, Bus!Journal!Part,
         Journal!Nobody, Bus!Journal!Nobody, journalVars, Bus!journalVars

LEMMA SameStep ==
  ASSUME NEW w \in Writers, RecordStep(w) \/ RecordFails(w) \/ RecordDropped(w)
  PROVE  Bus!RecordStep(w) \/ Bus!RecordFails(w) \/ Bus!RecordDropped(w)
<1> USE DEF Goto, Bus!Goto, Busy, Bus!Busy, volatileVars, Bus!volatileVars,
            journalVars, Bus!journalVars, Bus!RecordStep
<1>1. CASE LockJournal(w)
  BY <1>1 DEF LockJournal, Bus!LockJournal, Journal!Lock, Bus!Journal!Lock,
              Journal!Nobody, Bus!Journal!Nobody
<1>2. CASE WriteLine(w)
  BY <1>2 DEF WriteLine, Bus!WriteLine, Journal!WriteLine, Bus!Journal!WriteLine,
              Journal!Whole, Bus!Journal!Whole
<1>3. CASE WriteNewline(w)
  BY <1>3 DEF WriteNewline, Bus!WriteNewline, Journal!WriteNewline, Bus!Journal!WriteNewline,
              Journal!Nobody, Bus!Journal!Nobody, Embedded, Bus!Embedded
<1>4. CASE Upsert(w)
  BY <1>4 DEF Upsert, Bus!Upsert, Vector!Upsert, Bus!Vector!Upsert
<1>5. CASE RecordFails(w) \/ RecordDropped(w)
  BY <1>5, SameAbandon DEF RecordFails, Bus!RecordFails, RecordDropped, Bus!RecordDropped
<1>6. QED
  BY <1>1, <1>2, <1>3, <1>4, <1>5 DEF RecordStep

-----------------------------------------------------------------------------
(* The stages of a call                                                     *)

StepOf(c) == (\E type \in Types : Arrive(c, type)) \/ CallStep(c) \/ Drop(c)

Recording == {"policy", "record"}
Tooling == {"tool_policy", "tool", "running"}
Modelling == {"model_policy", "infer"}
Executing == {"parse"} \cup Tooling \cup Modelling \cup {"stream"}
Delivering == {"deliver", "done"}

\* What is on the bus and behind a call, by where it is.
Stage(c) ==
  /\ writing[c] \in Busy => pc[c] = "record" /\ job[c] = RecordOf(c, part[c])
  /\ writing[c] # "index"
  /\ job[c] # NoRecord => \E n \in 0..LastPart(c) : job[c] = RecordOf(c, n)
  /\ pc[c] \in Recording => memoryOn
  /\ pc[c] \in Executing \cup {"idle"} => part[c] = 0
  /\ memoryOn /\ pc[c] \in Delivering => part[c] = LastPart(c)
  /\ Len(ran[c]) <= Len(Plan[c])
  /\ pc[c] \in {"idle", "parse"} \/ (pc[c] \in Recording /\ part[c] = 0) => ran[c] = <<>>
  /\ pc[c] \in {"tool_policy", "tool"} => Len(ran[c]) < Len(Plan[c])
  /\ pc[c] \in Modelling \cup {"stream"} \cup Delivering \/ part[c] > 0
       => Len(ran[c]) = Len(Plan[c])
  /\ c \in inferred => pc[c] \notin {"idle", "parse"} \cup Tooling \cup Modelling
                         /\ (pc[c] \in Recording => part[c] > 0)
  /\ c \in delivered => pc[c] = "done"
  /\ \A i \in 1..Len(ran[c]) : ran[c][i].name = Plan[c][i].name

Shape ==
  /\ pc \in [Calls -> Stages \cup Ended \cup {"idle"}]
  /\ part \in [Calls -> Nat]
  /\ \A c \in Calls : part[c] <= LastPart(c)
  /\ ran \in [Calls -> Seq(ToolFns)]
  /\ DOMAIN since = Calls
  /\ writing \in [Writers -> Busy \cup {"idle", "ok", "failed"}]
  /\ job \in [Writers -> Records \cup {NoRecord}]
  /\ \A n \in DOMAIN registered : registered[n] \in ToolFns /\ registered[n].name = n

LEMMA PlanTyped ==
  ASSUME NEW c \in Calls
  PROVE  /\ Len(Plan[c]) \in Nat /\ LastPart(c) = Len(Plan[c]) + 1
         /\ LastPart(c) \in Nat
         /\ \A n \in 0..LastPart(c) : RecordOf(c, n) \in Records
         /\ Embedded = {}
<1>1. Len(Plan[c]) \in Nat
  BY PipelineAssumption
<1>2. QED
  BY <1>1, PipelineAssumption DEF LastPart

LEMMA Distinct ==
  ASSUME NEW c, NEW n, NEW d, NEW m, RecordOf(c, n) = RecordOf(d, m)
  PROVE  c = d /\ n = m
<1>1. /\ RecordOf(c, n).call = c /\ RecordOf(c, n).part = n
      /\ RecordOf(d, m).call = d /\ RecordOf(d, m).part = m
  BY DEF RecordOf
<1>2. QED
  BY <1>1

\* One step of record() as the pipeline sees it: it is "ok" with the newline.
LEMMA RecordMoves ==
  ASSUME NEW c \in Calls, RecordStep(c), writing \in [Writers -> Busy \cup {"idle", "ok", "failed"}],
         writing[c] # "index"
  PROVE  /\ writing[c] \in Busy /\ job' = job
         /\ \/ writing' = [writing EXCEPT ![c] = "line"]
            \/ writing' = [writing EXCEPT ![c] = "newline"]
            \/ /\ writing' = [writing EXCEPT ![c] = "ok"]
               /\ writing[c] = "newline" /\ lines' = Append(lines, open)
<1> USE PlanTyped DEF Goto, Busy
<1>1. CASE LockJournal(c)
  BY <1>1 DEF LockJournal
<1>2. CASE WriteLine(c)
  BY <1>2 DEF WriteLine
<1>3. CASE WriteNewline(c)
  BY <1>3 DEF WriteNewline, Journal!WriteNewline
<1>4. CASE Upsert(c)
  BY <1>4 DEF Upsert
<1>5. QED
  BY <1>1, <1>2, <1>3, <1>4 DEF RecordStep

\* A step of one call leaves what the others have.
LEMMA Others ==
  ASSUME Shape, NEW c \in Calls, StepOf(c), NEW d \in Calls, d # c
  PROVE  /\ pc'[d] = pc[d] /\ part'[d] = part[d] /\ ran'[d] = ran[d] /\ since'[d] = since[d]
         /\ (d \in inferred' <=> d \in inferred) /\ (d \in delivered' <=> d \in delivered)
         /\ writing'[d] = writing[d] /\ job'[d] = job[d]
<1> USE DEF Shape, Calls, Enter, busVars, callVars, sharedVars
<1>1. CASE \E type \in Types : Arrive(c, type)
  BY <1>1 DEF Arrive
<1>2. CASE EnforceMemoryPolicy(c) \/ EnforceToolPolicy(c) \/ EnforceModelPolicy(c)
  BY <1>2 DEF EnforceMemoryPolicy, EnforceToolPolicy, EnforceModelPolicy, Enforce
<1>3. CASE BeginRecord(c)
  BY <1>3 DEF BeginRecord, PushVolatile, Goto
<1>4. CASE ContinueRecord(c)
  <2>1. job' = job /\ \E to : writing' = [writing EXCEPT ![c] = to]
    BY <1>4 DEF ContinueRecord, RecordStep, LockJournal, WriteLine, WriteNewline, Upsert, Goto
  <2>2. \/ pc' = pc /\ part' = part
        \/ \E to, n : pc' = [pc EXCEPT ![c] = to] /\ part' = [part EXCEPT ![c] = n]
        \/ \E to : pc' = [pc EXCEPT ![c] = to] /\ part' = part
    BY <1>4 DEF ContinueRecord, NextPart
  <2>3. QED
    BY <1>4, <2>1, <2>2 DEF ContinueRecord
<1>5. CASE RecordError(c)
  BY <1>5 DEF RecordError, RecordFails, Goto
<1>6. CASE Parse(c) \/ ToolReturns(c) \/ Fail(c)
  BY <1>6 DEF Parse, ToolReturns, Fail
<1>7. CASE InvokeTool(c)
  BY <1>7 DEF InvokeTool
<1>8. CASE Infer(c) \/ StreamEnds(c) \/ Deliver(c)
  BY <1>8 DEF Infer, StreamEnds, Deliver
<1>9. CASE Drop(c)
  <2>1. job' = job /\ (writing' = writing \/ writing' = [writing EXCEPT ![c] = "failed"])
    BY <1>9 DEF Drop, RecordDropped, Goto
  <2>2. pc' = [pc EXCEPT ![c] = "failed"] /\ UNCHANGED callVars
    BY <1>9 DEF Drop
  <2>3. QED
    BY <2>1, <2>2
<1>10. QED
  BY <1>1, <1>2, <1>3, <1>4, <1>5, <1>6, <1>7, <1>8, <1>9 DEF StepOf, CallStep

\* What a step of a call does to its stage, its part and the shared switches.
LEMMA SwitchesKept ==
  ASSUME NEW c \in Calls, StepOf(c)
  PROVE  UNCHANGED <<rules, registered, shared, memoryOn, policyOn>>
  BY DEF StepOf, CallStep, Arrive, EnforceMemoryPolicy, EnforceToolPolicy, EnforceModelPolicy,
         Enforce, BeginRecord, ContinueRecord, RecordError, Parse, InvokeTool, ToolReturns,
         Infer, StreamEnds, Deliver, Fail, Drop, sharedVars

LEMMA StageOther ==
  ASSUME Shape, NEW c \in Calls, StepOf(c), NEW d \in Calls, d # c, Stage(d)
  PROVE  Stage(d)'
<1>1. /\ pc'[d] = pc[d] /\ part'[d] = part[d] /\ ran'[d] = ran[d]
      /\ (d \in inferred' <=> d \in inferred) /\ (d \in delivered' <=> d \in delivered)
      /\ writing'[d] = writing[d] /\ job'[d] = job[d]
  BY Others
<1>2. memoryOn' = memoryOn
  BY SwitchesKept
<1>3. QED
  BY <1>1, <1>2 DEF Stage, RecordOf

LEMMA StageStep ==
  ASSUME Shape, NEW c \in Calls, Stage(c), StepOf(c)
  PROVE  Stage(c)'
<1> DEFINE N == Len(Plan[c])
<1>0. /\ memoryOn' = memoryOn /\ N \in Nat /\ LastPart(c) = N + 1
      /\ part[c] \in Nat /\ part[c] <= N + 1 /\ Len(ran[c]) \in Nat
  BY SwitchesKept, PlanTyped DEF Shape
<1> USE DEF Shape, Calls, Enter, busVars, callVars, At, Recording, Tooling, Modelling, Executing,
            Delivering, Stages, Ended
<1>1. CASE \E type \in Types : Arrive(c, type)
  BY <1>0, <1>1 DEF Arrive, Stage, RecordOf
<1>2. CASE EnforceMemoryPolicy(c) \/ EnforceToolPolicy(c) \/ EnforceModelPolicy(c)
  BY <1>0, <1>2 DEF EnforceMemoryPolicy, EnforceToolPolicy, EnforceModelPolicy, Enforce, Stage, RecordOf
<1>3. CASE BeginRecord(c)
  BY <1>0, <1>3 DEF BeginRecord, PushVolatile, Goto, Stage, RecordOf, Busy
<1>4. CASE ContinueRecord(c)
  BY <1>0, <1>4, RecordMoves DEF ContinueRecord, NextPart, Stage, RecordOf, Busy
<1>5. CASE RecordError(c)
  BY <1>0, <1>5 DEF RecordError, RecordFails, Goto, Stage, RecordOf, Busy
<1>6. CASE Parse(c) \/ ToolReturns(c) \/ Fail(c)
  BY <1>0, <1>6 DEF Parse, ToolReturns, Fail, NextStage, Stage, RecordOf
<1>7. CASE InvokeTool(c)
  <2> DEFINE f == registered[Invocation(c).name]
  <2>1. f \in ToolFns /\ f.name = Plan[c][Len(ran[c]) + 1].name
    BY <1>7 DEF InvokeTool, Invocable, Registry!Bound, Invocation
  <2>2. ran' = [ran EXCEPT ![c] = Append(ran[c], f)]
    BY <1>7 DEF InvokeTool
  <2> HIDE DEF f
  <2>3. /\ Len(ran'[c]) = Len(ran[c]) + 1 /\ ran'[c][Len(ran[c]) + 1] = f
        /\ \A i \in 1..Len(ran[c]) : ran'[c][i] = ran[c][i]
    BY <2>1, <2>2
  <2>4. \A i \in 1..Len(ran'[c]) : ran'[c][i].name = Plan[c][i].name
    BY <1>0, <2>1, <2>3 DEF Stage
  <2>5. /\ pc[c] = "tool" /\ pc'[c] = "running" /\ writing' = writing /\ job' = job
        /\ part' = part /\ inferred' = inferred /\ delivered' = delivered
    BY <1>7 DEF InvokeTool
  <2>6. QED
    BY <1>0, <2>3, <2>4, <2>5 DEF Stage, RecordOf
<1>8. CASE Infer(c) \/ StreamEnds(c) \/ Deliver(c)
  BY <1>0, <1>8 DEF Infer, StreamEnds, Deliver, Stage, RecordOf
<1>9. CASE Drop(c)
  BY <1>0, <1>9 DEF Drop, RecordDropped, Goto, Stage, RecordOf, Busy
<1>10. QED
  BY <1>1, <1>2, <1>3, <1>4, <1>5, <1>6, <1>7, <1>8, <1>9 DEF StepOf, CallStep

-----------------------------------------------------------------------------
(* What a call's steps do on the bus                                        *)

LEMMA BusEffect ==
  ASSUME NEW c \in Calls, Stage(c), StepOf(c)
  PROVE  \/ UNCHANGED busVars
         \/ /\ pc[c] = "record" /\ writing[c] \notin Busy /\ UNCHANGED <<pc, part>>
            /\ PushVolatile(c, RecordOf(c, part[c]))
         \/ /\ pc[c] = "record" /\ writing[c] \in Busy
            /\ RecordStep(c) \/ RecordFails(c) \/ RecordDropped(c)
<1> USE DEF At
<1>1. CASE \E type \in Types : Arrive(c, type)
  BY <1>1 DEF Arrive
<1>2. CASE EnforceMemoryPolicy(c) \/ EnforceToolPolicy(c) \/ EnforceModelPolicy(c)
  BY <1>2 DEF EnforceMemoryPolicy, EnforceToolPolicy, EnforceModelPolicy, Enforce
<1>3. CASE BeginRecord(c)
  BY <1>3 DEF BeginRecord, PushVolatile, callVars
<1>4. CASE ContinueRecord(c)
  <2>1. writing[c] \in Busy
    BY <1>4 DEF ContinueRecord, RecordStep, LockJournal, WriteLine, WriteNewline, Upsert, Busy
  <2>2. QED
    BY <1>4, <2>1 DEF ContinueRecord
<1>5. CASE RecordError(c)
  BY <1>5 DEF RecordError, RecordFails
<1>6. CASE Parse(c) \/ ToolReturns(c) \/ Fail(c)
  BY <1>6 DEF Parse, ToolReturns, Fail
<1>7. CASE InvokeTool(c)
  BY <1>7 DEF InvokeTool
<1>8. CASE Infer(c) \/ StreamEnds(c) \/ Deliver(c)
  BY <1>8 DEF Infer, StreamEnds, Deliver
<1>9. CASE Drop(c)
  BY <1>9 DEF Drop, Stage
<1>10. QED
  BY <1>1, <1>2, <1>3, <1>4, <1>5, <1>6, <1>7, <1>8, <1>9 DEF StepOf, CallStep

\* The journal has been handed part n of call c, or is about to be.
Begun(c, n) ==
  \/ n < part[c]
  \/ /\ n = part[c]
     /\ pc[c] \notin {"idle", "policy"}
     /\ pc[c] = "record" => writing[c] \in Busy

LEMMA BegunStays ==
  ASSUME Shape, NEW c \in Calls, Stage(c), StepOf(c), NEW n \in Nat, Begun(c, n)
  PROVE  Begun(c, n)'
<1>0. part[c] \in Nat /\ memoryOn' = memoryOn
  BY SwitchesKept DEF Shape
<1> USE DEF Shape, Calls, Enter, busVars, callVars, At, Recording, Tooling, Modelling, Executing,
            Delivering, Stages, Ended, Begun
<1>1. CASE \E type \in Types : Arrive(c, type)
  BY <1>0, <1>1 DEF Arrive
<1>2. CASE EnforceMemoryPolicy(c) \/ EnforceToolPolicy(c) \/ EnforceModelPolicy(c)
  BY <1>0, <1>2 DEF EnforceMemoryPolicy, EnforceToolPolicy, EnforceModelPolicy, Enforce, Stage
<1>3. CASE BeginRecord(c)
  BY <1>0, <1>3 DEF BeginRecord, PushVolatile, Goto, Busy
<1>4. CASE ContinueRecord(c)
  <2>1. \/ writing'[c] \in Busy
        \/ writing'[c] = "ok"
    BY <1>4, RecordMoves DEF ContinueRecord, Stage, Busy
  <2>2. CASE writing'[c] = "ok"
    BY <1>0, <1>4, <2>2 DEF ContinueRecord, NextPart
  <2>3. CASE writing'[c] # "ok"
    BY <1>0, <1>4, <2>1, <2>3 DEF ContinueRecord
  <2>4. QED
    BY <2>2, <2>3
<1>5. CASE RecordError(c)
  BY <1>0, <1>5 DEF RecordError
<1>6. CASE Parse(c) \/ ToolReturns(c) \/ Fail(c)
  BY <1>0, <1>6 DEF Parse, ToolReturns, Fail, NextStage
<1>7. CASE InvokeTool(c)
  BY <1>0, <1>7 DEF InvokeTool
<1>8. CASE Infer(c) \/ StreamEnds(c) \/ Deliver(c)
  BY <1>0, <1>8 DEF Infer, StreamEnds, Deliver, Stage
<1>9. CASE Drop(c)
  BY <1>0, <1>9 DEF Drop
<1>10. QED
  BY <1>1, <1>2, <1>3, <1>4, <1>5, <1>6, <1>7, <1>8, <1>9 DEF StepOf, CallStep

\* The record of part n is on a finished line.
Finished(c, n) ==
  memoryOn /\ (n < part[c] \/ (n = part[c] /\ pc[c] \in Executing \cup Delivering))

OnLine(c, n) == \E j \in Nat : Bus!EndsWith(RecordOf(c, n), j)

FileOfCalls ==
  \A c \in Calls : \A n \in 0..LastPart(c) :
    /\ \A i, k \in Nat : Bus!Mentions(RecordOf(c, n), i, k)
         => /\ Begun(c, n)
            /\ n > 0 => \E j \in Nat : j < i /\ Bus!EndsWith(RecordOf(c, n - 1), j)
    /\ Finished(c, n) => OnLine(c, n)

FirstOnLine ==
  \A c \in Calls : memoryOn /\ (ran[c] # <<>> \/ c \in inferred) => OnLine(c, 0)

Base ==
  /\ Bus!BusInv /\ Bus!FileInv
  /\ Shape
  /\ \A c \in Calls : Stage(c)
  /\ FileOfCalls
  /\ FirstOnLine

\* The bus keeps its invariants under a step of a call.
LEMMA BusKept ==
  ASSUME Base, NEW c \in Calls, StepOf(c)
  PROVE  Bus!BusInv' /\ Bus!FileInv'
<1>0. c \in Writers /\ Stage(c) /\ Bus!BusInv /\ Bus!FileInv
  BY DEF Base, Calls
<1>1. CASE UNCHANGED busVars
  <2>1. Bus!BusInv'
    BY <1>0, <1>1
       DEF Bus!BusInv, Bus!BusTypeOK, Bus!Volatile!VolatileTypeOK, Bus!Journal!JournalTypeOK,
           Bus!Mutex, busVars
  <2>2. QED
    BY <1>0, <1>1, <2>1, Instance, Bus!FileSame DEF busVars
<1>2. CASE /\ pc[c] = "record" /\ writing[c] \notin Busy
           /\ PushVolatile(c, RecordOf(c, part[c]))
  <2> DEFINE n == part[c]
             r == RecordOf(c, n)
  <2>1. n \in 0..LastPart(c) /\ r \in Records
    BY PlanTyped DEF Base, Shape
  <2>2. Bus!PushVolatile(c, r)
    BY <1>0, <1>2, <2>1, SamePush
  <2>3. ~Begun(c, n)
    BY <1>2, PlanTyped, <2>1 DEF Begun
  <2>4. \A i, k \in Nat : ~Bus!Mentions(r, i, k)
    BY <2>1, <2>3 DEF Base, FileOfCalls
  <2>5. \A v \in Writers : v # c => job[v] # r
    <3> SUFFICES ASSUME NEW v \in Writers, v # c, job[v] = r PROVE FALSE
      OBVIOUS
    <3>1. v \in Calls /\ Stage(v) /\ job[v] # NoRecord
      BY <2>1, BusAssumption DEF Base, Calls
    <3>2. PICK m \in 0..LastPart(v) : job[v] = RecordOf(v, m)
      BY <3>1 DEF Stage
    <3>3. QED
      BY <3>2, Distinct
  <2> HIDE DEF n, r
  <2>6. Bus!BusInv'
    BY <1>0, <2>1, <2>2, Instance, Bus!BusStep
  <2>7. QED
    BY <1>0, <2>1, <2>2, <2>4, <2>5, <2>6, Instance, Bus!FilePush
<1>3. CASE RecordStep(c) \/ RecordFails(c) \/ RecordDropped(c)
  <2>1. Bus!RecordStep(c) \/ Bus!RecordFails(c) \/ Bus!RecordDropped(c)
    BY <1>0, <1>3, SameStep
  <2>2. Bus!BusInv'
    BY <1>0, <2>1, Instance, Bus!BusStep
  <2>3. QED
    BY <1>0, <2>1, <2>2, Instance, Bus!FileStep
<1>4. QED
  BY <1>0, <1>1, <1>2, <1>3, BusEffect

\* And the file, what it finished; a step adds at most a mention of its record.
LEMMA FileMoves ==
  ASSUME Base, NEW c \in Calls, StepOf(c)
  PROVE  /\ lines' = lines \/ lines' = Append(lines, open)
         /\ \A r \in Records, i, k \in Nat : Bus!Mentions(r, i, k)'
              => \/ Bus!Mentions(r, i, k)
                 \/ /\ r = RecordOf(c, part[c]) /\ i = Len(lines) + 1
                    /\ pc[c] = "record" /\ writing[c] \in Busy
<1>0. /\ c \in Writers /\ Stage(c) /\ Bus!BusInv /\ Bus!FileInv
      /\ Bus!Journal!JournalTypeOK
  BY DEF Base, Calls, Bus!BusInv, Bus!BusTypeOK
<1>1. CASE lines' = lines /\ open' = open
  <2>1. \A p, i, k : Bus!Holds(p, i, k)' <=> Bus!Holds(p, i, k)
    BY <1>1, Instance, Bus!HoldsSame
  <2>2. QED
    BY <1>1, <2>1 DEF Bus!Mentions
<1>2. CASE /\ pc[c] = "record" /\ writing[c] \in Busy
           /\ RecordStep(c) \/ RecordFails(c) \/ RecordDropped(c)
  <2>1. Bus!RecordStep(c) \/ Bus!RecordFails(c) \/ Bus!RecordDropped(c)
    BY <1>0, <1>2, SameStep
  <2> DEFINE x == job[c]
  <2>2. x \in Records /\ (Bus!Keeps(x) \/ Bus!Adds(x)) /\ x = RecordOf(c, part[c])
    BY <1>0, <1>2, <2>1, Instance, Bus!StepFile DEF Stage
  <2> HIDE DEF x
  <2>3. lines' = lines \/ lines' = Append(lines, open)
    BY <2>2, Instance, Bus!GrowOrStay
  <2>4. ASSUME NEW r \in Records, NEW i \in Nat, NEW k \in Nat, Bus!Mentions(r, i, k)'
        PROVE  Bus!Mentions(r, i, k) \/ (r = x /\ i = Len(lines) + 1)
    <3>1. CASE Bus!Adds(x)
      BY <1>0, <2>2, <2>4, <3>1, Instance, Bus!FileAdds
    <3>2. CASE Bus!Keeps(x)
      BY <1>0, <2>2, <2>4, <3>2, Instance, Bus!FileKeeps
    <3>3. QED
      BY <2>2, <3>1, <3>2
  <2>5. QED
    BY <1>2, <2>2, <2>3, <2>4
<1>3. QED
  BY <1>0, <1>1, <1>2, BusEffect DEF busVars, PushVolatile, journalVars

LEMMA OnLineStays ==
  ASSUME Base, lines' = lines \/ lines' = Append(lines, open),
         NEW r, NEW j \in Nat, Bus!EndsWith(r, j)
  PROVE  Bus!EndsWith(r, j)'
<1>1. Bus!Journal!JournalTypeOK
  BY DEF Base, Bus!BusInv, Bus!BusTypeOK
<1>2. QED
  BY <1>1, Instance, Bus!LinesGrow

\* A part is finished by the newline after its record.
LEMMA FinishedBy ==
  ASSUME Shape, NEW c \in Calls, Stage(c), StepOf(c), NEW n \in 0..LastPart(c), Finished(c, n)'
  PROVE  \/ Finished(c, n)
         \/ n = part[c] /\ pc[c] = "record" /\ writing[c] = "newline" /\ lines' = Append(lines, open)
<1>0. /\ part[c] \in Nat /\ memoryOn' = memoryOn /\ n \in Nat
      /\ LastPart(c) \in Nat
  BY SwitchesKept, PlanTyped DEF Shape
<1> USE DEF Shape, Calls, Enter, busVars, callVars, At, Recording, Tooling, Modelling, Executing,
            Delivering, Stages, Ended, Finished
<1>1. CASE \E type \in Types : Arrive(c, type)
  BY <1>0, <1>1 DEF Arrive
<1>2. CASE EnforceMemoryPolicy(c) \/ EnforceToolPolicy(c) \/ EnforceModelPolicy(c)
  BY <1>0, <1>2 DEF EnforceMemoryPolicy, EnforceToolPolicy, EnforceModelPolicy, Enforce, Stage
<1>3. CASE BeginRecord(c)
  BY <1>0, <1>3 DEF BeginRecord
<1>4. CASE ContinueRecord(c)
  <2>1. \/ writing'[c] # "ok"
        \/ writing[c] = "newline" /\ lines' = Append(lines, open)
    BY ZenonT(30), <1>4, RecordMoves DEF ContinueRecord, Stage, Busy
  <2>2. CASE writing'[c] = "ok"
    BY <1>0, <1>4, <2>1, <2>2 DEF ContinueRecord, NextPart
  <2>3. CASE writing'[c] # "ok"
    BY <1>0, <1>4, <2>1, <2>3 DEF ContinueRecord
  <2>4. QED
    BY <2>2, <2>3
<1>5. CASE RecordError(c)
  BY <1>0, <1>5 DEF RecordError
<1>6. CASE Parse(c) \/ ToolReturns(c) \/ Fail(c)
  BY <1>0, <1>6 DEF Parse, ToolReturns, Fail, NextStage
<1>7. CASE InvokeTool(c)
  BY <1>0, <1>7 DEF InvokeTool
<1>8. CASE Infer(c) \/ StreamEnds(c) \/ Deliver(c)
  BY <1>0, <1>8 DEF Infer, StreamEnds, Deliver, Stage
<1>9. CASE Drop(c)
  BY <1>0, <1>9 DEF Drop
<1>10. QED
  BY <1>1, <1>2, <1>3, <1>4, <1>5, <1>6, <1>7, <1>8, <1>9 DEF StepOf, CallStep

\* What a call asks of tools and model, it asks with its message recorded.
LEMMA AskedBy ==
  ASSUME Shape, NEW c \in Calls, Stage(c), StepOf(c), memoryOn,
         ran'[c] # <<>> \/ c \in inferred'
  PROVE  ran[c] # <<>> \/ c \in inferred \/ Finished(c, 0)
<1> USE DEF Shape, callVars, At, Executing, Tooling, Modelling, Finished, Stage
<1>1. CASE InvokeTool(c)
  BY <1>1 DEF InvokeTool
<1>2. CASE Infer(c)
  BY <1>2 DEF Infer
<1>3. CASE ran' = ran /\ inferred' = inferred
  BY <1>3
<1>4. QED
  BY <1>1, <1>2, <1>3
     DEF StepOf, CallStep, Arrive, EnforceMemoryPolicy, EnforceToolPolicy, EnforceModelPolicy,
         Enforce, BeginRecord, ContinueRecord, RecordError, Parse, ToolReturns,
         StreamEnds, Deliver, Fail, Drop

LEMMA ShapeStep ==
  ASSUME Base, NEW c \in Calls, StepOf(c)
  PROVE  Shape'
<1> DEFINE Somewhere == pc' \in [Calls -> Stages \cup Ended \cup {"idle"}]
           Counted == /\ part' \in [Calls -> Nat]
                      /\ \A d \in Calls : part'[d] <= LastPart(d)
           Ran == ran' \in [Calls -> Seq(ToolFns)]
           Since == DOMAIN since' = Calls
<1>0. /\ Shape /\ Stage(c) /\ LastPart(c) \in Nat /\ LastPart(c) = Len(Plan[c]) + 1
      /\ Len(Plan[c]) \in Nat
  BY PlanTyped DEF Base
<1>1. writing' \in [Writers -> Busy \cup {"idle", "ok", "failed"}]
      /\ job' \in [Writers -> Records \cup {NoRecord}]
  BY BusKept DEF Bus!BusInv, Bus!BusTypeOK, Bus!Busy, Busy
<1>2. registered' = registered
  BY SwitchesKept
<1>3. Somewhere /\ Counted /\ Ran /\ Since
  <2> USE DEF Shape, Enter, callVars, At, Stages, Ended
  <2>1. CASE \E type \in Types : Arrive(c, type)
    BY <1>0, <2>1 DEF Arrive
  <2>2. CASE EnforceMemoryPolicy(c) \/ EnforceToolPolicy(c) \/ EnforceModelPolicy(c)
    BY <1>0, <2>2 DEF EnforceMemoryPolicy, EnforceToolPolicy, EnforceModelPolicy, Enforce
  <2>3. CASE BeginRecord(c)
    BY <1>0, <2>3 DEF BeginRecord
  <2>4. CASE ContinueRecord(c)
    <3>1. UNCHANGED <<ran, since>>
      BY <2>4 DEF ContinueRecord
    <3>2. Somewhere
      BY <1>0, <2>4 DEF ContinueRecord, NextPart
    <3>3. part' = part \/ (part' = [part EXCEPT ![c] = part[c] + 1] /\ part[c] # LastPart(c))
      BY <2>4 DEF ContinueRecord, NextPart
    <3>4. Counted
      <4>1. part[c] \in Nat /\ part[c] <= LastPart(c)
        BY <1>0
      <4>2. part[c] # LastPart(c) => part[c] + 1 \in Nat /\ part[c] + 1 <= LastPart(c)
        BY <1>0, <4>1
      <4>3. QED
        BY <1>0, <3>3, <4>2
    <3>5. QED
      BY <1>0, <3>1, <3>2, <3>4
  <2>5. CASE RecordError(c)
    BY <1>0, <2>5 DEF RecordError
  <2>6. CASE Parse(c) \/ ToolReturns(c) \/ Fail(c)
    BY <1>0, <2>6 DEF Parse, ToolReturns, Fail, NextStage
  <2>7. CASE InvokeTool(c)
    <3> DEFINE f == registered[Invocation(c).name]
    <3>1. f \in ToolFns
      BY <1>0, <2>7 DEF InvokeTool, Invocable, Registry!Bound
    <3>2. Ran
      BY <1>0, <2>7, <3>1 DEF InvokeTool
    <3>3. QED
      BY <1>0, <2>7, <3>2 DEF InvokeTool
  <2>8. CASE Infer(c) \/ StreamEnds(c) \/ Deliver(c)
    <3>1. /\ \E to \in Stages \cup Ended : pc' = [pc EXCEPT ![c] = to]
          /\ part' = part \/ part' = [part EXCEPT ![c] = 1]
          /\ UNCHANGED <<ran, since>>
      BY <2>8 DEF Infer, StreamEnds, Deliver
    <3>2. Counted
      <4>1. 1 \in Nat /\ 1 <= LastPart(c)
        BY <1>0
      <4>2. part' = part \/ part' = [part EXCEPT ![c] = 1]
        BY <3>1
      <4>3. part \in [Calls -> Nat] /\ \A d \in Calls : part[d] <= LastPart(d)
        BY <1>0
      <4>4. QED
        BY <4>1, <4>2, <4>3
    <3>3. Somewhere
      <4>1. PICK to \in Stages \cup Ended : pc' = [pc EXCEPT ![c] = to]
        BY <3>1
      <4>2. pc \in [Calls -> Stages \cup Ended \cup {"idle"}]
        BY <1>0
      <4>3. QED
        BY <4>1, <4>2
    <3>4. Ran /\ Since
      BY <1>0, <3>1
    <3>5. QED
      BY <3>2, <3>3, <3>4
  <2>9. CASE Drop(c)
    BY <1>0, <2>9 DEF Drop
  <2>10. QED
    BY <2>1, <2>2, <2>3, <2>4, <2>5, <2>6, <2>7, <2>8, <2>9 DEF StepOf, CallStep
<1>4. QED
  BY <1>0, <1>1, <1>2, <1>3 DEF Shape

LEMMA FileOfCallsStep ==
  ASSUME Base, NEW c \in Calls, StepOf(c)
  PROVE  FileOfCalls' /\ FirstOnLine'
<1>0. Shape /\ Stage(c) /\ memoryOn' = memoryOn
  BY SwitchesKept DEF Base
<1>1. lines' = lines \/ lines' = Append(lines, open)
  BY FileMoves
<1>2. \A d \in Calls : \A n : OnLine(d, n) => OnLine(d, n)'
  <2> TAKE d \in Calls
  <2> TAKE n
  <2> DEFINE r == RecordOf(d, n)
  <2>1. ASSUME NEW j \in Nat, Bus!EndsWith(r, j) PROVE Bus!EndsWith(r, j)'
    <3> HIDE DEF r
    <3>1. QED
      BY <1>1, <2>1, OnLineStays
  <2>2. QED
    BY <2>1 DEF OnLine, RecordOf
<1>3. \A d \in Calls : d # c =>
        /\ \A n : (Begun(d, n) => Begun(d, n)') /\ (Finished(d, n)' => Finished(d, n))
        /\ (ran'[d] # <<>> \/ d \in inferred') => (ran[d] # <<>> \/ d \in inferred)
  BY <1>0, Others DEF Begun, Finished
<1>4. ASSUME NEW d \in Calls, NEW n \in 0..LastPart(d), NEW r, r = RecordOf(d, n),
             NEW i \in Nat, NEW k \in Nat, Bus!Mentions(r, i, k)'
      PROVE  /\ Begun(d, n)'
             /\ n > 0 => \E j \in Nat : j < i /\ (Bus!EndsWith(RecordOf(d, n - 1), j))'
  <2>1. r \in Records /\ n \in Nat
    BY <1>4, PlanTyped
  <2>2. CASE Bus!Mentions(r, i, k)
    <3>1. /\ Begun(d, n)
          /\ n > 0 => \E j \in Nat : j < i /\ Bus!EndsWith(RecordOf(d, n - 1), j)
      BY <1>4, <2>2 DEF Base, FileOfCalls
    <3>2. Begun(d, n)'
      BY <1>0, <1>3, <2>1, <3>1, BegunStays
    <3>3. ASSUME n > 0
          PROVE  \E j \in Nat : j < i /\ (Bus!EndsWith(RecordOf(d, n - 1), j))'
      <4>1. PICK j \in Nat : j < i /\ Bus!EndsWith(RecordOf(d, n - 1), j)
        BY <3>1, <3>3
      <4> DEFINE q == RecordOf(d, n - 1)
      <4>2. Bus!EndsWith(q, j)'
        <5> HIDE DEF q
        <5>1. Bus!EndsWith(q, j)
          BY <4>1 DEF q
        <5>2. QED
          BY <1>1, <5>1, OnLineStays
      <4>3. QED
        BY <4>1, <4>2
    <3>4. QED
      BY <3>2, <3>3
  <2>3. CASE ~Bus!Mentions(r, i, k)
    <3>1. /\ r = RecordOf(c, part[c]) /\ i = Len(lines) + 1
          /\ pc[c] = "record" /\ writing[c] \in Busy
      BY <1>4, <2>1, <2>3, FileMoves
    <3>2. d = c /\ n = part[c]
      <4>1. RecordOf(d, n) = RecordOf(c, part[c])
        BY <1>4, <3>1
      <4>2. QED
        BY <4>1, Distinct
    <3>3. Begun(c, n)
      BY <3>1, <3>2 DEF Begun
    <3>4. Begun(d, n)'
      BY <1>0, <2>1, <3>2, <3>3, BegunStays
    <3>5. ASSUME n > 0
          PROVE  \E j \in Nat : j < i /\ (Bus!EndsWith(RecordOf(d, n - 1), j))'
      <4>1. memoryOn /\ n - 1 \in 0..LastPart(c) /\ n - 1 < part[c]
        BY <1>0, <2>1, <3>1, <3>2, <3>5, PlanTyped DEF Stage, Recording
      <4>2. OnLine(c, n - 1)
        BY <4>1 DEF Finished, Base, FileOfCalls
      <4> DEFINE q == RecordOf(c, n - 1)
      <4>3. PICK j \in Nat : Bus!EndsWith(q, j)
        BY <4>2 DEF OnLine
      <4>4. j < i
        <5>1. Len(lines) \in Nat
          BY DEF Base, Bus!BusInv, Bus!BusTypeOK, Bus!Journal!JournalTypeOK
        <5>2. QED
          BY <3>1, <4>3, <5>1 DEF Bus!EndsWith
      <4>5. Bus!EndsWith(q, j)'
        <5> HIDE DEF q
        <5>1. QED
          BY <1>1, <4>3, OnLineStays
      <4>6. QED
        BY <3>2, <4>4, <4>5
    <3>6. QED
      BY <3>4, <3>5
  <2>4. QED
    BY <2>2, <2>3
<1>5. ASSUME NEW d \in Calls, NEW n \in 0..LastPart(d), Finished(d, n)'
      PROVE  OnLine(d, n)'
  <2>1. CASE Finished(d, n)
    BY <1>2, <2>1 DEF Base, FileOfCalls
  <2>2. CASE ~Finished(d, n)
    <3>1. d = c
      BY <1>3, <1>5, <2>2
    <3>2. /\ n = part[c] /\ pc[c] = "record" /\ writing[c] = "newline"
          /\ lines' = Append(lines, open)
      BY <1>0, <1>5, <2>2, <3>1, FinishedBy
    <3> DEFINE r == RecordOf(c, n)
    <3>3. job[c] = r
      BY <1>0, <3>2 DEF Stage, Busy
    <3>4. Len(open) > 0 /\ open[Len(open)] = Bus!Journal!Whole(r)
      BY <3>2, <3>3 DEF Base, Bus!FileInv, Calls
    <3>5. Bus!Journal!JournalTypeOK
      BY DEF Base, Bus!BusInv, Bus!BusTypeOK
    <3>5a. Len(lines) + 1 \in Nat
      BY <3>5 DEF Bus!Journal!JournalTypeOK
    <3>5b. PICK j \in Nat : j = Len(lines) + 1
      BY <3>5a
    <3>6. Bus!EndsWith(r, j)'
      <4> HIDE DEF r
      <4>1. QED
        BY <3>2, <3>4, <3>5, <3>5b, Instance, Bus!NewlineEnds
    <3>7. QED
      BY <3>1, <3>6 DEF OnLine, RecordOf
  <2>3. QED
    BY <2>1, <2>2
<1>6. FileOfCalls'
  <2>1. ASSUME NEW d \in Calls, NEW n \in 0..LastPart(d), NEW i \in Nat, NEW k \in Nat,
               Bus!Mentions(RecordOf(d, n), i, k)'
        PROVE  /\ Begun(d, n)'
               /\ n > 0 => \E j \in Nat : j < i /\ (Bus!EndsWith(RecordOf(d, n - 1), j))'
    <3> DEFINE r == RecordOf(d, n)
    <3>1. r = RecordOf(d, n) /\ Bus!Mentions(r, i, k)'
      BY <2>1
    <3> HIDE DEF r
    <3>2. QED
      BY <1>4, <3>1
  <2>2. QED
    BY <1>5, <2>1 DEF FileOfCalls
<1>7. FirstOnLine'
  <2> SUFFICES ASSUME NEW d \in Calls, memoryOn, ran'[d] # <<>> \/ d \in inferred'
               PROVE  OnLine(d, 0)'
    BY <1>0 DEF FirstOnLine
  <2>1. ran[d] # <<>> \/ d \in inferred \/ (d = c /\ Finished(c, 0))
    BY <1>0, <1>3, AskedBy
  <2>2. 0 \in 0..LastPart(c)
    BY PlanTyped
  <2>3. OnLine(d, 0)
    BY <2>1, <2>2 DEF Base, FileOfCalls, FirstOnLine
  <2>4. QED
    BY <1>2, <2>3
<1>8. QED
  BY <1>6, <1>7

\* What the rules, the registry and the other variables do is not about it.
LEMMA BaseSame ==
  ASSUME Base, UNCHANGED <<busVars, memoryOn, pc, callVars>>,
         \A n \in DOMAIN registered' : registered'[n] \in ToolFns /\ registered'[n].name = n
  PROVE  Base'
<1> USE DEF busVars, callVars
<1>1. Bus!BusInv'
  BY DEF Base, Bus!BusInv, Bus!BusTypeOK, Bus!Volatile!VolatileTypeOK,
         Bus!Journal!JournalTypeOK, Bus!Mutex
<1>2. Bus!FileInv'
  BY Instance, Bus!FileSame DEF Base
<1>3. Shape'
  BY DEF Base, Shape
<1>4. \A c \in Calls : Stage(c)'
  BY SMTT(30) DEF Base, Stage, RecordOf
<1>5. \A p, i, k : Bus!Holds(p, i, k)' <=> Bus!Holds(p, i, k)
  BY Instance, Bus!HoldsSame
<1>6. \A r, j : Bus!EndsWith(r, j)' <=> Bus!EndsWith(r, j)
  BY DEF Bus!EndsWith, Bus!Journal!Whole
<1>7. FileOfCalls'
  BY <1>5, <1>6
     DEF Base, FileOfCalls, Begun, Finished, OnLine, RecordOf, Bus!Mentions,
         Bus!Journal!Whole, Bus!Journal!Part
<1>8. FirstOnLine'
  BY <1>6 DEF Base, FirstOnLine, OnLine, RecordOf
<1>9. QED
  BY <1>1, <1>2, <1>3, <1>4, <1>7, <1>8 DEF Base

LEMMA SameFinite ==
  ASSUME NEW S
  PROVE  /\ Registry!IsFiniteSet(S) <=> IsFiniteSet(S)
         /\ Bus!IsFiniteSet(S) <=> IsFiniteSet(S)
  BY DEF Registry!IsFiniteSet, Bus!IsFiniteSet, IsFiniteSet

LEMMA SameOrders ==
  ASSUME NEW S
  PROVE  Registry!SetToSeqs(S) = Bus!Vector!SetToSeqs(S)
<1>1. Registry!Cardinality(S) = Bus!Vector!Cardinality(S)
  BY DEF Registry!Cardinality, Bus!Vector!Cardinality
<1>2. QED
  BY <1>1 DEF Registry!SetToSeqs, Bus!Vector!SetToSeqs

\* The builder registers tools it finds in the inventory, each under its name.
LEMMA BuiltTyped ==
  ASSUME NEW inventory \in Registry!Inventories, NEW functions \in BuilderCalls,
         NEW handles \in Registry!Built(inventory, functions), NEW n \in DOMAIN handles
  PROVE  handles[n] \in ToolFns /\ handles[n].name = n
<1> DEFINE found == [i \in 1..Len(functions) |-> Registry!DescriptorOf(inventory, functions[i].type)]
           PositionOf(m) == CHOOSE i \in 1..Len(found) : found[i].name = m
<1>1. /\ inventory \in Seq(ToolFns)
      /\ \A f \in ToolFns : \E i \in 1..Len(inventory) : inventory[i] = f
  <2>1. IsFiniteSet(ToolFns)
    BY PartsAssumption, SameFinite DEF Registry!ToolAssumption
  <2>2. inventory \in Bus!Vector!SetToSeqs(ToolFns)
    BY SameOrders DEF Registry!Inventories
  <2>3. QED
    BY <2>1, <2>2, SameFinite, Instance, Bus!AllPlaced
<1>2. functions \in Seq(ToolFns)
  BY PipelineAssumption
<1>3. ASSUME NEW i \in 1..Len(functions)
      PROVE  Registry!DescriptorOf(inventory, functions[i].type) \in ToolFns
  <2> DEFINE t == functions[i].type
             T == {k \in 1..Len(inventory) : inventory[k].type = t}
  <2>1. functions[i] \in ToolFns
    BY <1>2
  <2>2. T # {} /\ T \subseteq Nat
    <3>1. PICK k \in 1..Len(inventory) : inventory[k] = functions[i]
      BY <1>1, <2>1
    <3>2. k \in T
      BY <3>1
    <3>3. QED
      BY <3>2
  <2>3. PICK k \in T : \A m \in T : ~ (m < k)
    <3> HIDE DEF T
    <3>1. QED
      BY <2>2, Instance, Bus!LeastNat
  <2>4. \A m \in 1..(k - 1) : inventory[m].type # t
    BY <1>1, <2>3
  <2>5. \E j \in 1..Len(inventory) :
          inventory[j].type = t /\ \A m \in 1..(j - 1) : inventory[m].type # t
    BY <2>3, <2>4
  <2> DEFINE j == CHOOSE j \in 1..Len(inventory) :
                    inventory[j].type = t /\ \A m \in 1..(j - 1) : inventory[m].type # t
  <2>6. j \in 1..Len(inventory)
    BY <2>5
  <2>7. Registry!DescriptorOf(inventory, t) = inventory[j]
    BY DEF Registry!DescriptorOf
  <2> HIDE DEF j
  <2>8. QED
    BY <1>1, <2>6, <2>7
<1>4. Len(found) = Len(functions) /\ \A i \in 1..Len(found) : found[i] \in ToolFns
  BY <1>2, <1>3
<1>5. handles = [m \in {found[i].name : i \in 1..Len(found)} |-> found[PositionOf(m)]]
  BY DEF Registry!Built
<1> HIDE DEF found
<1>6. \E i \in 1..Len(found) : found[i].name = n
  BY <1>5
<1>7. PositionOf(n) \in 1..Len(found) /\ found[PositionOf(n)].name = n
  BY <1>6
<1>8. handles[n] = found[PositionOf(n)]
  BY <1>5
<1> HIDE DEF PositionOf
<1>9. QED
  BY <1>4, <1>7, <1>8

LEMMA FirstRegistry ==
  Init => \A n \in DOMAIN registered : registered[n] \in ToolFns /\ registered[n].name = n
<1> SUFFICES ASSUME Init, NEW n \in DOMAIN registered
             PROVE  registered[n] \in ToolFns /\ registered[n].name = n
  OBVIOUS
<1> DEFINE Pick(m) == CHOOSE f \in FirstTools : f.name = m
<1>1. CASE registered = [m \in {f.name : f \in FirstTools} |-> Pick(m)]
  <2>1. \E f \in FirstTools : f.name = n
    BY <1>1
  <2>2. Pick(n) \in FirstTools /\ Pick(n).name = n
    BY <2>1
  <2>3. registered[n] = Pick(n)
    BY <1>1
  <2> HIDE DEF Pick
  <2>4. QED
    BY <2>2, <2>3, PipelineAssumption
<1>2. CASE \E inventory \in Registry!Inventories, functions \in BuilderCalls :
             registered \in Registry!Built(inventory, functions)
  BY <1>2, BuiltTyped
<1>3. QED
  BY <1>1, <1>2 DEF Init

LEMMA BaseStart == Init => Base
<1> SUFFICES ASSUME Init PROVE Base
  OBVIOUS
<1>1. /\ BusInit /\ pc = [c \in Calls |-> "idle"] /\ part = [c \in Calls |-> 0]
      /\ ran = [c \in Calls |-> <<>>] /\ inferred = {} /\ delivered = {}
      /\ since = [c \in Calls |-> [rules |-> 0, tools |-> <<>>]]
  BY DEF Init
<1>2. Bus!BusInv /\ Bus!FileInv
  BY <1>1, SameStart, Instance, Bus!BusStart, Bus!FileStart
<1>3. /\ writing = [w \in Writers |-> "idle"] /\ job = [w \in Writers |-> NoRecord]
      /\ lines = <<>> /\ open = <<>>
  BY <1>1 DEF BusInit, Journal!JournalInit
<1>4. Shape
  BY <1>1, <1>3, FirstRegistry, PlanTyped DEF Shape, Stages, Ended
<1>5. ASSUME NEW c \in Calls PROVE Stage(c)
  <2>1. /\ pc[c] = "idle" /\ part[c] = 0 /\ ran[c] = <<>> /\ Len(ran[c]) = 0
        /\ writing[c] = "idle" /\ job[c] = NoRecord /\ Len(Plan[c]) \in Nat
        /\ c \notin inferred /\ c \notin delivered
    BY <1>1, <1>3, PlanTyped DEF Calls
  <2>2. QED
    BY <2>1 DEF Stage, Busy, Recording, Tooling, Modelling, Executing, Delivering
<1>6. \A p, i, k : ~Bus!Holds(p, i, k)
  BY <1>3 DEF Bus!Holds, Bus!Line
<1>7. FileOfCalls /\ FirstOnLine
  BY <1>1, <1>6
     DEF FileOfCalls, FirstOnLine, Bus!Mentions, Finished, Executing, Tooling, Modelling,
         Delivering
<1>8. QED
  BY <1>2, <1>4, <1>5, <1>7 DEF Base

LEMMA RegistryKept ==
  ASSUME \A n \in DOMAIN registered : registered[n] \in ToolFns /\ registered[n].name = n,
         NEW f \in ToolFns, Registry!Register(f)
  PROVE  \A n \in DOMAIN registered' : registered'[n] \in ToolFns /\ registered'[n].name = n
  BY DEF Registry!Register, Registry!With

LEMMA BaseStep == Base /\ [Next]_vars => Base'
<1> SUFFICES ASSUME Base, [Next]_vars PROVE Base'
  OBVIOUS
<1>0. Shape
  BY DEF Base
<1>1. ASSUME NEW c \in Calls, StepOf(c) PROVE Base'
  <2>1. \A d \in Calls : Stage(d)'
    BY <1>0, <1>1, StageStep, StageOther DEF Base
  <2>2. QED
    BY <1>1, <2>1, BusKept, ShapeStep, FileOfCallsStep DEF Base
<1>2. ASSUME NEW rule \in Rules, AddRule(rule) PROVE Base'
  BY <1>0, <1>2, BaseSame DEF AddRule, Shape
<1>3. ASSUME NEW f \in ToolFns, RegisterTool(f) PROVE Base'
  BY <1>0, <1>3, BaseSame, RegistryKept DEF RegisterTool, Shape
<1>4. CASE UNCHANGED vars
  BY <1>0, <1>4, BaseSame DEF vars, sharedVars, Shape
<1>5. QED
  BY <1>1, <1>2, <1>3, <1>4 DEF Next, StepOf, AllEnded

-----------------------------------------------------------------------------
(* Types                                                                    *)

LEMMA Decided ==
  ASSUME NEW rs \in Seq(Rules), NEW request
  PROVE  Policy!Evaluate(rs, request) \in Policy!DecisionKind
<1> DEFINE hits == {i \in 1..Len(rs) : Policy!Matches(rs[i], request)}
<1>1. CASE hits = {}
  BY <1>1, PartsAssumption DEF Policy!Evaluate, Policy!PolicyAssumption
<1>2. CASE hits # {}
  <2>1. hits \subseteq Nat
    OBVIOUS
  <2>2. PICK x \in hits : \A y \in hits : ~ (y < x)
    <3> HIDE DEF hits
    <3>1. QED
      BY <1>2, <2>1, Instance, Bus!LeastNat
  <2>3. \A y \in hits : x <= y
    BY <2>1, <2>2
  <2>4. Policy!Min(hits) \in hits
    BY <2>2, <2>3 DEF Policy!Min
  <2>5. Policy!Evaluate(rs, request) = rs[Policy!Min(hits)].decision
    BY <1>2 DEF Policy!Evaluate
  <2>6. rs[Policy!Min(hits)] \in Rules
    <3> DEFINE m == Policy!Min(hits)
    <3>1. m \in 1..Len(rs)
      BY <2>4
    <3> HIDE DEF m
    <3>2. rs[m] \in Rules
      BY <3>1
    <3>3. QED
      BY <3>2 DEF m
  <2>7. QED
    BY <2>5, <2>6, PartsAssumption DEF Policy!PolicyAssumption, Policy!Constructible
<1>3. QED
  BY <1>1, <1>2

\* What a step may tell the observers.
LEMMA Told ==
  ASSUME NEW c \in Calls, StepOf(c)
  PROVE  \/ emitted' = emitted
         \/ \E request : LET decision == Policy!Evaluate(rules, request)
                         IN  /\ emitted' = emitted \cup {AuditEvent(c, request, decision)}
                             /\ ~Policy!Permits(decision) /\ pc' = [pc EXCEPT ![c] = "refused"]
                             /\ UNCHANGED <<ran, inferred>>
                             /\ \/ pc[c] = "policy" /\ request.kind = "event"
                                \/ /\ pc[c] = "tool_policy" /\ request.kind = "tool"
                                   /\ request.name = Invocation(c).name
                                \/ pc[c] = "model_policy" /\ request.kind = "model"
<1> DEFINE Tells(request) ==
             LET decision == Policy!Evaluate(rules, request)
             IN  /\ emitted' = emitted \cup {AuditEvent(c, request, decision)}
                 /\ ~Policy!Permits(decision) /\ pc' = [pc EXCEPT ![c] = "refused"]
                 /\ UNCHANGED <<ran, inferred>>
<1>1. ASSUME NEW request, NEW stage, Enforce(c, request, stage)
      PROVE  emitted' = emitted \/ Tells(request)
  <2> DEFINE decision == Policy!Evaluate(rules, request)
             e == AuditEvent(c, request, decision)
  <2>1. CASE ~policyOn
    BY <1>1, <2>1 DEF Enforce
  <2>2. CASE policyOn
    <3>1. OnDecision(e) /\ Enter(c, IF Policy!Permits(decision) THEN stage ELSE "refused")
      BY <1>1, <2>2 DEF Enforce
    <3>2. e.decision = decision
      BY DEF AuditEvent
    <3>3. UNCHANGED <<ran, inferred>>
      BY <1>1 DEF Enforce, callVars
    <3> HIDE DEF e, decision
    <3>4. emitted' = emitted
            \/ (emitted' = emitted \cup {e} /\ (decision = "deny" \/ decision = "escalate"))
      BY <3>1, <3>2 DEF OnDecision
    <3>5. CASE emitted' = emitted
      BY <3>5
    <3>6. CASE emitted' = emitted \cup {e} /\ (decision = "deny" \/ decision = "escalate")
      BY <3>1, <3>3, <3>6 DEF Policy!Permits, Enter, e, decision
    <3>7. QED
      BY <3>4, <3>5, <3>6
  <2>3. QED
    BY <2>1, <2>2
<1>2. CASE EnforceMemoryPolicy(c)
  <2> DEFINE r == RecordRequest(c, part[c])
  <2>1. pc[c] = "policy" /\ Enforce(c, r, "record")
    BY <1>2 DEF EnforceMemoryPolicy, At
  <2>2. r.kind = "event"
    BY DEF RecordRequest, Policy!Request
  <2> HIDE DEF r
  <2>3. QED
    BY <1>1, <2>1, <2>2
<1>3. CASE EnforceToolPolicy(c)
  <2> DEFINE r == ToolRequest(Invocation(c).name)
  <2>1. pc[c] = "tool_policy" /\ Enforce(c, r, "tool")
    BY <1>3 DEF EnforceToolPolicy, At
  <2>2. r.kind = "tool" /\ r.name = Invocation(c).name
    BY DEF ToolRequest, Policy!Request
  <2> HIDE DEF r
  <2>3. QED
    BY <1>1, <2>1, <2>2
<1>4. CASE EnforceModelPolicy(c)
  <2> DEFINE r == ModelRequest(c)
  <2>1. pc[c] = "model_policy" /\ Enforce(c, r, "infer")
    BY <1>4 DEF EnforceModelPolicy, At
  <2>2. r.kind = "model"
    BY DEF ModelRequest, Policy!Request
  <2> HIDE DEF r
  <2>3. QED
    BY <1>1, <2>1, <2>2
<1>5. QED
  BY <1>2, <1>3, <1>4
     DEF StepOf, CallStep, Arrive, BeginRecord, ContinueRecord, RecordError, Parse, InvokeTool,
         ToolReturns, Infer, StreamEnds, Deliver, Fail, Drop

\* What TypeOK says beside the bus and the shape of the calls.
OtherTypes ==
  /\ rules \in Seq(Rules)
  /\ shared \in BOOLEAN
  /\ memoryOn \in BOOLEAN /\ policyOn \in BOOLEAN
  /\ inferred \in SUBSET Calls
  /\ delivered \in SUBSET Calls
  /\ \A c \in Calls :
       /\ since[c].rules \in Nat
       /\ \A n \in DOMAIN since[c].tools : since[c].tools[n] \in ToolFns
  /\ \A e \in emitted : e.call \in Calls /\ e.decision \in Policy!DecisionKind

LEMMA Typed == Base /\ OtherTypes => TypeOK
<1> SUFFICES ASSUME Base, OtherTypes PROVE TypeOK
  OBVIOUS
<1>1. BusTypeOK
  BY DEF Base, Bus!BusInv, Bus!BusTypeOK, BusTypeOK, Bus!Busy, Busy,
         Bus!Volatile!VolatileTypeOK, Volatile!VolatileTypeOK,
         Bus!Journal!JournalTypeOK, Journal!JournalTypeOK, Bus!Journal!Piece, Journal!Piece,
         Bus!Journal!Nobody, Journal!Nobody
<1>2. QED
  BY <1>1 DEF Base, Shape, OtherTypes, TypeOK

LEMMA OtherStart == Init => OtherTypes
<1> SUFFICES ASSUME Init PROVE OtherTypes
  OBVIOUS
<1>1. /\ rules = <<>> /\ inferred = {} /\ delivered = {} /\ emitted = {}
      /\ since = [c \in Calls |-> [rules |-> 0, tools |-> <<>>]]
      /\ shared \in BOOLEAN /\ memoryOn \in BOOLEAN /\ policyOn \in BOOLEAN
  BY DEF Init
<1>2. \A c \in Calls : since[c].rules = 0 /\ DOMAIN since[c].tools = {}
  BY <1>1
<1>3. QED
  BY <1>1, <1>2 DEF OtherTypes

LEMMA OtherStep == Base /\ OtherTypes /\ [Next]_vars => OtherTypes'
<1> SUFFICES ASSUME Base, OtherTypes, [Next]_vars PROVE OtherTypes'
  OBVIOUS
<1>1. ASSUME NEW c \in Calls, StepOf(c) PROVE OtherTypes'
  <2>1. UNCHANGED <<rules, registered, shared, memoryOn, policyOn>>
    BY <1>1, SwitchesKept
  <2>2. /\ inferred' = inferred \/ inferred' = inferred \cup {c}
        /\ delivered' = delivered \/ delivered' = delivered \cup {c}
        /\ since' = since \/ since' = [since EXCEPT ![c] = [rules |-> Len(rules), tools |-> registered]]
    BY <1>1
       DEF StepOf, CallStep, Arrive, EnforceMemoryPolicy, EnforceToolPolicy, EnforceModelPolicy,
           Enforce, BeginRecord, ContinueRecord, RecordError, Parse, InvokeTool, ToolReturns,
           Infer, StreamEnds, Deliver, Fail, Drop, callVars
  <2>3. ASSUME NEW d \in Calls
        PROVE  /\ since'[d].rules \in Nat
               /\ \A n \in DOMAIN since'[d].tools : since'[d].tools[n] \in ToolFns
    <3>1. since'[d] = since[d] \/ since'[d] = [rules |-> Len(rules), tools |-> registered]
      BY <2>2 DEF Base, Shape
    <3>2. /\ Len(rules) \in Nat
          /\ \A n \in DOMAIN registered : registered[n] \in ToolFns
      BY DEF Base, Shape, OtherTypes
    <3>3. QED
      BY <3>1, <3>2 DEF OtherTypes
  <2>4. \A e \in emitted' : e.call \in Calls /\ e.decision \in Policy!DecisionKind
    <3>1. CASE emitted' = emitted
      BY <3>1 DEF OtherTypes
    <3>2. CASE emitted' # emitted
      <4>1. PICK request : emitted' = emitted \cup {AuditEvent(c, request, Policy!Evaluate(rules, request))}
        BY <1>1, <3>2, Told
      <4>2. Policy!Evaluate(rules, request) \in Policy!DecisionKind
        BY Decided DEF OtherTypes
      <4>3. QED
        BY <4>1, <4>2 DEF OtherTypes, AuditEvent
    <3>3. QED
      BY <3>1, <3>2
  <2>5. QED
    BY <2>1, <2>2, <2>3, <2>4 DEF OtherTypes
<1>2. ASSUME NEW rule \in Rules, AddRule(rule) PROVE OtherTypes'
  BY <1>2 DEF AddRule, Policy!AddRule, OtherTypes, callVars
<1>3. ASSUME NEW f \in ToolFns, RegisterTool(f) PROVE OtherTypes'
  BY <1>3 DEF RegisterTool, OtherTypes, callVars
<1>4. CASE UNCHANGED vars
  BY <1>4 DEF vars, sharedVars, callVars, OtherTypes
<1>5. QED
  BY <1>1, <1>2, <1>3, <1>4 DEF Next, StepOf, AllEnded

\* Whatever the calls, the rules and the registry do, every variable keeps its
\* type; in particular the builder finds a tool for every function it is given,
\* a call never records past its response, and an observer is never told of a
\* decision that is none.
THEOREM TypeCorrect == Spec => []TypeOK
<1> DEFINE Inv == Base /\ OtherTypes
<1>1. Init => Inv
  BY BaseStart, OtherStart
<1>2. Inv /\ [Next]_vars => Inv'
  BY BaseStep, OtherStep
<1>3. Inv => TypeOK
  BY Typed
<1>4. QED
  BY <1>1, <1>2, <1>3, PTL DEF Spec

-----------------------------------------------------------------------------
(* The transcript                                                           *)

LEMMA PlaceIs ==
  ASSUME Base, NEW c \in Calls, NEW n \in 0..LastPart(c)
  PROVE  /\ \A p \in Places(c, n) : \E i, k \in Nat :
              p = <<i, k>> /\ Bus!Mentions(RecordOf(c, n), i, k)
         /\ \A j \in Nat : Bus!EndsWith(RecordOf(c, n), j)
              => \E k \in Nat : <<j, k>> \in Places(c, n)
<1> DEFINE r == RecordOf(c, n)
<1>1. /\ lines \in Seq(Seq(Journal!Piece)) /\ Len(lines) \in Nat
      /\ \A i \in 1..Len(lines) : Len(lines[i]) \in Nat
  BY DEF Base, Bus!BusInv, Bus!BusTypeOK, Bus!Journal!JournalTypeOK,
         Bus!Journal!Piece, Journal!Piece
<1>2. Journal!Whole(r) = Bus!Journal!Whole(r)
  BY DEF Journal!Whole, Bus!Journal!Whole
<1> HIDE DEF r
<1>3. ASSUME NEW p \in Places(c, n)
      PROVE  \E i, k \in Nat : p = <<i, k>> /\ Bus!Mentions(r, i, k)
  <2>1. PICK i \in 1..Len(lines) :
          p \in {<<i, k>> : k \in {k \in 1..Len(lines[i]) : lines[i][k] = Journal!Whole(r)}}
    BY DEF Places, r
  <2>2. PICK k \in 1..Len(lines[i]) : p = <<i, k>> /\ lines[i][k] = Journal!Whole(r)
    BY <2>1
  <2>3. i \in Nat /\ k \in Nat
    BY <1>1
  <2>4. Bus!Holds(Bus!Journal!Whole(r), i, k)
    BY <1>1, <1>2, <2>2 DEF Bus!Holds, Bus!Line
  <2>5. QED
    BY <2>2, <2>3, <2>4 DEF Bus!Mentions
<1>4. ASSUME NEW j \in Nat, Bus!EndsWith(r, j)
      PROVE  \E k \in Nat : <<j, k>> \in Places(c, n)
  <2>1. PICK k \in Nat : k = Len(lines[j])
    BY <1>1, <1>4 DEF Bus!EndsWith
  <2>2. j \in 1..Len(lines) /\ k \in 1..Len(lines[j]) /\ lines[j][k] = Journal!Whole(r)
    BY <1>2, <1>4, <2>1 DEF Bus!EndsWith
  <2>3. <<j, k>> \in Places(c, n)
    BY <2>2 DEF Places, r
  <2>4. QED
    BY <2>3
<1>5. QED
  BY <1>3, <1>4 DEF r

LEMMA InOrder == Base => TranscriptInOrder
<1> SUFFICES ASSUME Base, NEW c \in Calls
             PROVE  /\ \A n \in 0..LastPart(c) : \A p \in Places(c, n) :
                         /\ Places(c, n) = {p}
                         /\ n > 0 => \E q \in Places(c, n - 1) : q[1] < p[1]
                    /\ \A i \in 1..Len(ran[c]) : ran[c][i].name = Plan[c][i].name
                    /\ c \in delivered =>
                         /\ Len(ran[c]) = Len(Plan[c])
                         /\ memoryOn => \A n \in 0..LastPart(c) : Places(c, n) # {}
  BY DEF TranscriptInOrder
<1>1. ASSUME NEW n \in 0..LastPart(c), NEW p \in Places(c, n)
      PROVE  /\ Places(c, n) = {p}
             /\ n > 0 => \E q \in Places(c, n - 1) : q[1] < p[1]
  <2> DEFINE r == RecordOf(c, n)
  <2>1. r \in Records /\ n \in Nat
    BY PlanTyped
  <2>2. PICK i \in Nat, k \in Nat : p = <<i, k>> /\ Bus!Mentions(r, i, k)
    BY PlaceIs
  <2>3. ASSUME NEW q \in Places(c, n) PROVE q = p
    <3>1. PICK j \in Nat, l \in Nat : q = <<j, l>> /\ Bus!Mentions(r, j, l)
      BY PlaceIs
    <3> HIDE DEF r
    <3>2. i = j /\ k = l
      BY <2>1, <2>2, <3>1 DEF Base, Bus!FileInv
    <3>3. QED
      BY <2>2, <3>1, <3>2
  <2>4. ASSUME n > 0 PROVE \E q \in Places(c, n - 1) : q[1] < p[1]
    <3>1. PICK j \in Nat : j < i /\ Bus!EndsWith(RecordOf(c, n - 1), j)
      BY <2>2, <2>4 DEF Base, FileOfCalls
    <3>2. n - 1 \in 0..LastPart(c)
      BY <2>1, <2>4, PlanTyped
    <3>3. PICK k2 \in Nat : <<j, k2>> \in Places(c, n - 1)
      BY <3>1, <3>2, PlaceIs
    <3>4. <<j, k2>>[1] = j /\ p[1] = i
      BY <2>2
    <3>5. QED
      BY <3>1, <3>3, <3>4
  <2>5. QED
    BY <2>3, <2>4
<1>2. Stage(c)
  BY DEF Base
<1>3. ASSUME c \in delivered, memoryOn, NEW n \in 0..LastPart(c) PROVE Places(c, n) # {}
  <2>1. pc[c] = "done" /\ part[c] = LastPart(c)
    BY <1>2, <1>3 DEF Stage, Delivering
  <2>2. Finished(c, n)
    BY <1>3, <2>1, PlanTyped DEF Finished, Delivering
  <2>3. PICK j \in Nat : Bus!EndsWith(RecordOf(c, n), j)
    BY <2>2 DEF Base, FileOfCalls, OnLine
  <2>4. QED
    BY <2>3, PlaceIs
<1>4. c \in delivered => Len(ran[c]) = Len(Plan[c])
  BY <1>2 DEF Stage, Delivering
<1>5. QED
  BY <1>1, <1>2, <1>3, <1>4 DEF Stage

\* However calls interleave, whatever appends are torn and whoever is dropped,
\* every part of a transcript is on the journal at most once and after the part
\* before it, the bodies that ran are those asked for, and the transcript is
\* whole when the sink has the outcome.
THEOREM TranscriptKept == Spec => []TranscriptInOrder
<1>1. Init => Base
  BY BaseStart
<1>2. Base /\ [Next]_vars => Base'
  BY BaseStep
<1>3. QED
  BY <1>1, <1>2, InOrder, PTL DEF Spec

\* With a memory bus, no tool runs and no model is asked before the message that
\* wants it is on a finished line of the journal.
THEOREM MessageFirst == Spec => []InboundFirst
<1>1. Init => Base
  BY BaseStart
<1>2. Base /\ [Next]_vars => Base'
  BY BaseStep
<1>3. Base => InboundFirst
  <2> SUFFICES ASSUME Base, NEW c \in Calls, memoryOn, ran[c] # <<>> \/ c \in inferred
               PROVE  Places(c, 0) # {}
    BY DEF InboundFirst
  <2>1. PICK j \in Nat : Bus!EndsWith(RecordOf(c, 0), j)
    BY DEF Base, FirstOnLine, OnLine
  <2>2. 0 \in 0..LastPart(c)
    BY PlanTyped
  <2>3. QED
    BY <2>1, <2>2, PlaceIs
<1>4. QED
  BY <1>1, <1>2, <1>3, PTL DEF Spec

-----------------------------------------------------------------------------
(* What the policy allowed                                                  *)

RulesGrow == rules' = rules \/ \E rule \in Rules : rules' = Append(rules, rule)

\* What was allowed stays allowed: rules are only added.
LEMMA AllowedStays ==
  ASSUME rules \in Seq(Rules), RulesGrow, NEW c \in Calls, since[c].rules \in Nat,
         since'[c] = since[c], NEW request, AllowedSince(c, request)
  PROVE  AllowedSince(c, request)'
<1>1. CASE rules' = rules
  BY <1>1 DEF AllowedSince
<1>2. CASE \E rule \in Rules : rules' = Append(rules, rule)
  <2>1. PICK rule \in Rules : rules' = Append(rules, rule)
    BY <1>2
  <2>2. PICK n \in since[c].rules..Len(rules) :
          Policy!Permits(Policy!Evaluate(SubSeq(rules, 1, n), request))
    BY DEF AllowedSince
  <2>3. n \in Nat /\ n <= Len(rules) /\ Len(rules') = Len(rules) + 1 /\ Len(rules) \in Nat
        /\ rules' \in Seq(Rules)
    BY <2>1, <2>2
  <2>4. SubSeq(rules', 1, n) = SubSeq(rules, 1, n)
    <3>1. \A i \in 1..n : rules'[i] = rules[i]
      BY <2>1, <2>3
    <3>2. /\ SubSeq(rules', 1, n) = [i \in 1..n |-> rules'[i]]
          /\ SubSeq(rules, 1, n) = [i \in 1..n |-> rules[i]]
      BY <2>3
    <3>3. QED
      BY <3>1, <3>2
  <2>5. n \in since'[c].rules..Len(rules')
    BY <2>2, <2>3
  <2>6. QED
    BY <2>2, <2>4, <2>5 DEF AllowedSince
<1>3. QED
  BY <1>1, <1>2 DEF RulesGrow

\* What the rules of the moment permit is allowed.
LEMMA AllowedNow ==
  ASSUME rules \in Seq(Rules), NEW c \in Calls, since[c].rules \in Nat,
         since[c].rules <= Len(rules), NEW request,
         Policy!Permits(Policy!Evaluate(rules, request))
  PROVE  AllowedSince(c, request)
<1>1. SubSeq(rules, 1, Len(rules)) = rules /\ Len(rules) \in since[c].rules..Len(rules)
  OBVIOUS
<1>2. QED
  BY <1>1 DEF AllowedSince

\* The tags a tool can have been judged by that is about to be looked up again.
Judged(c, name) ==
  (IF name \in DOMAIN since[c].tools THEN {} ELSE {{}})
    \cup (IF name \in DOMAIN registered THEN {registered[name].caps} ELSE {})

ToolJudged(c, name) ==
  \E tags \in Judged(c, name) : AllowedSince(c, Policy!Request("tool", name, tags))

RanAllowed(c) ==
  \A i \in 1..Len(ran[c]) :
    \E tags \in ToolTags(c, ran[c][i]) :
      AllowedSince(c, Policy!Request("tool", ran[c][i].name, tags))

InEntries(r) == \E k \in 1..Len(entries) : entries[k] = r

Refused(c) ==
  \A e \in emitted :
    e.call = c => /\ pc[c] = "refused"
                  /\ e.kind = "tool" => Invocation(c).name = e.name
                  /\ e.kind = "model" => c \notin inferred

\* What was allowed when a decision is behind a call, and what it was about.
Allowed(c) ==
  /\ pc[c] = "record" => AllowedSince(c, RecordRequest(c, part[c]))
  /\ pc[c] = "tool" => ToolJudged(c, Invocation(c).name)
  /\ pc[c] = "infer" \/ c \in inferred => AllowedSince(c, ModelRequest(c))
  /\ RanAllowed(c)
  /\ \A i \in 0..LastPart(c) : InEntries(RecordOf(c, i)) => AllowedSince(c, RecordRequest(c, i))

Since(c) ==
  /\ since[c].rules <= Len(rules)
  /\ DOMAIN since[c].tools \subseteq DOMAIN registered
  /\ pc[c] = "idle" => \A i \in 0..LastPart(c) : ~InEntries(RecordOf(c, i))
  /\ Refused(c)

PolicyInv == \A c \in Calls : Since(c) /\ (policyOn => Allowed(c))

LEMMA AllowedKept ==
  ASSUME rules \in Seq(Rules), RulesGrow, NEW c \in Calls, since[c].rules \in Nat,
         since'[c] = since[c], ran'[c] = ran[c],
         DOMAIN registered \subseteq DOMAIN registered',
         \A n \in DOMAIN registered : registered'[n] = registered[n]
  PROVE  /\ Invocation(c)' = Invocation(c)
         /\ ToolJudged(c, Invocation(c).name) => ToolJudged(c, Invocation(c).name)'
         /\ AllowedSince(c, ModelRequest(c)) => AllowedSince(c, ModelRequest(c))'
         /\ RanAllowed(c) => RanAllowed(c)'
         /\ \A i : AllowedSince(c, RecordRequest(c, i)) => AllowedSince(c, RecordRequest(c, i))'
<1>1. Invocation(c)' = Invocation(c) /\ ModelRequest(c)' = ModelRequest(c)
  BY DEF Invocation, ModelRequest
<1>2. \A request : AllowedSince(c, request) => AllowedSince(c, request)'
  BY AllowedStays
<1>3. ASSUME NEW name, ToolJudged(c, name) PROVE ToolJudged(c, name)'
  <2>1. PICK tags \in Judged(c, name) : AllowedSince(c, Policy!Request("tool", name, tags))
    BY <1>3 DEF ToolJudged
  <2>2. tags \in Judged(c, name)'
    BY <2>1 DEF Judged
  <2> DEFINE q == Policy!Request("tool", name, tags)
  <2>3. AllowedSince(c, q)'
    <3> HIDE DEF q
    <3>1. AllowedSince(c, q)
      BY <2>1 DEF q
    <3>2. QED
      BY <1>2, <3>1
  <2>4. QED
    BY <2>2, <2>3 DEF ToolJudged
<1>4. ToolJudged(c, Invocation(c).name) => ToolJudged(c, Invocation(c).name)'
  <2> SUFFICES ASSUME NEW name, name = Invocation(c).name, ToolJudged(c, name)
               PROVE  ToolJudged(c, Invocation(c).name)'
    OBVIOUS
  <2>1. ToolJudged(c, name)' /\ Invocation(c)'.name = name
    BY <1>1, <1>3
  <2>2. QED
    BY <2>1
<1>5. AllowedSince(c, ModelRequest(c)) => AllowedSince(c, ModelRequest(c))'
  <2> SUFFICES ASSUME NEW q, q = ModelRequest(c), AllowedSince(c, q)
               PROVE  AllowedSince(c, ModelRequest(c))'
    OBVIOUS
  <2>1. AllowedSince(c, q)' /\ ModelRequest(c)' = q
    BY <1>1, <1>2
  <2>2. QED
    BY <2>1
<1>6. RanAllowed(c) => RanAllowed(c)'
  <2> SUFFICES ASSUME RanAllowed(c), NEW i \in 1..Len(ran[c])
               PROVE  \E tags \in ToolTags(c, ran[c][i])' :
                        AllowedSince(c, Policy!Request("tool", ran[c][i].name, tags))'
    BY DEF RanAllowed
  <2>1. PICK f : f = ran[c][i]
    OBVIOUS
  <2>2. PICK tags \in ToolTags(c, f) : AllowedSince(c, Policy!Request("tool", f.name, tags))
    BY <2>1 DEF RanAllowed
  <2>3. ToolTags(c, f)' = ToolTags(c, f) /\ ran'[c][i] = f
    BY <2>1 DEF ToolTags
  <2> DEFINE q == Policy!Request("tool", f.name, tags)
  <2>4. AllowedSince(c, q)'
    <3> HIDE DEF q
    <3>1. AllowedSince(c, q)
      BY <2>2 DEF q
    <3>2. QED
      BY <1>2, <3>1
  <2>5. QED
    BY <2>1, <2>2, <2>3, <2>4
<1>7. \A i : AllowedSince(c, RecordRequest(c, i)) => AllowedSince(c, RecordRequest(c, i))'
  <2> SUFFICES ASSUME NEW i, AllowedSince(c, RecordRequest(c, i))
               PROVE  AllowedSince(c, RecordRequest(c, i))'
    OBVIOUS
  <2> DEFINE q == RecordRequest(c, i)
  <2> HIDE DEF q
  <2>1. AllowedSince(c, q)
    BY DEF q
  <2>2. AllowedSince(c, q)'
    BY <1>2, <2>1
  <2>3. QED
    BY <2>2 DEF q, RecordRequest, Policy!Request
<1>8. QED
  BY <1>1, <1>4, <1>5, <1>6, <1>7

\* A step adds at most the record it is to push to what the ring holds.
LEMMA EntriesMove ==
  ASSUME Base, NEW c \in Calls, StepOf(c), NEW r, InEntries(r)'
  PROVE  InEntries(r) \/ (r = RecordOf(c, part[c]) /\ pc[c] = "record")
<1>0. Stage(c) /\ Bus!BusInv
  BY DEF Base
<1>1. CASE entries' = entries
  BY <1>1 DEF InEntries
<1>2. CASE pc[c] = "record" /\ PushVolatile(c, RecordOf(c, part[c]))
  <2> DEFINE q == RecordOf(c, part[c])
  <2>1. q \in Records
    BY PlanTyped DEF Base, Shape
  <2>2. Bus!PushVolatile(c, q)
    BY <1>2, <2>1, SamePush DEF Calls
  <2>3. /\ Bus!Volatile!Push(q) /\ entries \in Seq(Records)
        /\ bytes = Bus!Volatile!BytesOf(entries) /\ Len(entries) <= Capacity
    BY <1>0, <2>2
       DEF Bus!PushVolatile, Bus!BusInv, Bus!BusTypeOK, Bus!Volatile!VolatileTypeOK
  <2> DEFINE longer == Append(entries, q)
  <2>4. longer \in Seq(Records) /\ Len(longer) = Len(entries) + 1 /\ Len(entries) \in Nat
        /\ longer[Len(entries) + 1] = q
        /\ \A k \in 1..Len(entries) : longer[k] = entries[k]
    BY <2>1, <2>3
  <2> HIDE DEF q
  <2>5. PICK n \in 0..Len(entries) : entries' = Bus!Rest(longer, n)
    BY <2>1, <2>3, Instance, Bus!PushLeaves
  <2> HIDE DEF longer
  <2>6. PICK k \in 1..Len(entries') : entries'[k] = r
    BY DEF InEntries
  <2>7. n + k \in 1..Len(longer) /\ entries'[k] = longer[n + k]
    BY <2>4, <2>5, <2>6 DEF Bus!Rest
  <2>8. CASE n + k <= Len(entries)
    BY <2>4, <2>6, <2>7, <2>8 DEF InEntries
  <2>9. CASE n + k = Len(entries) + 1
    BY <1>2, <2>4, <2>6, <2>7, <2>9 DEF q
  <2>10. QED
    BY <2>4, <2>7, <2>8, <2>9
<1>3. CASE RecordStep(c) \/ RecordFails(c) \/ RecordDropped(c)
  <2>1. entries' = entries
    BY <1>3 DEF RecordStep, LockJournal, WriteLine, WriteNewline, Upsert, RecordFails,
                RecordDropped, volatileVars
  <2>2. QED
    BY <2>1 DEF InEntries
<1>4. QED
  BY <1>0, <1>1, <1>2, <1>3, BusEffect DEF busVars

\* The decisions a call has behind it where it is.
LEMMA Decisions ==
  ASSUME NEW c \in Calls, StepOf(c), Shape
  PROVE  /\ pc[c] \notin Ended
         /\ pc'[c] = "record" => /\ part'[c] = part[c]
                                 /\ \/ pc[c] = "record"
                                    \/ policyOn => Policy!Permits(Policy!Evaluate(rules, RecordRequest(c, part[c])))
         /\ pc'[c] = "tool" => /\ ran'[c] = ran[c]
                               /\ policyOn => Policy!Permits(Policy!Evaluate(rules, ToolRequest(Invocation(c).name)))
         /\ pc'[c] = "infer" => /\ ran'[c] = ran[c]
                                /\ policyOn => Policy!Permits(Policy!Evaluate(rules, ModelRequest(c)))
         /\ pc'[c] # "idle"
         /\ c \in inferred' => c \in inferred \/ pc[c] = "infer"
         /\ \/ ran'[c] = ran[c]
            \/ /\ InvokeTool(c) /\ pc[c] = "tool" /\ pc'[c] = "running"
               /\ UNCHANGED <<inferred, entries, emitted>>
         /\ \/ since'[c] = since[c]
            \/ /\ pc[c] = "idle" /\ since'[c] = [rules |-> Len(rules), tools |-> registered]
               /\ UNCHANGED <<ran, inferred, entries, emitted>>
               /\ pc'[c] = "policy" \/ pc'[c] = "parse"
<1> DEFINE Nothing == UNCHANGED <<ran, inferred, since>>
<1> USE DEF Shape, Enter, callVars, At, Stages, Ended
<1>1. CASE \E type \in Types : Arrive(c, type)
  BY <1>1 DEF Arrive, busVars
<1>2. CASE EnforceMemoryPolicy(c)
  BY <1>2 DEF EnforceMemoryPolicy, Enforce
<1>3. CASE EnforceToolPolicy(c)
  BY <1>3 DEF EnforceToolPolicy, Enforce
<1>4. CASE EnforceModelPolicy(c)
  BY <1>4 DEF EnforceModelPolicy, Enforce
<1>5. CASE BeginRecord(c)
  BY <1>5 DEF BeginRecord
<1>6. CASE ContinueRecord(c)
  BY <1>6 DEF ContinueRecord, NextPart
<1>7. CASE RecordError(c)
  BY <1>7 DEF RecordError
<1>8. CASE Parse(c) \/ ToolReturns(c) \/ Fail(c)
  BY <1>8 DEF Parse, ToolReturns, Fail, NextStage
<1>9. CASE InvokeTool(c)
  BY <1>9 DEF InvokeTool, busVars
<1>10. CASE Infer(c) \/ StreamEnds(c) \/ Deliver(c)
  BY <1>10 DEF Infer, StreamEnds, Deliver
<1>11. CASE Drop(c)
  BY <1>11 DEF Drop
<1>12. QED
  BY <1>1, <1>2, <1>3, <1>4, <1>5, <1>6, <1>7, <1>8, <1>9, <1>10, <1>11 DEF StepOf, CallStep

LEMMA PolicyOther ==
  ASSUME Base, OtherTypes, NEW c \in Calls, StepOf(c), NEW d \in Calls, d # c,
         Since(d), policyOn => Allowed(d)
  PROVE  Since(d)' /\ (policyOn => Allowed(d))'
<1>0. /\ Shape /\ rules \in Seq(Rules) /\ since[d].rules \in Nat
  BY DEF Base, OtherTypes
<1>1. /\ pc'[d] = pc[d] /\ part'[d] = part[d] /\ ran'[d] = ran[d] /\ since'[d] = since[d]
      /\ d \in inferred' <=> d \in inferred
  BY <1>0, Others
<1>2. /\ rules' = rules /\ registered' = registered /\ policyOn' = policyOn /\ RulesGrow
  BY SwitchesKept DEF RulesGrow
<1>3. /\ Invocation(d)' = Invocation(d)
      /\ ToolJudged(d, Invocation(d).name) => ToolJudged(d, Invocation(d).name)'
      /\ AllowedSince(d, ModelRequest(d)) => AllowedSince(d, ModelRequest(d))'
      /\ RanAllowed(d) => RanAllowed(d)'
      /\ \A i : AllowedSince(d, RecordRequest(d, i)) => AllowedSince(d, RecordRequest(d, i))'
  BY <1>0, <1>1, <1>2, AllowedKept
<1>4. ASSUME NEW i, InEntries(RecordOf(d, i))' PROVE InEntries(RecordOf(d, i))
  <2> DEFINE r == RecordOf(d, i)
  <2>1. InEntries(r)'
    BY <1>4 DEF InEntries, RecordOf
  <2> HIDE DEF r
  <2>2. InEntries(r) \/ r = RecordOf(c, part[c])
    BY <2>1, EntriesMove
  <2>3. r # RecordOf(c, part[c])
    <3> SUFFICES ASSUME RecordOf(d, i) = RecordOf(c, part[c]) PROVE FALSE
      BY DEF r
    <3>1. QED
      BY Distinct
  <2>4. QED
    BY <2>2, <2>3 DEF r
<1>5. Refused(d)'
  <2>1. ASSUME NEW e \in emitted', e.call = d PROVE e \in emitted
    <3>1. CASE emitted' = emitted
      BY <2>1, <3>1
    <3>2. CASE emitted' # emitted
      <4>1. PICK request, decision : emitted' = emitted \cup {AuditEvent(c, request, decision)}
        BY <3>2, Told
      <4>2. AuditEvent(c, request, decision).call = c
        BY DEF AuditEvent
      <4>3. QED
        BY <2>1, <4>1, <4>2
    <3>3. QED
      BY <3>1, <3>2
  <2>2. QED
    BY <1>1, <1>3, <2>1 DEF Since, Refused
<1>6. RecordRequest(d, part[d])' = RecordRequest(d, part[d])
  BY <1>1 DEF RecordRequest, Policy!Request
<1>7. pc[d] = "record" /\ policyOn => AllowedSince(d, RecordRequest(d, part[d]))'
  <2> SUFFICES ASSUME pc[d] = "record", policyOn, NEW i, i = part[d]
               PROVE  AllowedSince(d, RecordRequest(d, part[d]))'
    OBVIOUS
  <2>1. AllowedSince(d, RecordRequest(d, i))
    BY DEF Allowed
  <2>2. AllowedSince(d, RecordRequest(d, i))'
    BY <1>3, <2>1
  <2>3. part'[d] = i
    BY <1>1
  <2>4. QED
    BY <2>2, <2>3
<1>8. Since(d)'
  BY <1>1, <1>2, <1>4, <1>5 DEF Since
<1>9. policyOn' => Allowed(d)'
  BY <1>1, <1>2, <1>3, <1>4, <1>7 DEF Allowed
<1>10. QED
  BY <1>8, <1>9

LEMMA PolicyOwn ==
  ASSUME Base, OtherTypes, NEW c \in Calls, StepOf(c), Since(c), policyOn => Allowed(c)
  PROVE  Since(c)' /\ (policyOn => Allowed(c))'
<1>0. /\ Shape /\ Stage(c) /\ rules \in Seq(Rules) /\ since[c].rules \in Nat
      /\ Len(rules) \in Nat /\ since[c].rules <= Len(rules)
  BY DEF Base, OtherTypes, Since
<1>1. /\ rules' = rules /\ registered' = registered /\ policyOn' = policyOn /\ RulesGrow
  BY SwitchesKept DEF RulesGrow
<1>2. Refused(c)'
  <2>1. \A e \in emitted : e.call # c
    BY <1>0, Decisions DEF Since, Refused, Ended
  <2>2. CASE emitted' = emitted
    BY <2>1, <2>2 DEF Refused
  <2>3. CASE emitted' # emitted
    <3>1. PICK request :
            /\ emitted' = emitted \cup {AuditEvent(c, request, Policy!Evaluate(rules, request))}
            /\ pc' = [pc EXCEPT ![c] = "refused"] /\ UNCHANGED <<ran, inferred>>
            /\ \/ pc[c] = "policy" /\ request.kind = "event"
               \/ /\ pc[c] = "tool_policy" /\ request.kind = "tool"
                  /\ request.name = Invocation(c).name
               \/ pc[c] = "model_policy" /\ request.kind = "model"
      BY <2>3, Told
    <3> DEFINE e == AuditEvent(c, request, Policy!Evaluate(rules, request))
    <3>2. e.call = c /\ e.kind = request.kind /\ e.name = request.name
      BY DEF AuditEvent
    <3>3. pc'[c] = "refused"
      BY <1>0, <3>1 DEF Shape
    <3>4. e.kind = "tool" => Invocation(c)'.name = e.name
      BY <3>1, <3>2 DEF Invocation
    <3>5. e.kind = "model" => c \notin inferred'
      BY <1>0, <3>1, <3>2 DEF Stage, Modelling
    <3> HIDE DEF e
    <3>6. emitted' = emitted \cup {e}
      BY <3>1 DEF e
    <3>7. QED
      BY <2>1, <3>2, <3>3, <3>4, <3>5, <3>6 DEF Refused
  <2>4. QED
    BY <2>2, <2>3
<1>3. CASE since'[c] # since[c]
  <2>1. /\ pc[c] = "idle" /\ since'[c] = [rules |-> Len(rules), tools |-> registered]
        /\ UNCHANGED <<ran, inferred, entries, emitted>>
        /\ pc'[c] = "policy" \/ pc'[c] = "parse"
    BY <1>0, <1>3, Decisions
  <2>2. /\ ran[c] = <<>> /\ Len(ran[c]) = 0 /\ c \notin inferred
        /\ \A i \in 0..LastPart(c) : ~InEntries(RecordOf(c, i))
    BY <1>0, <2>1 DEF Stage, Since
  <2>3. \A i \in 0..LastPart(c) : ~InEntries(RecordOf(c, i))'
    BY <2>1, <2>2 DEF InEntries, RecordOf
  <2>4. RanAllowed(c)'
    BY <2>1, <2>2 DEF RanAllowed
  <2>5. since'[c].rules = Len(rules) /\ DOMAIN since'[c].tools = DOMAIN registered
    BY <2>1
  <2>6. Since(c)'
    BY <1>0, <1>1, <1>2, <2>1, <2>3, <2>5 DEF Since
  <2>7. Allowed(c)'
    BY <2>1, <2>2, <2>3, <2>4 DEF Allowed
  <2>8. QED
    BY <2>6, <2>7
<1>4. CASE since'[c] = since[c]
  <2>1. Since(c)'
    BY <1>0, <1>1, <1>2, <1>4, Decisions DEF Since
  <2> SUFFICES ASSUME policyOn, Allowed(c) PROVE Allowed(c)'
    BY <1>1, <2>1
  <2>2. ASSUME NEW request, Policy!Permits(Policy!Evaluate(rules, request))
        PROVE  AllowedSince(c, request)'
    <3>1. AllowedSince(c, request)
      BY <1>0, <2>2, AllowedNow
    <3>2. QED
      BY <1>0, <1>1, <1>4, <3>1, AllowedStays
  <2>3. \A request : AllowedSince(c, request) => AllowedSince(c, request)'
    BY <1>0, <1>1, <1>4, AllowedStays
  <2>4. pc'[c] = "record" => AllowedSince(c, RecordRequest(c, part[c]))'
    <3> SUFFICES ASSUME pc'[c] = "record", NEW i, i = part[c], NEW q, q = RecordRequest(c, i)
                 PROVE  AllowedSince(c, RecordRequest(c, part[c]))'
      OBVIOUS
    <3>1. part'[c] = i
      BY <1>0, Decisions
    <3>2. pc[c] = "record" \/ Policy!Permits(Policy!Evaluate(rules, q))
      BY <1>0, Decisions
    <3>3. AllowedSince(c, q)'
      BY <2>2, <2>3, <3>2 DEF Allowed
    <3>4. RecordRequest(c, part[c])' = q
      BY <3>1 DEF RecordRequest, Policy!Request
    <3>5. QED
      BY <3>3, <3>4
  <2>5. \A i \in 0..LastPart(c) :
          InEntries(RecordOf(c, i))' => AllowedSince(c, RecordRequest(c, i))'
    <3> SUFFICES ASSUME NEW i \in 0..LastPart(c), InEntries(RecordOf(c, i))',
                        NEW q, q = RecordRequest(c, i)
                 PROVE  AllowedSince(c, RecordRequest(c, i))'
      OBVIOUS
    <3> DEFINE r == RecordOf(c, i)
    <3>1. InEntries(r)'
      BY DEF InEntries, RecordOf
    <3> HIDE DEF r
    <3>2. InEntries(r) \/ (r = RecordOf(c, part[c]) /\ pc[c] = "record")
      BY <3>1, EntriesMove
    <3>3. CASE InEntries(r)
      BY <2>3, <3>3 DEF Allowed, r, RecordRequest, Policy!Request
    <3>4. CASE r = RecordOf(c, part[c]) /\ pc[c] = "record"
      <4>1. i = part[c]
        <5>1. RecordOf(c, i) = RecordOf(c, part[c])
          BY <3>4 DEF r
        <5>2. QED
          BY <5>1, Distinct
      <4>2. AllowedSince(c, q)
        BY <3>4, <4>1 DEF Allowed
      <4>3. AllowedSince(c, q)'
        BY <2>3, <4>2
      <4>4. RecordRequest(c, i)' = q
        BY DEF RecordRequest, Policy!Request
      <4>5. QED
        BY <4>3, <4>4
    <3>5. QED
      BY <3>2, <3>3, <3>4
  <2>6. CASE ran'[c] = ran[c]
    <3>1. /\ Invocation(c)' = Invocation(c)
          /\ AllowedSince(c, ModelRequest(c)) => AllowedSince(c, ModelRequest(c))'
          /\ RanAllowed(c) => RanAllowed(c)'
      BY <1>0, <1>1, <1>4, <2>6, AllowedKept
    <3>2. pc'[c] = "tool" => ToolJudged(c, Invocation(c).name)'
      <4> SUFFICES ASSUME pc'[c] = "tool", NEW name, name = Invocation(c).name
                   PROVE  ToolJudged(c, Invocation(c).name)'
        OBVIOUS
      <4> DEFINE tags == IF name \in DOMAIN registered THEN registered[name].caps ELSE {}
      <4>1. ToolRequest(name) = Policy!Request("tool", name, tags)
        BY DEF ToolRequest, Registry!Bound
      <4>2. Policy!Permits(Policy!Evaluate(rules, ToolRequest(name)))
        BY <1>0, Decisions
      <4>3. PICK t : t = tags
        OBVIOUS
      <4>4. t \in Judged(c, name)
        BY <4>3 DEF Judged, Since
      <4>5. t \in Judged(c, name)'
        BY <1>1, <1>4, <4>4 DEF Judged
      <4> DEFINE q == Policy!Request("tool", name, t)
      <4> HIDE DEF tags
      <4>6. Policy!Permits(Policy!Evaluate(rules, q))
        BY <4>1, <4>2, <4>3
      <4>7. AllowedSince(c, q)'
        <5> HIDE DEF q
        <5>1. QED
          BY <2>2, <4>6
      <4>8. ToolJudged(c, name)'
        BY <4>5, <4>7 DEF ToolJudged
      <4>9. Invocation(c)'.name = name
        BY <3>1
      <4>10. QED
        BY <4>8, <4>9
    <3>3. pc'[c] = "infer" \/ c \in inferred' => AllowedSince(c, ModelRequest(c))'
      <4>1. CASE pc'[c] = "infer"
        <5>1. PICK q : q = ModelRequest(c)
          OBVIOUS
        <5>2. Policy!Permits(Policy!Evaluate(rules, q))
          BY <1>0, <4>1, <5>1, Decisions
        <5>3. AllowedSince(c, q)
          BY <1>0, <5>2, AllowedNow
        <5>4. QED
          BY <3>1, <5>1, <5>3
      <4>2. CASE c \in inferred'
        <5>1. AllowedSince(c, ModelRequest(c))
          BY <1>0, <4>2, Decisions DEF Allowed
        <5>2. QED
          BY <3>1, <5>1
      <4>3. QED
        BY <4>1, <4>2
    <3>4. RanAllowed(c)'
      BY <3>1 DEF Allowed
    <3>5. QED
      BY <2>4, <2>5, <3>2, <3>3, <3>4 DEF Allowed
  <2>7. CASE ran'[c] # ran[c]
    <3>1. /\ InvokeTool(c) /\ pc[c] = "tool" /\ pc'[c] = "running"
          /\ UNCHANGED <<inferred, entries, emitted>>
      BY <1>0, <2>7, Decisions
    <3>2. c \notin inferred
      BY <1>0, <3>1 DEF Stage, Tooling
    <3>3. PICK name, f : name = Invocation(c).name /\ f = registered[name]
      OBVIOUS
    <3>4. name \in DOMAIN registered /\ f \in ToolFns /\ f.name = name
      BY <1>0, <3>1, <3>3 DEF InvokeTool, Invocable, Registry!Bound, Shape
    <3>5. ran'[c] = Append(ran[c], f) /\ ran[c] \in Seq(ToolFns)
      BY <1>0, <3>1, <3>3 DEF InvokeTool, Shape
    <3>6. PICK tags \in Judged(c, name) : AllowedSince(c, Policy!Request("tool", name, tags))
      BY <3>1, <3>3 DEF Allowed, ToolJudged
    <3>7. tags \in ToolTags(c, f)'
      BY <1>4, <3>3, <3>4, <3>6 DEF Judged, ToolTags
    <3> DEFINE q == Policy!Request("tool", name, tags)
    <3>8. AllowedSince(c, q)'
      <4> HIDE DEF q
      <4>1. AllowedSince(c, q)
        BY <3>6 DEF q
      <4>2. QED
        BY <2>3, <4>1
    <3>9. ASSUME NEW i \in 1..Len(ran'[c])
          PROVE  \E t \in ToolTags(c, ran[c][i])' :
                   AllowedSince(c, Policy!Request("tool", ran[c][i].name, t))'
      <4>1. Len(ran[c]) \in Nat /\ Len(ran'[c]) = Len(ran[c]) + 1
        BY <3>4, <3>5
      <4>2. CASE i = Len(ran[c]) + 1
        <5>1. ran'[c][i] = f
          BY <3>4, <3>5, <4>2
        <5>2. QED
          BY <3>4, <3>7, <3>8, <5>1
      <4>3. CASE i # Len(ran[c]) + 1
        <5>1. i \in 1..Len(ran[c]) /\ ran'[c][i] = ran[c][i]
          BY <3>4, <3>5, <4>1, <4>3
        <5>2. PICK g : g = ran[c][i]
          OBVIOUS
        <5>3. PICK t \in ToolTags(c, g) : AllowedSince(c, Policy!Request("tool", g.name, t))
          BY <5>1, <5>2 DEF Allowed, RanAllowed
        <5>4. t \in ToolTags(c, g)'
          BY <1>4, <5>3 DEF ToolTags
        <5> DEFINE z == Policy!Request("tool", g.name, t)
        <5>5. AllowedSince(c, z)'
          <6> HIDE DEF z
          <6>1. AllowedSince(c, z)
            BY <5>3 DEF z
          <6>2. QED
            BY <2>3, <6>1
        <5>6. QED
          BY <5>1, <5>2, <5>4, <5>5
      <4>4. QED
        BY <4>2, <4>3
    <3>10. RanAllowed(c)'
      BY <3>9 DEF RanAllowed
    <3>11. QED
      BY <2>5, <3>1, <3>2, <3>10 DEF Allowed
  <2>8. QED
    BY <2>6, <2>7
<1>5. QED
  BY <1>3, <1>4

LEMMA PolicyStart == Init => PolicyInv
<1> SUFFICES ASSUME Init, NEW c \in Calls PROVE Since(c) /\ (policyOn => Allowed(c))
  BY DEF PolicyInv
<1>1. /\ pc[c] = "idle" /\ ran[c] = <<>> /\ inferred = {} /\ emitted = {} /\ rules = <<>>
      /\ since[c] = [rules |-> 0, tools |-> <<>>] /\ entries = <<>>
  BY DEF Init, BusInit, Volatile!VolatileInit
<1>2. /\ Len(ran[c]) = 0 /\ since[c].rules = 0 /\ DOMAIN since[c].tools = {}
      /\ Len(rules) = 0 /\ Len(entries) = 0
  BY <1>1
<1>3. \A r : ~InEntries(r)
  BY <1>2 DEF InEntries
<1>4. QED
  BY <1>1, <1>2, <1>3 DEF Since, Allowed, RanAllowed, Refused

\* Rules and tools that are added take nothing back.
LEMMA PolicyGrows ==
  ASSUME Base, OtherTypes, PolicyInv, RulesGrow, UNCHANGED <<busVars, policyOn, pc, callVars, emitted>>,
         DOMAIN registered \subseteq DOMAIN registered',
         \A n \in DOMAIN registered : registered'[n] = registered[n]
  PROVE  PolicyInv'
<1> SUFFICES ASSUME NEW c \in Calls PROVE Since(c)' /\ (policyOn' => Allowed(c)')
  BY DEF PolicyInv
<1> USE DEF busVars, callVars
<1>0. /\ rules \in Seq(Rules) /\ since[c].rules \in Nat /\ Len(rules) \in Nat
      /\ since' = since /\ ran' = ran
  BY DEF OtherTypes
<1>1. Len(rules') \in Nat /\ Len(rules) <= Len(rules')
  BY <1>0 DEF RulesGrow
<1>2. /\ Invocation(c)' = Invocation(c)
      /\ ToolJudged(c, Invocation(c).name) => ToolJudged(c, Invocation(c).name)'
      /\ AllowedSince(c, ModelRequest(c)) => AllowedSince(c, ModelRequest(c))'
      /\ RanAllowed(c) => RanAllowed(c)'
      /\ \A i : AllowedSince(c, RecordRequest(c, i)) => AllowedSince(c, RecordRequest(c, i))'
  BY <1>0, AllowedKept
<1>3. \A i : InEntries(RecordOf(c, i))' <=> InEntries(RecordOf(c, i))
  BY DEF InEntries, RecordOf
<1>4. Since(c)'
  <2>1. Refused(c)'
    BY <1>2 DEF PolicyInv, Since, Refused
  <2>2. since'[c].rules <= Len(rules')
    BY <1>0, <1>1 DEF PolicyInv, Since
  <2>3. QED
    BY <1>0, <1>3, <2>1, <2>2 DEF PolicyInv, Since
<1>5. ASSUME policyOn PROVE Allowed(c)'
  <2>1. pc[c] = "record" => AllowedSince(c, RecordRequest(c, part[c]))'
    <3> SUFFICES ASSUME pc[c] = "record", NEW i, i = part[c]
                 PROVE  AllowedSince(c, RecordRequest(c, part[c]))'
      OBVIOUS
    <3>1. AllowedSince(c, RecordRequest(c, i))
      BY <1>5 DEF PolicyInv, Allowed
    <3>2. AllowedSince(c, RecordRequest(c, i))' /\ part' = part
      BY <1>2, <3>1
    <3>3. QED
      BY <3>2
  <2>2. QED
    BY <1>2, <1>3, <1>5, <2>1 DEF PolicyInv, Allowed
<1>6. QED
  BY <1>4, <1>5

LEMMA PolicyStep == Base /\ OtherTypes /\ PolicyInv /\ [Next]_vars => PolicyInv'
<1> SUFFICES ASSUME Base, OtherTypes, PolicyInv, [Next]_vars PROVE PolicyInv'
  OBVIOUS
<1>1. ASSUME NEW c \in Calls, StepOf(c) PROVE PolicyInv'
  <2>1. policyOn' = policyOn
    BY <1>1, SwitchesKept
  <2>2. QED
    BY <1>1, <2>1, PolicyOwn, PolicyOther DEF PolicyInv
<1>2. ASSUME NEW rule \in Rules, AddRule(rule) PROVE PolicyInv'
  BY <1>2, PolicyGrows DEF AddRule, Policy!AddRule, RulesGrow
<1>3. ASSUME NEW f \in ToolFns, RegisterTool(f) PROVE PolicyInv'
  BY <1>3, PolicyGrows
     DEF RegisterTool, Registry!Register, Registry!With, Registry!Bound, RulesGrow
<1>4. CASE UNCHANGED vars
  BY <1>4, PolicyGrows DEF vars, sharedVars, RulesGrow
<1>5. QED
  BY <1>1, <1>2, <1>3, <1>4 DEF Next, StepOf, AllEnded

LEMMA PolicyMeans == PolicyInv => OnlyWhatPolicyAllowed
  BY DEF PolicyInv, Since, Allowed, RanAllowed, Refused, InEntries, OnlyWhatPolicyAllowed

\* Whatever rules are added and tools registered while calls are under way, what
\* a call did was permitted by rules in force since it arrived, and a tool that
\* was known when it arrived was judged with its capabilities; what the
\* governance agent hears was refused never happened.
THEOREM PolicyObeyed == Spec => []OnlyWhatPolicyAllowed
<1> DEFINE Inv == Base /\ OtherTypes /\ PolicyInv
<1>1. Init => Inv
  BY BaseStart, OtherStart, PolicyStart
<1>2. Inv /\ [Next]_vars => Inv'
  BY BaseStep, OtherStep, PolicyStep
<1>3. Inv => OnlyWhatPolicyAllowed
  BY PolicyMeans
<1>4. QED
  BY <1>1, <1>2, <1>3, PTL DEF Spec
=============================================================================
