# Formal verification of the MXP agents runtime

TLA+ models of the runtime's concurrent core, TLC configurations that check them
on small instances, and TLAPS proofs of the properties that matter most. Every
definition is translated from the Rust sources; `PROJECT.json` maps each one to
its lines, lists the runs, the mutants that each checked property must reject,
the hazards of the code and the proved theorems.

```
tlc -workers 2 -config Scheduler.cfg TaskScheduler.tla      # a model-checking run
tlapm TaskScheduler_proofs.tla                              # a proof module
```

## 1. The system

An agent is an `AgentKernel` that owns a lifecycle state machine and a bounded
task scheduler, reports its state to a registry over MXP (UDP), and hands MXP
messages to a handler. The handler of `Call` messages executes tools and one
model inference under a policy engine and writes a transcript to a memory bus.

| Component (crate) | State | Operations | Talks to |
|---|---|---|---|
| Lifecycle (`agent-kernel/lifecycle.rs`) | `AgentState` | `transition(event)` | owned by the kernel |
| Task scheduler (`scheduler.rs`) | `closed` flag, semaphore with its wait queue | `spawn`, `close`, abort of a handle | tokio |
| Kernel (`lib.rs`) | lifecycle, scheduler, registry hook | `set_registry`, `transition`, `schedule_message`, `handle_message` | hook, scheduler, handler |
| Registration controller (`registry.rs`) | `worker: Option`, shutdown flag | `on_state_change`, `ensure_worker`, `spawn_deregister` | scheduler, registry client |
| Registration worker (`registry.rs`) | retry delay, failure count | outer registration loop, inner heartbeat loop | registry client, shutdown flag |
| Registry client (`registry.rs`, `registry_wire.rs`) | one UDP socket, message ids | `register`, `heartbeat`, `deregister` | MXP Nexus registry |
| Call pipeline (`call.rs`) | the progress of each call | `handle_call` | policy, tools, adapter, memory bus, sink |
| Policy engine (`agent-policy`) | list of rules | `add_rule`, `evaluate` | called by the pipeline |
| Tool registry and `#[tool]` macro (`agent-tools`, `agent-tools-macros`) | tools by name; a link-time inventory of descriptors | `register_tool`, `get`, `invoke`; `with_tools` of the handler's builder | called by the pipeline |
| Memory bus (`agent-memory/bus.rs`) | its three stores | `record` | ring, journal, vector store |
| Volatile ring (`volatile.rs`) | entries, running byte count | `push`, `recent`, `stats` | |
| Journal (`journal.rs`) | a file under a mutex | `append`, `tail`, `clear` | file system |
| Vector store (`vector_store_api.rs`) | points by id | `upsert`, `remove`, `query` | |
| Message dispatch (`mxp_handlers.rs`) | none | `dispatch_message` by message type | called by `handle_message` |
| Policy observers and audit (`call.rs`) | none | `on_policy_decision`, `emit`, governance send task | called by the pipeline |
| Context window (`agent-prompts/context.rs`) | messages, last summary, token estimate | `add_message`, `clear` with three compressions | held by an agent program |
| Prompt templates (`agent-prompts/template.rs`) | text, variables, required names | `render`, `render_with` | rendered into the system prompt |
| Adapters (`agent-adapters`) | a configuration | construction, `infer` | HTTP APIs of OpenAI, Anthropic, Gemini, Ollama |
| Example mesh (`examples/`) | coordinator: agents and pending requests; agents and test clients: one loop each | register, route, forward, serve, ask | one another, over MXP (UDP) |

What is hard about it:

- **Concurrency.** Spawned tasks run on other threads while `transition()` is
  still inside the registry hook; `close()` is two statements; everything shares
  one semaphore; tasks are aborted at any await; calls interleave on one journal.
- **Failure.** Blocking requests survive the abort of the task that waits for
  them; datagrams are lost, duplicated and late; the registry refuses and
  forgets; `record()` may stop between any two of its writes; the process dies;
  a provider sends its headers and then nothing; coordinator and agents restart
  with empty tables.
- **Ordering.** Shutdown flag, deregistration and abort follow each other in one
  hook; a transcript must start before anything is executed and be complete
  before the outcome is delivered; policy rules change while calls run; ring,
  journal and vector store of one record are three separate awaits.
- **Estimates.** A context window evicts by a token count that three strategies
  update incrementally; cosine scores in `f32` overflow to values that are no
  numbers and make the sort's comparison no order.

What makes each component correct:

- scheduler: no permit lost or duplicated, nothing starts after `close()`, every
  accepted task ends, waiters are neither lost nor doubled;
- worker: re-registers exactly when the failure budget is spent, recovers once
  the registry is back, stops when told to;
- kernel and controller: one background loop per controller, retirement stops it
  and sends the final heartbeat, a terminated agent does not come back;
- memory: the ring is what its ceilings say, a written record stays readable on
  a line of its own, an interrupted writer damages one line and blocks nobody;
- pipeline: nothing is done that the policy in force did not permit, transcripts
  are ordered, gapless, and complete when the sink has the outcome; the bodies
  that run are those of the functions asked for;
- registry client: a caller gets the answer to its own request or an error;
- vector store: a match is in the journal, and no better one is passed over;
- window and adapters: what is recent or pinned stays, the model is sent what was
  said in the right roles, and every provider's format carries all of it;
- mesh: an answer reaches the client that asked, and a pending entry stands for a
  call under way or lost.

## 2. The modules

| Module | Models | Composition |
|---|---|---|
| `AgentLifecycle` | the arrows of `Lifecycle::transition` | |
| `BoundedPool` | abstract specification: a pool that runs at most `Limit` jobs | |
| `TaskScheduler` | `spawn`, `close`, the spawned future, abort, the fair semaphore | implements `BoundedPool` |
| `RegistryLink` | requests, answers and faults between agent and registry | |
| `RegistrationWorker` | the registration and heartbeat loops, one step per await | instantiates `RegistryLink` |
| `RegistrationService` | a worker on its own with an environment that may calm down | extends `RegistrationWorker` |
| `AgentKernel` | kernel, controller and every task they spawn | instantiates scheduler, worker, link; extends lifecycle |
| `RegistryClient` | `send_request` on blocking threads over one socket | implements the use of `RegistryLink` |
| `VolatileMemory`, `FileJournal`, `VectorStore` | the ring; the journal file, its mutex and its readers; points and similarity queries | |
| `MemoryBus` | `record()`, one step per await, with failure and drop | instantiates ring, journal, vector store |
| `MemoryService` | writers, readers, the owner's `clear()` and `remove()`, crash and restart | extends `MemoryBus` |
| `PolicyEngine` | rules, first match, default | |
| `ToolRegistry` | registration, lookup, decoding, the builder's inventory | |
| `MessageDispatch` | from a message type to the handler's method | |
| `CallPipeline` | `handle_call` for concurrent calls, with the policy observers and their audit events | extends `MemoryBus`, instantiates the three above |
| `ContextWindow`, `PromptTemplate` | window and template as values, their methods as operators | |
| `ModelAdapter`, `OpenAiAdapter`, `AnthropicAdapter`, `GeminiAdapter`, `OllamaAdapter` | configuration, payload and reply of each provider | the four extend the first |
| `Conversation` | a program that keeps a window and asks a model | instantiates window, template, adapters |
| `MeshNetwork`, `Coordinator`, `ExampleAgent`, `TestClient` | datagrams; the three kinds of example programs | the three extend the first |
| `AgentMesh` | the programs together, with restarts and faults | extends the three |
| `MC*` | constants for TLC where a .cfg cannot state them | |
| `*_proofs` | theorems | extend their component |

How state and actions correspond to the code:

- **Tasks.** A future handed to `spawn()` goes `idle`, `checked` (the closed flag
  was read unset), `spawned` (given to tokio), then `waiting` in the semaphore's
  queue or directly `running`, and ends `done`, `cancelled` or `panicked` (the
  `expect` on a closed semaphore). `queue` is tokio's FIFO wait queue; a granted
  permit belongs to its waiter at once. `CloseFlag` and `CloseSemaphore` are the
  two statements of `close()`.
- **Loops.** `pc` is the await point a loop stands at. `UnlessShutdown` is the
  look at the flag between two awaits. Retry delays double up to their maximum;
  time itself is not modelled, a sleep may end at any moment.
- **Link.** A request is a record on `wire` with `awaited`; `Forsake` is a timeout
  or abort, after which the request may still arrive. The registry lists the
  agent or does not (`registered`), and may refuse any request.
- **Client.** A request of `RegistryClient` is a `thread` (the closure given to
  `spawn_blocking`), named by its message id; `asking` is the caller's await, and
  a caller that is dropped leaves its thread behind. Any thread may receive any
  datagram and throws away what is not its own. `own` is a prophecy: when an
  answer arrives it foretells whether the thread with its id will be the one to
  receive it. Without it no refinement mapping could say whether an answer that
  lies in the shared socket is `reply` or already lost; it restricts only who
  receives, and both values are tried.
- **Hook.** `hook` is how far `on_state_change` has got. Between two of its
  statements every task may move. A controller that `set_registry` replaces keeps
  its tasks, its flag is no longer reachable.
- **Memory.** A journal line is a sequence of pieces, each a record or a part of
  one; `open` are the pieces after the last newline. The file object buffers, so
  an append that stops at its newline may have left its record whole, in part or
  not at all. `written`, `pushed` and
  `interrupted` are history variables.
  `Views` are the contents a `tail()` may read meanwhile, for it does not take the
  mutex. `index` holds the points of the vector store, each named by its record;
  embeddings are sequences of integers, cosines are compared by their squares.
  `MaxFloat` stands for `f32::MAX`: a product or a partial sum above it is infinite,
  and `Inf - Inf`, `0 * Inf` and `Inf / Inf` are no numbers, as in the code's sums
  from left to right. Rounding and underflow are left out.
- **Calls.** `pc` and `part` are the position in `handle_call`; part 0 is the
  inbound message, parts 1..n the tool outputs, n+1 the response. A policy
  decision is one step with `enforce_decision`; building the request has no await
  before it. A refusal ends a call as `refused`, which is also when the observers
  emit their audit event; `emitted` are those handed to the governance send task.
  A handler's tools are either the application's registry, which it keeps filling
  (`shared`), or what `with_tools` builds from function pointers by way of the
  inventory, whose order the linker chooses. `since` is a history variable.
- **Conversation.** Text is its length in bytes and a message its number, so that
  `said` (history) can be compared with the window and with what was posted.
  `stage` is the await an exchange stands at: waiting for the headers, under the
  adapter's timeout, or reading the body, under none. A request has all its fields,
  the names of tools too; what a payload is made of is up to each adapter. `summed`
  is the history of the tokens of summaries.
- **Mesh.** `net` is a set of datagrams; `Take` may leave a copy behind. Ids are
  uuids in the code and numbers here: `nextId` counts those drawn, so that they
  never collide, also over a restart of the coordinator. `run` stands for the
  random id an agent draws at every start. `gone` is a history variable.

## 3. The runs

| Run | Question | Result |
|---|---|---|
| `Scheduler` | 4 futures, 2 permits, every interleaving with `close()` and aborts | `PermitsConserved`, `QueueMatchesWaiters`, `ClosedStartsNothing`, `AcceptedTasksEnd`, refinement of `BoundedPool` hold |
| `RegistrationRecovery` | the loops against a faulty registry that may calm down | `FailureBudget`, `RecoversOnceCalm`, `ShutdownStopsWorker` hold |
| `NeedsRegister` | does a `needs_register` answer lead to `register()`? | violated |
| `ReplacedController` | two controllers, one replacing the other, on one permit, all interleavings | `NoSecondWorker`, `RetiredWorkerIsStopping`, `NoResurrection`, `DeregisterIsSent` hold |
| `KernelLiveness` | one permit contended by loop, deregistrations and a message | `ShutdownEndsWorker`, `DeregisterIsSent`, `ScheduledMessageRuns` hold |
| `GhostRegistration` | does an acknowledged final heartbeat remove the agent? | violated |
| `SharedSocket` | is the client, whose threads share a socket, the link the runs above assume? | refinement of `RegistryLink` holds |
| `Memory` | failing and dropped writers, readers, `clear()`, `remove()`, crash and restart | `RingKeepsLatest`, `WrittenOnOwnLine`, `DamageBounded`, `RecallFaithful`, `RecordsEnd` hold |
| `JournalReplay` | can the journal be read after a restart? | violated |
| `CallPipeline` | two calls, changing rules and tools, audit, failures everywhere | `OnlyWhatPolicyAllowed`, `TranscriptInOrder`, `InboundFirst`, `CallsEnd` hold |
| `Conversation` | a conversation in a small window over each provider | `RecentAndPinnedKept`, `BudgetOrProtected`, `TokensAccounted`, `ModelSeesConversation`, `PayloadCarriesRequest` hold |
| `Mesh` | two clients, an agent and the coordinator over a faulty network with restarts | `AnswersReachTheirAsker`, `PendingExplained`, `AnsweredOnceCalm` hold |

Every passing run also checks the module's type invariant, except
`KernelLiveness` (its safety is `ReplacedController`'s) and `SharedSocket`, where the
refinement types what matters.

### Bounds, and why they are enough

- *Scheduler*: with two permits and four futures a released permit meets an empty
  queue, one waiter and two, and a waiter can be cancelled at the head and behind
  it. Each future is spawned once: a second spawn is another future.
- *RegistrationRecovery*: threshold 2 separates "counted" from "given up"; delays
  1, 2, 3 make the doubling meet a maximum that is not a power of two.
- *Kernel runs*: `MaxControllers` bounds `set_registry`, `MaxDeregisters` the
  deregistrations per controller. Two controllers show a replaced one next to its
  successor. Threshold and delays are 1: the loop's own counting is the subject
  of `RegistrationRecovery`. Both runs use a single permit, the case in which
  everybody competes for the same one. Controllers and messages do not fit into one
  run, so `ReplacedController` has the former and `KernelLiveness` the latter, with
  two deregistrations of one controller. More permits let loops and deregistrations
  run side by side: that is `GhostRegistration` with two, and what the theorems
  about the kernel's safety cover for any number.
- *SharedSocket*: loop and deregistration with three requests in all
  (`MaxRequests`): one that was abandoned and whose thread goes on receiving,
  next to one of each task. The socket's buffer holds one datagram (`MaxDatagrams`),
  which any thread may take or drop; several at a time are covered by the proof.
- *Memory*: three writers of one record each with payloads 1, 2 and 3 against
  ceilings of two records and four bytes, so either loop evicts alone and both
  together; one crash (`MaxCrashes`) and one `clear()` or `remove()` (`MaxOwner`).
  Two records share an id; scores are positive, negative, zero and no number, by
  each of `Inf / Inf`, `Inf - Inf` and `0 * Inf`; queries differ in dimension, tags
  and `top_k`.
- *CallPipeline*: a call of two tools, one registered late, next to a call without
  tools; two functions claim one name and two have one type; the default is deny,
  and of the two rules one allows everything and the other escalates a
  capability, in any order, each added once (the second copy of a rule decides
  nothing). Handlers with and without memory and policy, with an application's
  registry or a built one, in every order of the inventory, are initial states.
- *Conversation*: windows of 30 and 40 tokens against messages of 2 to 17 tokens, so that
  all three compressions happen, pinned and unpinned, with a recent window of
  two; six messages between two `clear()` (`MaxSaid`) compress a window twice, so
  that a summary replaces a summary. Of nine configured programs four never
  post anything, each for a reason of its own.
- *Mesh*: two clients that share one agent, for two pending entries meet there;
  each agent is started twice (`MaxRuns`), so that the table lists a run that is
  gone; one datagram is duplicated (`MaxCopies`), so that one call is routed
  twice. The coordinator may restart at any time.

### Fairness

- Every task that can proceed is polled again (weak fairness per task): that is
  the tokio scheduler, and the semaphore is first-come first-served by its
  documentation. No fairness is assumed of callers (`spawn`, `transition`, abort,
  `close`), except that a `close()` or a hook once begun runs to its end, being
  straight-line code.
- A receive ends with an answer or with the socket's read timeout, so a request
  step is weakly fair; the network and the registry are not, except in
  `RegistrationRecovery`, where the registry handles what arrives, and nothing is
  lost once `calm` holds.
- A message, a tool, the adapter and a file write return: handlers are the
  application's, and one that never returns holds its permit for good.
- Nothing is assumed of a model provider: `Conversation` has safety only.
- The receive loops of coordinator, agents and clients take what has arrived, and
  an agent's tasks go on. Nothing is assumed of the network before `calm`, and of
  `CalmDown` itself nothing ever.
- Failures, drops and crashes are never forced: liveness holds with and without.

### Divergences between code and documents

Found while modelling, each shown by a run that reaches it:

- `NeedsRegister`: `docs/usage.md:224-225` promises re-registration when the
  registry answers `needs_register`; the code counts the answer as a failure and
  only `max_consecutive_failures` of them (3 by default) lead to `register()`.
- `GhostRegistration`: `docs/usage.md:226-227` says the final heartbeat makes the
  registry remove the agent; a `register` handed to the blocking pool before the
  loop was aborted may be delivered after it. The entry then stays until the
  registry expires it.
- `JournalReplay`: `docs/features.md:30` offers the journal for replay; one append
  that stopped half-way joins the next one on a line, and `tail()` fails on it
  from then on.

Visible in the models, and not runs of their own:

- a task that waits for its permit panics when `close()` comes, however long ago
  it was submitted; `scheduler.rs:83-87` speaks of concurrent submission;
- the background loop holds one permit for its whole life: with
  `max_concurrency` 1 no scheduled message is processed while it runs (the last
  disjunct of `ScheduledMessageRuns`);
- `set_registry` drops the controller it replaces, and with it the handle and the
  flag that could stop its loop. The loop goes on with its permit, for good; with
  `max_concurrency` 1 the final heartbeat that `docs/usage.md:225-226` promises is
  then never sent, although its task was accepted (`Abandoned`, the last disjunct of
  `DeregisterIsSent`);
- `with_timeout` "sets the HTTP request timeout" (`openai.rs:73`), which ends with the
  headers: a provider that sends them and no body holds the call for good, in all
  four adapters. No property says that an inference ends, for the code does not see to it;
- the names of tools that a request declares (`traits.rs:242`, set by
  `CallExecutor` at `call.rs:437-438`) are in no provider's payload, so that no model
  learns of them;
- Anthropic and Gemini have no system messages among the others and their adapters
  leave them out; a request of system messages alone is posted with no message at all;
- a score that is no number makes the comparison of `query` no order, and a better
  match may be passed over. That takes values of about 1e19 and more, but then it
  happens between ordinary directions too (`RecallFaithful`'s last condition);
- `schedule_message` does not look at the lifecycle, so messages are accepted in
  `Terminated`, of which `lifecycle.rs:20` says no further work is scheduled;
- `docs/overview.md:31` says that a retiring agent drains in-flight work and then
  emits its cessation notice; the hook of `Retiring` spawns the deregistration at
  once (`registry.rs:370`), and it runs beside the messages;
- `with_tools([my_tool])` of `docs/status/phase-progress.md:10` panics: the type of a
  function item is not the pointer type the inventory holds
  (`ToolRegistry!DescriptorOf`). Function pointers work, but of two tools of one
  signature the first that the linker collected stands for both;
- `with_context_config` of the adapters stores a configuration that `infer` never reads;
- no constructor of `RuleMatcher` makes a rule about events, so that records can
  only be allowed or refused together with everything else
  (`PolicyEngine!Constructible`);
- the tokens of a summary stay in a window's count when a later summary replaces
  it (`TokensAccounted` says exactly so): a window that summarises gets tighter
  until it is cleared;
- a window with `recent_window_size` 0 may evict the question it was just given, and
  the debugger's `unwrap` of the request would panic: `ConversationAssumption` asks
  for at least one recent message, and `QuestionLast` is where it is needed;
- a pending entry whose call or answer was lost stays in the coordinator's table
  (the third disjunct of `PendingExplained`);
- a call that fails after some of its tools ran has journalled only its inbound
  message, whereas `docs/usage.md:476` says tool invocations appear in the journal.

## 4. The proofs

All proofs are for every value of the constants that satisfies the assumptions
the modules name (`SchedulerAssumption`, `WorkerAssumption`, `KernelAssumption`,
`ClientAssumption`, `NetworkAssumption`, `MeshAssumption`, `BusAssumption`,
`MutexAssumption`, `ServiceAssumption`, `PipelineAssumption`, `PartsAssumption`,
`ConversationAssumption`, `NoneAssumption`). They say what the code's types and
builders say: sets of futures, messages, calls and tool functions are finite,
limits are positive, an initial delay is not above its maximum, coordinator,
agents and clients are different processes, a size is a number, a window
configuration keeps at least one recent message (the debugger's keeps five, `examples/agent-debugger/src/main.rs:75`); and that the
values that stand for "nothing" are none of the values they are told from. TLC
evaluates every one of them in a run.

Every safety property that a passing run checks, and every refinement, is a
theorem. `PROJECT.json` pairs them; the argument of each is below.

`TaskScheduler_proofs`:

- `TypeCorrect`, one step per action;
- `PermitConservation`: free permits and running bodies add up to the limit. The
  invariant is inductive with the type invariant; `StartCount`, `StopCount` and
  `OtherMove` say what each kind of step does to the cardinality of `Running`.
  `ConcurrencyBound` follows;
- `NoStartAfterClose`, an action property: the only steps that start a body test
  the semaphore. It needs that the semaphore, once closed, stays closed;
- `QueueCorrect`: the queue holds each waiter exactly once. The interesting step
  is the cancellation of a waiter, for which `WithoutIndexElements` says what is
  left of a duplicate-free sequence;
- `SchedulerRefinesPool`: initial states map to initial states and each step to a
  step of `BoundedPool` or a stutter. The mapping counts a future as admitted
  once `spawn()` has seen the flag unset; the limit on running jobs comes from
  `PermitConservation`.

`RegistrationService_proofs`:

- `TypeCorrect`: the types of loops and link, with the retry delay between its
  initial value and its maximum for any two such values;
- `BudgetKept` (`FailureBudget`): a worker goes from its heartbeats back to `register`
  exactly with the last of as many failures in a row as the threshold. `missed`
  counts the failures from outside, by the answers; `Counted` says that the loop's own
  count agrees with it between heartbeats and `BudgetLeft` that failures are left
  there. Neither says when the loop is left: `BudgetStep` does, step by step.

`AgentKernel_proofs`:

- `KernelInvariant` is the strengthening behind `OneWorker` and `RetirementStops`.
  Neither is inductive alone: that `worker` is unset must imply that the current
  controller's loop was never spawned *or* has been retired, which needs the
  lifecycle (no state that spawns a loop follows a retirement), the hook's
  position between its statements, and that tasks never return to `idle`;
- `WireInvariant` types the requests on the wire, so that nothing but a loop
  sends a `register`;
- `DepartedForGood` (`NoResurrection`): `Terminated` is absorbing, no loop starts
  in it, a loop that is not alive sends nothing, and requests on the wire only
  disappear or lose their waiter, so `Departed` is stable;
- `AgentInvariant` adds the parts the kernel is composed of. Its proof cites the
  lemmas of the two modules above as `Runtime` and `Service`: a step of the
  kernel is a step of its scheduler, of a loop, or of neither. `TypeCorrect`
  follows, and with it what those modules prove of a scheduler that is used by
  itself: `PermitsKept`, `QueueKept`, `NoStartInClosedAgent`, and `AgentIsPool`, the
  refinement of `BoundedPool` by the scheduler in the hands of the kernel. For the
  loops the kernel spawns it gives `LoopsKeepBudget`, the same of their own count.

`RegistryClient_proofs`:

- `ClientRefinesLink` (`ImplementsLink`): the initial states map to initial states
  and every step to a step of the link or a stutter, for any number of requests,
  callers and datagrams. `ClientInv` is what the mapping needs: a caller asks with
  one of its own threads that has not ended, and a foretold answer is for a
  thread that receives and is the only one for it. `Quiet` covers the steps that
  leave callers and foretold answers alone, `Forsaken` and `EndStep` a thread that
  ends, with its answer, with an error, or with nobody there; `Heard` is an answer
  that reaches a waiting caller, `Unheard` one that does not. As two requests may
  look the same on the wire, `Leaves` says what remains when one of them goes.

The proofs about worker and kernel hold for the link with `AnswerCopy`, the step
that this refinement showed to be needed: a request is duplicated and the answer
to one copy comes before the other copy.

`AgentMesh_proofs`:

- `MeshInv`, the strengthening: `Routing` says who may send what to whom
  (a client is only ever sent answers to its own question, and an agent only calls
  of the coordinator), `Numbering` that every id under way, in work or pending is
  older than the next one and that a datagram and a pending entry of one id belong
  to one client. Neither is inductive without the other: `Forward` sends to
  the client of the entry that has the response's id, and only `Numbering` makes
  that the client who asked. `TypeCorrect` and `RightAsker`
  (`AnswersReachTheirAsker`) follow;
- `PendingAccounted` (`PendingExplained`): an entry that is pending has its call or
  its answer under way, in work, or in `gone`. What a step takes from the network
  it hands on, works on, or counts as gone; `Explained` follows one id through
  all of them.

`MemoryService_proofs`:

- `TypeCorrect` rests on `Base`: `BusInv` (the mutex is held by exactly the writer
  that is at the file, the ring's byte count is exact) and `FileInv` (a record is in the
  file at most once, whole or in part; not before its writer began, and last on
  the open line while its newline is due);
- `RingCorrect`: `RingInv` names the number of records dropped. It is the smallest
  that satisfies both ceilings, so that one push more can only raise it; the two
  loops of `push` stop exactly there;
- `AppendsKept`: a record that was reported as written ends a line (`WrittenInv`), and
  lines only grow until `clear()`. That it is alone on it in the other case, and that
  readers see it, comes from `FileInv` and the views a `tail()` may have;
- `DamageIsLocal`: unreadable lines and a spoilt open line together are at most the
  interrupted appends (`DamageInv`). The bound on lines alone is not inductive:
  the open line becomes one of them with the next newline;
- `RecallCorrect`: `IndexInv` says the index has one point an id, and, before any
  `clear()`, only written records; the sort's result is taken as any permutation that its
  comparison allows.

`CallPipeline_proofs` uses the bus lemmas of `MemoryService_proofs` for a bus whose
writers are the calls, as `Bus`:

- `Stage` ties each position of a call to what its writer does, how many tools have
  run and which part comes next; `FileOfCalls` says that a part in the file was begun
  and that the part before it ends an earlier line. With them `TranscriptKept` and
  `MessageFirst` are short, and neither is inductive alone;
- `TypeCorrect`, for which the builder must find a tool for every function it is
  given;
- `PolicyObeyed`: `PolicyInv` says of each call that what it ran, asked the model and
  recorded was permitted by some state of the rules since it arrived; rules and
  registered tools only grow, so that what was permitted once stays so
  (`AllowedKept`).

`Conversation_proofs`:

- `Kept` is the invariant of a window: its messages are, in order, messages that
  were said, among them every recent and pinned one, and its summary is of
  messages it no longer holds. That makes a new summary differ from the last one,
  so that `Counted`, the exact count, survives it. `DropKept`, `SummarizeKept` and `EvictKept` take the three compressions one by one;
  `Exhausted` is what they leave of a window over its budget;
- `RenderIs`: after the first k replacements, a reference that is spelled exactly is
  one of a later name or came with a value. It holds for values that refer to one
  another, in any order of the references;
- `ReplyTyped`, `SettingsAre`, `CarriedInFront` and `CarriedApart` are about the
  adapters, each of which has its own copy of what `ModelAdapter` defines. The fold
  that leaves system messages out is not what the property says of the payload: that
  counts the messages carried before each one, and `Ranks` shows the two to agree;
- `ConversationInv` ties what was posted to the window while an exchange is under
  way. `TypeCorrect`, `WindowKeepsRecentAndPinned`, `CompressionIsExhaustive`,
  `TokensExact`, `ConversationReachesModel` (a configuration with a recent message
  cannot drop the question before it is sent, so `unwrap` does not panic) and
  `PayloadCarries` follow.

**Folds.** What ring, vector store, window, template and adapters compute is written
with the folds of the community modules, which are recursive functions over
sets of positions. The library's induction theorems take an operator, which the
provers cannot instantiate, but well-founded induction is also stated there by
minimal elements of sets (`WFMin`): `LeastNat`, `NatSet` and `Along` turn it into
induction over the members of a set of numbers. `FoldExists`, `AddsUp` and
`FoldTakes` say once what a fold is, what one that adds comes to and what one that
selects keeps; every other lemma on sequences cites them.

Only model-checked: the liveness properties (`AcceptedTasksEnd`, `RecoversOnceCalm`,
`ShutdownStopsWorker`, `ShutdownEndsWorker`, `DeregisterIsSent`,
`ScheduledMessageRuns`, `RecordsEnd`, `CallsEnd`, `AnsweredOnceCalm`).
They need fairness and `ENABLED`, which are outside the prover's reach.

## 5. Not modelled

- Time and durations, except the doubling of the retry delay; rounding and underflow
  of `f32`.
- The remote policy engine (`agent-policy/integrations.rs`): one method that forwards to
  a client the application supplies. That an engine fails is `CallPipeline!Fail`.
- `agent-primitives`: immutable values whose builders validate strings; what they
  accept is a constant (`CapabilityIds`, the URLs of `Conversation`).
- `agent-config`, `agent-telemetry`, the facade crate: stubs and re-exports.
- `agent-prompts/system.rs` and `manager.rs`, which only store a prompt, and the
  `prompt-management` example, which prints what windows and templates do.
- What the `#[tool]` macro refuses at compile time: `ToolAssumption` says what is
  left of it.
- The HTTP client, JSON and the MXP wire format: a response that does not decode,
  a datagram that is garbled and a line that is not one record stand for them.
- Statistics of the ring and record builders: no state of their own.
- The coordinator's acknowledgement of a registration, which no agent looks at.

## 6. Plan

Done: every component of section 1 except those of section 5, the runs of
section 3 and the proofs of section 4. Left, all of it proof:

1. `CallPipeline`: `WrittenOnOwnLine` and `DamageBounded` of the bus whose writers
   are the calls, from the lemmas of `MemoryService_proofs`.
2. Action properties of the mesh: what a restart of the coordinator may do to the
   table of pending requests.
