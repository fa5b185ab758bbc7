---------------------------- MODULE CallPipeline ----------------------------
(***************************************************************************)
(* agent-kernel/src/call.rs: a message of type Call is dispatched to       *)
(* KernelMessageHandler::handle_call, which records it, executes the call  *)
(* (each tool, then one inference), records the tool outputs and the       *)
(* response, and hands the outcome to the sink.  A policy decision guards  *)
(* every tool, the inference and every record.  Calls run concurrently on  *)
(* their callers' tasks and share the memory bus, the rules and the tool   *)
(* registry.                                                               *)
(***************************************************************************)
EXTENDS MemoryBus

CONSTANTS
  ToolFns, CapabilityIds,
  Plan,         \* the invocations each call asks for, in order: [name, input]
  Types,        \* the types a message may have
  Implemented,
  Rules, Default,
  Observers,    \* in the CompositePolicyObserver: "tracing", "mxp_audit"
  Emitters,     \* in the CompositeAuditEmitter: "tracing", "governance"
  FirstTools,   \* the tools of a registry the application has built itself
  BuilderCalls  \* what with_tools may be given instead

Calls == Writers

\* A call's transcript: the inbound message (part 0), the tools, the response.
LastPart(c) == Len(Plan[c]) + 1
RecordOf(c, part) == [call |-> c, part |-> part]

ASSUME PipelineAssumption ==
  /\ \A c \in Calls : Plan[c] \in Seq([name : STRING, input : {Plan[c][i].input : i \in DOMAIN Plan[c]}])
  /\ FirstTools \subseteq ToolFns
  /\ BuilderCalls \subseteq Seq(ToolFns)
  /\ Implemented = {"Call"}
  /\ Records = UNION {{RecordOf(c, i) : i \in 0..LastPart(c)} : c \in Calls}
  /\ Embedded = {}   \* the builder is never given an embedding

VARIABLES
  rules,        \* PolicyEngine
  registered,   \* ToolRegistry
  shared,       \* does the application hold the registry too?
  memoryOn,     \* with_memory, with_policy: set when the handler is built
  policyOn,
  pc,           \* where each call is
  part,         \* the part of the transcript it records
  ran,          \* the functions whose bodies it has entered
  inferred,     \* whether it has called the adapter
  delivered,    \* calls whose outcome the sink has
  since,        \* history: how many rules there were, and which tools, when the
                \* call arrived
  emitted       \* the events handed to a governance send task

Policy == INSTANCE PolicyEngine
Registry == INSTANCE ToolRegistry
Handlers == INSTANCE MessageDispatch

ASSUME PartsAssumption ==
  Policy!PolicyAssumption /\ Registry!ToolAssumption /\ Handlers!DispatchAssumption

callVars == <<part, ran, inferred, delivered, since>>
sharedVars == <<rules, registered, shared, memoryOn, policyOn>>
vars == <<busVars, sharedVars, pc, callVars, emitted>>

Ended == {"done", "refused", "failed"}
Stages == {"policy", "record", "parse", "tool_policy", "tool", "running",
           "model_policy", "infer", "stream", "deliver"}

Init ==
  /\ BusInit
  /\ rules = <<>>
  /\ \/ /\ shared = TRUE
        /\ registered = [n \in {f.name : f \in FirstTools} |->
                           CHOOSE f \in FirstTools : f.name = n]
     \/ /\ shared = FALSE
        /\ \E inventory \in Registry!Inventories, functions \in BuilderCalls :
             registered \in Registry!Built(inventory, functions)
  /\ memoryOn \in BOOLEAN
  /\ policyOn \in BOOLEAN
  /\ pc = [c \in Calls |-> "idle"]
  /\ part = [c \in Calls |-> 0]
  /\ ran = [c \in Calls |-> <<>>]
  /\ inferred = {}
  /\ delivered = {}
  /\ since = [c \in Calls |-> [rules |-> 0, tools |-> <<>>]]
  /\ emitted = {}

At(c, stage) == pc[c] = stage
Enter(c, stage) == pc' = [pc EXCEPT ![c] = stage]

-----------------------------------------------------------------------------
(* Policy *)

Invocation(c) == Plan[c][Len(ran[c]) + 1]

\* Capability tags are only known of a registered tool.
ToolRequest(name) ==
  Policy!Request("tool", name, IF Registry!Bound(name) THEN registered[name].caps ELSE {})

ModelRequest(c) ==
  Policy!Request("model", "adapter", {ran[c][i].name : i \in 1..Len(ran[c])})

RecordTags(c, i) == IF i \in 1..Len(Plan[c]) THEN {"mxp.call", "tool"} ELSE {"mxp.call"}

RecordRequest(c, i) == Policy!Request("event", "memory_record", RecordTags(c, i))

AuditEvent(c, request, decision) ==
  [call |-> c, kind |-> request.kind, name |-> request.name, decision |-> decision]

\* MxpAuditObserver turns a refusal into an event for its emitters;
\* GovernanceAuditEmitter sends it from a task of its own, which nothing waits
\* for: of these events the governance agent receives some, in any order.
OnDecision(event) ==
  emitted' = IF /\ event.decision \in {"deny", "escalate"}
                /\ "mxp_audit" \in Observers
                /\ "governance" \in Emitters
             THEN emitted \cup {event} ELSE emitted

\* The decision is taken, the observers are told of it, and the call goes on or
\* ends with an error.
Enforce(c, request, stage) ==
  LET decision == Policy!Evaluate(rules, request)
  IN  /\ IF policyOn
           THEN /\ OnDecision(AuditEvent(c, request, decision))
                /\ Enter(c, IF Policy!Permits(decision) THEN stage ELSE "refused")
           ELSE Enter(c, stage) /\ UNCHANGED emitted
      /\ UNCHANGED <<busVars, sharedVars, callVars>>

\* Variant: only the first tool is put to the engine.
EnforceFirstTool(c) ==
  /\ At(c, "tool_policy")
  /\ IF ran[c] = <<>> THEN Enforce(c, ToolRequest(Invocation(c).name), "tool")
     ELSE Enter(c, "tool") /\ UNCHANGED <<busVars, sharedVars, callVars, emitted>>

EnforceMemoryPolicy(c) == At(c, "policy") /\ Enforce(c, RecordRequest(c, part[c]), "record")
EnforceToolPolicy(c) ==
  At(c, "tool_policy") /\ Enforce(c, ToolRequest(Invocation(c).name), "tool")
EnforceModelPolicy(c) == At(c, "model_policy") /\ Enforce(c, ModelRequest(c), "infer")

-----------------------------------------------------------------------------
(* Recording *)

\* handle_message: only a Call reaches the pipeline.
Arrive(c, type) ==
  /\ At(c, "idle")
  /\ IF Handlers!Dispatch(type) = "handler"
       THEN /\ since' = [since EXCEPT ![c] = [rules |-> Len(rules), tools |-> registered]]
            /\ Enter(c, IF memoryOn THEN "policy" ELSE "parse")
       ELSE /\ Enter(c, "failed")
            /\ UNCHANGED since
  /\ UNCHANGED <<busVars, sharedVars, part, ran, inferred, delivered, emitted>>

BeginRecord(c) ==
  /\ At(c, "record")
  /\ PushVolatile(c, RecordOf(c, part[c]))
  /\ UNCHANGED <<sharedVars, pc, callVars, emitted>>

\* Variant: the loop runs past the response.
NextPartLong(c, i) ==
  IF i = 0 THEN Enter(c, "parse") /\ UNCHANGED part
  ELSE Enter(c, "policy") /\ part' = [part EXCEPT ![c] = i + 1]

\* Where a call goes with part i recorded.
NextPart(c, i) ==
  CASE i = 0           -> Enter(c, "parse") /\ UNCHANGED part
    [] i = LastPart(c) -> Enter(c, "deliver") /\ UNCHANGED part
    [] OTHER           -> Enter(c, "policy") /\ part' = [part EXCEPT ![c] = i + 1]

ContinueRecord(c) ==
  /\ At(c, "record")
  /\ RecordStep(c)
  /\ IF writing'[c] = "ok" THEN NextPart(c, part[c]) ELSE UNCHANGED <<pc, part>>
  /\ UNCHANGED <<sharedVars, ran, inferred, delivered, since, emitted>>

\* Variant: an inbound record that cannot be written is only logged.
RecordErrorIgnored(c) ==
  /\ At(c, "record")
  /\ RecordFails(c)
  /\ Enter(c, IF part[c] = 0 THEN "parse" ELSE "failed")
  /\ UNCHANGED <<sharedVars, callVars, emitted>>

\* Variant: a record that could not be written is written again.
RecordErrorRetried(c) ==
  /\ At(c, "record")
  /\ RecordFails(c)
  /\ UNCHANGED <<sharedVars, pc, callVars, emitted>>

RecordError(c) ==
  /\ At(c, "record")
  /\ RecordFails(c)
  /\ Enter(c, "failed")
  /\ UNCHANGED <<sharedVars, callVars, emitted>>

-----------------------------------------------------------------------------
(* CallExecutor::execute *)

NextStage(c) == IF Len(ran[c]) < Len(Plan[c]) THEN "tool_policy" ELSE "model_policy"

Parse(c) ==
  /\ At(c, "parse")
  /\ Enter(c, NextStage(c))
  /\ UNCHANGED <<busVars, sharedVars, callVars, emitted>>

\* ToolRegistry::invoke: the name is looked up again, the input decoded and the
\* body entered.
Invocable(c) ==
  LET name == Invocation(c).name
  IN  Registry!Bound(name) /\ Registry!Decodes(registered[name], Invocation(c).input)

InvokeTool(c) ==
  /\ At(c, "tool")
  /\ Invocable(c)
  /\ ran' = [ran EXCEPT ![c] = Append(@, registered[Invocation(c).name])]
  /\ Enter(c, "running")
  /\ UNCHANGED <<busVars, sharedVars, part, inferred, delivered, since, emitted>>

ToolReturns(c) ==
  /\ At(c, "running")
  /\ Enter(c, NextStage(c))
  /\ UNCHANGED <<busVars, sharedVars, callVars, emitted>>

Infer(c) ==
  /\ At(c, "infer")
  /\ inferred' = inferred \cup {c}
  /\ Enter(c, "stream")
  /\ UNCHANGED <<busVars, sharedVars, part, ran, delivered, since, emitted>>

StreamEnds(c) ==
  /\ At(c, "stream")
  /\ Enter(c, IF memoryOn THEN "policy" ELSE "deliver")
  /\ part' = IF memoryOn THEN [part EXCEPT ![c] = 1] ELSE part
  /\ UNCHANGED <<busVars, sharedVars, ran, inferred, delivered, since, emitted>>

Deliver(c) ==
  /\ At(c, "deliver")
  /\ delivered' = delivered \cup {c}
  /\ Enter(c, "done")
  /\ UNCHANGED <<busVars, sharedVars, part, ran, inferred, since, emitted>>

\* The engine, the decoder, the registry, the tool's body, the request's
\* validation, the adapter or its stream reports an error.
Fail(c) ==
  /\ \/ pc[c] \in {"parse", "running", "infer", "stream"}
     \/ pc[c] \in {"policy", "tool_policy", "model_policy"} /\ policyOn
     \/ At(c, "tool") /\ ~Invocable(c)
  /\ Enter(c, "failed")
  /\ UNCHANGED <<busVars, sharedVars, callVars, emitted>>

\* The caller drops the handler's future at an await.
Drop(c) ==
  /\ pc[c] \in Stages \ {"deliver"}
  /\ IF writing[c] \in Busy THEN RecordDropped(c) ELSE UNCHANGED busVars
  /\ Enter(c, "failed")
  /\ UNCHANGED <<sharedVars, callVars, emitted>>

-----------------------------------------------------------------------------
(* Shared state *)

\* Bound: no rule is added twice (the second would never decide anything).
AddRule(rule) ==
  /\ policyOn
  /\ \A i \in 1..Len(rules) : rules[i] # rule
  /\ Policy!AddRule(rule)
  /\ UNCHANGED <<busVars, registered, shared, memoryOn, policyOn, pc, callVars, emitted>>

RegisterTool(f) ==
  /\ shared
  /\ Registry!Register(f)
  /\ UNCHANGED <<busVars, rules, shared, memoryOn, policyOn, pc, callVars, emitted>>

CallStep(c) ==
  \/ EnforceMemoryPolicy(c) \/ EnforceToolPolicy(c) \/ EnforceModelPolicy(c)
  \/ BeginRecord(c) \/ ContinueRecord(c) \/ RecordError(c)
  \/ Parse(c) \/ InvokeTool(c) \/ ToolReturns(c)
  \/ Infer(c) \/ StreamEnds(c) \/ Deliver(c)
  \/ Fail(c)

AllEnded == (\A c \in Calls : pc[c] \in Ended) /\ UNCHANGED vars

Next ==
  \/ \E c \in Calls : (\E type \in Types : Arrive(c, type)) \/ CallStep(c) \/ Drop(c)
  \/ \E rule \in Rules : AddRule(rule)
  \/ \E f \in ToolFns : RegisterTool(f)
  \/ AllEnded

\* A caller polls the call it has started; tools, adapter and file return.
Fairness == \A c \in Calls : WF_vars(CallStep(c))

Spec == Init /\ [][Next]_vars
FairSpec == Spec /\ Fairness

-----------------------------------------------------------------------------
TypeOK ==
  /\ BusTypeOK
  /\ rules \in Seq(Rules)
  /\ \A n \in DOMAIN registered : registered[n] \in ToolFns /\ registered[n].name = n
  /\ shared \in BOOLEAN
  /\ memoryOn \in BOOLEAN /\ policyOn \in BOOLEAN
  /\ pc \in [Calls -> Stages \cup Ended \cup {"idle"}]
  /\ part \in [Calls -> Nat]
  /\ \A c \in Calls : part[c] <= LastPart(c)
  /\ ran \in [Calls -> Seq(ToolFns)]
  /\ inferred \in SUBSET Calls
  /\ delivered \in SUBSET Calls
  /\ \A c \in Calls :
       /\ since[c].rules \in Nat
       /\ \A n \in DOMAIN since[c].tools : since[c].tools[n] \in ToolFns
  /\ \A e \in emitted : e.call \in Calls /\ e.decision \in Policy!DecisionKind

\* Some rule set in force since the call arrived lets the request pass.
AllowedSince(c, request) ==
  \E n \in since[c].rules..Len(rules) :
    Policy!Permits(Policy!Evaluate(SubSeq(rules, 1, n), request))

\* The tags function f can have been judged by: its own, or none if the name was
\* not registered when the call arrived.
ToolTags(c, f) == IF f.name \in DOMAIN since[c].tools THEN {f.caps} ELSE {{}, f.caps}

\* Whatever rules are added and tools registered in the meantime, a tool body
\* that was entered, an adapter that was called and a record that was pushed
\* were permitted by rules in force while the call was under way; a rule added,
\* or a capability registered, before the call arrived is never bypassed.  And
\* what the governance agent hears was refused never happened.
OnlyWhatPolicyAllowed ==
  policyOn => \A c \in Calls :
    /\ \A i \in 1..Len(ran[c]) :
         \E tags \in ToolTags(c, ran[c][i]) :
           AllowedSince(c, Policy!Request("tool", ran[c][i].name, tags))
    /\ c \in inferred => AllowedSince(c, ModelRequest(c))
    /\ \A i \in 0..LastPart(c) :
         (\E k \in 1..Len(entries) : entries[k] = RecordOf(c, i))
           => AllowedSince(c, RecordRequest(c, i))
    /\ \A e \in emitted :
         e.call = c => /\ pc[c] = "refused"
                       /\ e.kind = "tool" => Invocation(c).name = e.name
                       /\ e.kind = "model" => c \notin inferred

\* Where the finished lines of the journal hold part n of call c, each place a
\* line and a piece of it.
Places(c, n) ==
  UNION {{<<i, k>> : k \in {k \in 1..Len(lines[i]) :
                              lines[i][k] = Journal!Whole(RecordOf(c, n))}} :
         i \in 1..Len(lines)}

\* The journal holds a prefix of each call's transcript: every part at most once,
\* and only after the line of the part before it was finished, although calls
\* interleave and appends are torn; and the whole of it once the sink has the
\* outcome.  The bodies that ran are those of the functions annotated with the
\* names asked for, in their order, however the registry came to hold them.
TranscriptInOrder ==
  \A c \in Calls :
    /\ \A n \in 0..LastPart(c) : \A p \in Places(c, n) :
         /\ Places(c, n) = {p}
         /\ n > 0 => \E q \in Places(c, n - 1) : q[1] < p[1]
    /\ \A i \in 1..Len(ran[c]) : ran[c][i].name = Plan[c][i].name
    /\ c \in delivered =>
         /\ Len(ran[c]) = Len(Plan[c])
         /\ memoryOn => \A n \in 0..LastPart(c) : Places(c, n) # {}

\* With a memory bus no tool runs and no model is asked before the message
\* that wants it is on a finished line of the journal.
InboundFirst ==
  \A c \in Calls :
    memoryOn /\ (ran[c] # <<>> \/ c \in inferred) => Places(c, 0) # {}

\* A call ends, whichever of the others fail or are dropped while they write.
CallsEnd == \A c \in Calls : pc[c] \in Stages ~> pc[c] \in Ended
=============================================================================
