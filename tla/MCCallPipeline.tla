--------------------------- MODULE MCCallPipeline ---------------------------
(* A call of two tools next to one without tools.  The application's own    *)
(* registry starts with echo and may get search later, and two functions    *)
(* claim the name echo; the builder is given echo, whose type search has    *)
(* too.  Everything is denied until a rule allows it; the other rule asks   *)
(* for an escalation by capability, and their order matters.                *)
EXTENDS CallPipeline, TLC

CONSTANTS c1, c2

TwoCalls == {c1, c2}

Fn(name, caps, args, type) ==
  [name |-> name, version |-> "1.0.0", caps |-> caps, args |-> args, type |-> type]
Echo == Fn("echo", {}, {"text"}, "fn(String)")
Search == Fn("search", {"cap:net"}, {"query"}, "fn(String)")
Repeat == Fn("echo", {"cap:net"}, {"text", "times"}, "fn(String, u32)")
ThreeFns == {Echo, Search, Repeat}
EchoOnly == {Echo}
GivenEcho == {<<Echo>>}
NetCapability == {"cap:net"}

Text == [object |-> FALSE, fields |-> {}, fits |-> TRUE]
Plans == c1 :> <<[name |-> "echo", input |-> Text], [name |-> "search", input |-> Text]>>
         @@ c2 :> <<>>
CallOrEvent == {"Call", "Event"}
CallOnly == {"Call"}

AllRecords == UNION {{RecordOf(c, i) : i \in 0..LastPart(c)} : c \in TwoCalls}
UnitSize == [r \in AllRecords |-> 1]
OwnId == [r \in AllRecords |-> r]
NoEmbedding == [r \in AllRecords |-> <<>>]
NoTags == [r \in AllRecords |-> {}]

AuditObserver == {"tracing", "mxp_audit"}
GovernanceEmitter == {"governance"}

Rule(kind, name, tags, decision) ==
  [kind |-> kind, name |-> name, tags |-> tags, decision |-> decision]
AllowAndEscalate ==
  { Rule("any", "*", {}, "allow"),
    Rule("tool", "*", {"cap:net"}, "escalate") }
=============================================================================
