---------------------------- MODULE PolicyEngine ----------------------------
(***************************************************************************)
(* agent-policy: a request says what an agent is about to do, with tags; a *)
(* RuleBasedEngine holds rules that are only ever appended; the first one  *)
(* that matches a request decides it, the default decision if none does.   *)
(***************************************************************************)
EXTENDS Naturals, Sequences, FiniteSetsExt

CONSTANTS Rules,     \* the rules the application may add
          Default    \* default_decision

VARIABLE rules

DecisionKind == {"allow", "deny", "escalate"}
AnyKind == "any"     \* ActionMatcher::Any
AnyName == "*"       \* a matcher field left None
BlankTag == ""

\* Tags that are blank are dropped, on either side.
Tags(tags) == tags \ {BlankTag}

\* PolicyRequest: the action's kind and name, and the tags of the context.
Request(kind, name, tags) == [kind |-> kind, name |-> name, tags |-> Tags(tags)]

\* What the constructors of RuleMatcher and with_required_tags can make: none is
\* for events, which only a rule about any action matches.
Constructible(rule) ==
  /\ rule.kind \in {AnyKind, "tool", "model"}
  /\ rule.kind = AnyKind => rule.name = AnyName
  /\ rule.tags = Tags(rule.tags)
  /\ rule.decision \in DecisionKind

PolicyAssumption ==
  /\ \A rule \in Rules : Constructible(rule)
  /\ Default \in DecisionKind

Matches(rule, request) ==
  /\ rule.kind \in {AnyKind, request.kind}
  /\ rule.name \in {AnyName, request.name}
  /\ rule.tags \subseteq request.tags

Evaluate(rs, request) ==
  LET hits == {i \in 1..Len(rs) : Matches(rs[i], request)}
  IN  IF hits = {} THEN Default ELSE rs[Min(hits)].decision

AddRule(rule) == rules' = Append(rules, rule)

\* enforce_decision (call.rs): only Allow lets the call go on.
Permits(decision) == decision = "allow"
=============================================================================
