-------------------------- MODULE MCPolicyEngine --------------------------
(***************************************************************************)
(* Small instances of PolicyEngine for TLC.  "a" and "b" are executables,  *)
(* arguments and destinations at once; "bad" is a verdict on "a".          *)
(***************************************************************************)
EXTENDS PolicyEngine

Executable == "process.executable"
ToolName == "tool.name"

MCTexts == {"a", "b", "bad"}
MCEventFields == {ToolName, ToolDestinations, ToolThreat}
MCInvocationFields == {Executable, Args, Destinations, Threat}
MCReports == [t \in MCTexts |-> IF t = "a" THEN {"bad"} ELSE {}]

If(f, op, ts) == [field |-> f, operator |-> op, texts |-> ts]
Then(action, cs) == [action |-> action, conditions |-> cs, guards |-> {}, spec |-> {}]

\* A denial by an argument, by the absence of one, and by both; an exception
\* to a rule on an executable; an audit of whatever has arguments.
ShellRules ==
    {Then("deny", {If(Executable, "IN", {"a"}), If(Args, "HAS_ANY", {"b"})}),
     Then("deny", {If(Executable, "IN", {"a"}), If(Args, "HAS_NONE", {"b"})}),
     Then("allow", {If(Args, "HAS_ALL", {"a", "b"}), If(ToolName, "NOT_IN", {"b"})}),
     Then("audit", {If(Args, "EXISTS", {}), If(Args, "HAS_ANY", {"a"})})}

\* Hand-written matchers, alone and after a condition.
LegacyRules ==
    {[action |-> "deny", conditions |-> {}, guards |-> {If(ToolName, "IN", {"a"})},
      spec |-> {If(Executable, "IN", {"a"}), If(Args, "HAS_ANY", {"b"})}],
     [action |-> "allow", conditions |-> {If(Executable, "IN", {"b"})}, guards |-> {},
      spec |-> {If(Args, "HAS_ALL", {"a"})}]}

\* Rules that ask the provider, about a process, about a tool and about both.
ThreatRules ==
    {Then("deny", {If(Executable, "IN", {"a"}), If(Destinations, "ANY_MATCHES", {"a"}),
                   If(Threat, "HAS_ANY", {"bad"})}),
     Then("deny", {If(Destinations, "ANY_MATCHES", {"a", "b"}), If(Args, "HAS_NONE", {"b"}),
                   If(Threat, "HAS_NONE", {"bad"})}),
     Then("deny", {If(ToolDestinations, "ANY_MATCHES", {"a", "b"}), If(ToolName, "IN", {"b"}),
                   If(ToolThreat, "HAS_ANY", {"bad"})}),
     Then("deny", {If(ToolDestinations, "ANY_MATCHES", {"a"}), If(Args, "HAS_ANY", {"b"}),
                   If(ToolThreat, "HAS_ANY", {"bad"})}),
     Then("deny", {If(Destinations, "ANY_MATCHES", {"a"}), If(Threat, "HAS_ANY", {"bad"}),
                   If(ToolDestinations, "ANY_MATCHES", {"a"}), If(ToolThreat, "HAS_NONE", {"bad"})})}

OneOrTwo(rs) == {<<r>> : r \in rs} \cup (rs \X rs)
MCPolicies ==
    [rules : OneOrTwo(ShellRules \cup LegacyRules) \cup OneOrTwo(ThreatRules)
               \cup (ShellRules \X ThreatRules),
     default : {"allow", "deny"}]
MCShellPolicies == [rules : OneOrTwo(ShellRules \cup LegacyRules), default : {"deny"}]

Scalar(t) == [kind |-> "scalar", texts |-> {t}]
List(ts) == [kind |-> "list", texts |-> ts]
Nothing == [kind |-> "missing", texts |-> {}]

MCEvents ==
    {[f \in MCEventFields |->
        CASE f = ToolName -> name
          [] f = ToolDestinations -> List(ds)
          [] f = ToolThreat -> List({})] :
     name \in {Scalar("a"), Scalar("b"), Nothing}, ds \in {{"a", "b"}}}
MCOneEvent == {e \in MCEvents : e[ToolName] = Scalar("a")}

Invocation(x, args, ds, uncertain, fragments) ==
    [known |-> [f \in MCInvocationFields |->
        CASE f = Executable -> Scalar(x)
          [] f = Args -> List(args)
          [] f = Destinations -> List(ds)
          [] f = Threat -> List({})],
     uncertain |-> uncertain, fragments |-> fragments]

Plainly ==
    {Invocation("a", args, {}, {}, {}) : args \in {{}, {"a", "b"}}}
      \cup {Invocation("b", {"a"}, {"a"}, {}, {}), Invocation("a", {"a"}, {"a", "b"}, {}, {})}
Dynamically ==
    {Invocation("a", {}, {}, {Args}, {}), Invocation("a", {"b"}, {}, {Args}, {}),
     Invocation("b", {"a"}, {}, {Args}, {}), Invocation("a", {"a"}, {"a"}, {Args, Destinations}, {})}
MCCommands ==
    {<<>>} \cup {<<i>> : i \in Plainly \cup Dynamically}
      \cup (Plainly \X Dynamically) \cup (Dynamically \X Plainly)

\* Commands with a word that is b followed by an expansion.
MCPartialCommands == {<<Invocation("a", args, {}, {Args}, {"b"})>> : args \in {{"b"}, {"a", "b"}}}
=============================================================================
