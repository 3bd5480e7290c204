---------------------------- MODULE PolicyEngine ----------------------------
(***************************************************************************)
(* The evaluation of one hook event: which remote reports are asked for,   *)
(* which rules match, and what is decided.  The event and the invocations  *)
(* found in its command are given.  A value of an invocation may be        *)
(* uncertain: the shell may add texts to it that the hook cannot see.  A   *)
(* rule that such a text could turn is undecided, and evaluation raises,   *)
(* which main turns into a denial (HookLifecycle).                         *)
(*                                                                         *)
(* A text is compared as a whole, case folded.  An operator on a scalar    *)
(* stands for the set of texts that it accepts: IN for ==, IN, CONTAINS,   *)
(* STARTS_WITH, ENDS_WITH and MATCHES, NOT_IN for != and NOT_IN.           *)
(* ANY_MATCHES stands for the set of texts that its pattern finds.         *)
(***************************************************************************)
EXTENDS Naturals, Sequences, FiniteSets

CONSTANTS
    Texts,             \* texts in events, commands and conditions
    EventFields,       \* fields with one value for the event
    InvocationFields,  \* fields with one value for each invocation
    Policies,          \* policies: their rules and their default
    Events,            \* events: the value of each field
    Commands,          \* commands: the invocations found in them
    Reports            \* the verdicts of the provider on each text

Destinations == "network.destinations"
ToolDestinations == "tool.network.destinations"
Threat == "threat.verdicts"
ToolThreat == "tool.threat.verdicts"
Args == "process.args"

Operators == {"EXISTS", "NOT_EXISTS", "IN", "NOT_IN", "ANY_MATCHES",
              "HAS_ANY", "HAS_ALL", "HAS_NONE"}

\* A scalar, a list (its order never matters), no value, or a value of another
\* type, such as a null in tool.input.
Values ==
    [kind : {"list"}, texts : SUBSET Texts]
      \cup {[kind |-> "scalar", texts |-> {t}] : t \in Texts}
      \cup [kind : {"missing", "other"}, texts : {{}}]

Conditions == [field : EventFields \cup InvocationFields, operator : Operators,
               texts : SUBSET Texts]
OnEvent(cs) == {c \in cs : c.field \in EventFields}
OnInvocation(cs) == {c \in cs : c.field \in InvocationFields}

\* Of a hand-written rule, guards are tool_names and command_regex, and spec is
\* the invocation matcher: its executables, args_any and args_all.
Rules == [action : {"allow", "deny", "audit"}, conditions : SUBSET Conditions,
          guards : SUBSET OnEvent(Conditions), spec : SUBSET OnInvocation(Conditions)]

\* fragments are the arguments that are the literal part of a dynamic word.
Invocations == [known : [InvocationFields -> Values], uncertain : SUBSET InvocationFields,
                fragments : SUBSET Texts]

\* The conditions of a rule that select what may be looked up.
Gates(r, f) == {c \in r.conditions : c.field = f /\ c.operator = "ANY_MATCHES"}

ASSUME FieldsAssumption ==
    /\ {ToolDestinations, ToolThreat} \subseteq EventFields
    /\ {Destinations, Threat, Args} \subseteq InvocationFields
    /\ EventFields \cap InvocationFields = {}
\* _validate_rule: threat conditions come with exactly one gate.
ASSUME PoliciesAssumption ==
    /\ Policies \subseteq [rules : Seq(Rules), default : {"allow", "deny"}]
    /\ \A p \in Policies : \A n \in DOMAIN p.rules : \A c \in p.rules[n].conditions :
          /\ c.field = Threat => \E g \in p.rules[n].conditions : Gates(p.rules[n], Destinations) = {g}
          /\ c.field = ToolThreat => \E g \in p.rules[n].conditions : Gates(p.rules[n], ToolDestinations) = {g}
\* No report is there before it is asked for, and a tool's threat is a list.
ASSUME EventsAssumption ==
    /\ Events \subseteq [EventFields -> Values]
    /\ \A e \in Events : e[ToolThreat] = [kind |-> "list", texts |-> {}]
\* What is uncertain is a list: an executable that is not known is an error of
\* the parser.
ASSUME CommandsAssumption ==
    /\ Commands \subseteq Seq(Invocations)
    /\ \A c \in Commands : \A k \in DOMAIN c :
          /\ c[k].known[Threat] = [kind |-> "list", texts |-> {}] /\ Threat \notin c[k].uncertain
          /\ \A f \in c[k].uncertain : c[k].known[f].kind = "list"
ASSUME ReportsAssumption == Reports \in [Texts -> SUBSET Texts]

VARIABLES
    preventive,   \* the hook may deny: PreToolUse or PermissionRequest
    mode,         \* failure_mode of the enricher, or "off"
    policy,
    event,
    invocations,
    phase,        \* what evaluate does next
    at,           \* the invocation to enrich next
    rule,         \* the rule to match next
    matches,      \* the rules that matched
    outcome,      \* what evaluate returns: a decision or an exception
    asked,        \* reports asked for: <<invocation, text>>, 0 for the tool
    gaps          \* those asked for in vain

input == <<preventive, mode, policy>>
vars == <<preventive, mode, policy, event, invocations, phase, at, rule, matches,
          outcome, asked, gaps>>

TypeOK ==
    /\ preventive \in BOOLEAN
    /\ mode \in {"off", "open", "closed"}
    /\ policy \in Policies
    /\ event \in [EventFields -> Values]
    /\ invocations \in Seq(Invocations)
    /\ phase \in {"start", "enrich", "match", "done"}
    /\ at \in 1 .. Len(invocations) + 1
    /\ rule \in 1 .. Len(policy.rules) + 1
    /\ matches \in SUBSET (DOMAIN policy.rules)
    /\ outcome \in {"none", "allow", "deny", "error"}
    /\ asked \in SUBSET ((0 .. Len(invocations)) \X Texts)
    /\ gaps \in SUBSET asked

Init ==
    /\ preventive \in BOOLEAN
    /\ mode \in {"off", "open", "closed"}
    /\ policy \in Policies
    /\ event \in Events
    /\ invocations \in Commands
    /\ phase = "start"
    /\ at = 1
    /\ rule = 1
    /\ matches = {}
    /\ outcome = "none"
    /\ asked = {}
    /\ gaps = {}

-----------------------------------------------------------------------------
(* Conditions *)

\* _predicate_matches: a value of another type than the operator's matches
\* nothing, and neither does a missing one.
Holds(c, v) ==
    \/ c.operator = "EXISTS" /\ v.kind # "missing"
    \/ c.operator = "NOT_EXISTS" /\ v.kind = "missing"
    \/ c.operator = "IN" /\ v.kind = "scalar" /\ v.texts \subseteq c.texts
    \/ c.operator = "NOT_IN" /\ v.kind = "scalar" /\ v.texts \cap c.texts = {}
    \/ c.operator \in {"HAS_ANY", "ANY_MATCHES"} /\ v.kind = "list" /\ v.texts \cap c.texts # {}
    \/ c.operator = "HAS_ALL" /\ v.kind = "list" /\ c.texts \subseteq v.texts
    \/ c.operator = "HAS_NONE" /\ v.kind = "list" /\ v.texts \cap c.texts = {}

HoldsOn(c, i) == Holds(c, i.known[c.field])
AllHoldOn(cs, i) == \A c \in cs : HoldsOn(c, i)
EventHolds(cs, e) == \A c \in cs : Holds(c, e[c.field])

\* Mutant: a HAS_NONE that holds so far is taken to hold.
TryPositive(cs, i) ==
    IF AllHoldOn(cs, i) THEN "match"
    ELSE IF \E c \in cs : ~HoldsOn(c, i) /\ c.field \notin i.uncertain THEN "no"
    ELSE "undecided"

\* Mutant: anything uncertain makes the rule undecided.
TryCautious(cs, i) ==
    IF \E c \in cs : c.field \in i.uncertain THEN "undecided"
    ELSE IF AllHoldOn(cs, i) THEN "match"
    ELSE "no"

\* The body of the loop over the invocations: all conditions must hold on the
\* same one.  A text not seen can end a HAS_NONE and begin any other match.
Try(cs, i) ==
    LET missed == {c \in cs : ~HoldsOn(c, i)}
    IN  IF missed = {}
        THEN IF \E c \in cs : c.field \in i.uncertain /\ c.operator = "HAS_NONE"
             THEN "undecided" ELSE "match"
        ELSE IF \/ \E c \in missed : c.field \notin i.uncertain
                \/ \A c \in missed : c.operator \in {"EXISTS", "NOT_EXISTS"}
        THEN "no" ELSE "undecided"

\* The loop ends at the first invocation that matches or is undecided.
TryAll(cs, is) ==
    IF \E k \in DOMAIN is :
         Try(cs, is[k]) = "undecided" /\ \A j \in DOMAIN is : j < k => Try(cs, is[j]) # "match"
    THEN "undecided"
    ELSE IF \E k \in DOMAIN is : Try(cs, is[k]) = "match" THEN "match"
    ELSE "no"

\* Mutant: only the conditions on invocations are tested.
CompiledInvocationsOnly(cs, e, is) ==
    IF OnInvocation(cs) = {} THEN "match" ELSE TryAll(OnInvocation(cs), is)

\* _compiled_conditions_match
Compiled(cs, e, is) ==
    IF ~EventHolds(OnEvent(cs), e) THEN "no"
    ELSE IF OnInvocation(cs) = {} THEN "match"
    ELSE TryAll(OnInvocation(cs), is)

\* rule_matches.  An invocation matcher differs from conditions in its layout
\* and in that any invocation may satisfy it.
RuleVerdict(r, e, is) ==
    IF Compiled(r.conditions, e, is) # "match" THEN Compiled(r.conditions, e, is)
    ELSE IF ~EventHolds(r.guards, e) THEN "no"
    ELSE IF r.spec = {} THEN "match"
    ELSE TryAll(r.spec, is)

-----------------------------------------------------------------------------
(* Evaluation *)

Raise ==
    /\ phase' = "done"
    /\ outcome' = "error"

\* An event that nothing can prevent is not matched against the rules.
Observe ==
    /\ phase = "start"
    /\ ~preventive
    /\ phase' = "done"
    /\ outcome' = "allow"
    /\ UNCHANGED <<input, event, invocations, at, rule, matches, asked, gaps>>

Start ==
    /\ phase = "start"
    /\ preventive
    /\ phase' = IF mode = "off" THEN "match" ELSE "enrich"
    /\ UNCHANGED <<input, event, invocations, at, rule, matches, outcome, asked, gaps>>

Without(r, f) == {c \in r.conditions : c.field # f}

\* The rules with threat conditions, which have a gate.
Gated(threat) ==
    {r \in {policy.rules[n] : n \in DOMAIN policy.rules} : Without(r, threat) # r.conditions}

\* The rules that, but for their threat conditions, match or are undecided.
Viable(threat, verdict, is) == {r \in Gated(threat) : Compiled(Without(r, threat), event, is) = verdict}

\* The texts of v that the gate of a viable rule selects.
Selected(threat, gate, is, v) ==
    {t \in v.texts : \E r \in Viable(threat, "match", is) : \E g \in Gates(r, gate) : t \in g.texts}

\* Mutant: one failed lookup discards the answers to the others.
AnswersAllOrNone(chosen, failed) ==
    [kind |-> "list", texts |-> IF failed = {} THEN UNION {Reports[t] : t \in chosen} ELSE {}]

\* The merged answers to the lookups of chosen, some of which failed.
Answers(chosen, failed) ==
    [kind |-> "list", texts |-> UNION {Reports[t] : t \in chosen \ failed}]

\* Lookups for invocation k, or for the tool.  With failure_mode closed a
\* failure raises, with open it leaves a gap.
Lookup(k, chosen, failed) ==
    /\ asked' = asked \cup ({k} \X chosen)
    /\ gaps' = gaps \cup ({k} \X failed)

Tolerated(failed) == mode = "open" \/ failed = {}

\* The report is as uncertain as the destinations that were looked up.
Reported(i, answers) ==
    [i EXCEPT !.known[Threat] = answers,
              !.uncertain = IF Destinations \in @ THEN @ \cup {Threat} ELSE @]

\* One turn of the loop of _enrich_policy_gated_targets.
EnrichInvocation ==
    /\ phase = "enrich" /\ at <= Len(invocations)
    /\ LET i == invocations[at]
           chosen == Selected(Threat, Destinations, <<i>>, i.known[Destinations])
       IN  \/ /\ Viable(Threat, "undecided", <<i>>) # {}
              /\ Raise
              /\ UNCHANGED <<invocations, at, asked, gaps>>
           \/ /\ Viable(Threat, "undecided", <<i>>) = {}
              /\ \E failed \in SUBSET chosen :
                    /\ Lookup(at, chosen, failed)
                    /\ IF Tolerated(failed)
                       THEN /\ invocations' = [invocations EXCEPT ![at] = Reported(i, Answers(chosen, failed))]
                            /\ at' = at + 1
                            /\ UNCHANGED <<phase, outcome>>
                       ELSE Raise /\ UNCHANGED <<invocations, at>>
    /\ UNCHANGED <<input, event, rule, matches>>

\* The invocations as they were found, which is how the second part sees them.
Unreported ==
    [k \in DOMAIN invocations |->
        [invocations[k] EXCEPT !.known[Threat] = [kind |-> "list", texts |-> {}],
                               !.uncertain = @ \ {Threat}]]

\* Its second part, for the destinations in the input of the tool.
EnrichTool ==
    /\ phase = "enrich" /\ at > Len(invocations)
    /\ LET chosen == Selected(ToolThreat, ToolDestinations, Unreported, event[ToolDestinations])
       IN  \/ /\ Viable(ToolThreat, "undecided", Unreported) # {}
              /\ Raise
              /\ UNCHANGED <<event, asked, gaps>>
           \/ /\ Viable(ToolThreat, "undecided", Unreported) = {}
              /\ \E failed \in SUBSET chosen :
                    /\ Lookup(0, chosen, failed)
                    /\ IF Tolerated(failed)
                       THEN /\ event' = [event EXCEPT ![ToolThreat] = Answers(chosen, failed)]
                            /\ phase' = "match"
                            /\ UNCHANGED outcome
                       ELSE Raise /\ UNCHANGED event
    /\ UNCHANGED <<input, invocations, at, rule, matches>>

\* One turn of the loop of evaluate over the rules.
MatchRule ==
    /\ phase = "match" /\ rule <= Len(policy.rules)
    /\ LET verdict == RuleVerdict(policy.rules[rule], event, invocations)
       IN  IF verdict = "undecided"
           THEN Raise /\ UNCHANGED <<rule, matches>>
           ELSE /\ matches' = IF verdict = "match" THEN matches \cup {rule} ELSE matches
                /\ rule' = rule + 1
                /\ UNCHANGED <<phase, outcome>>
    /\ UNCHANGED <<input, event, invocations, at, asked, gaps>>

\* Mutant: without a denial the first match decides, whatever its action.
PrecedenceFirst(ms) ==
    IF ms = {} THEN policy.default
    ELSE IF \E n \in ms : policy.rules[n].action = "deny" THEN "deny"
    ELSE policy.rules[CHOOSE n \in ms : \A m \in ms : n <= m].action

\* What the matching rules ms decide; audit decides nothing.
Precedence(ms) ==
    IF \E n \in ms : policy.rules[n].action = "deny" THEN "deny"
    ELSE IF \E n \in ms : policy.rules[n].action = "allow" THEN "allow"
    ELSE policy.default

Decide ==
    /\ phase = "match" /\ rule > Len(policy.rules)
    /\ phase' = "done"
    /\ outcome' = Precedence(matches)
    /\ UNCHANGED <<input, event, invocations, at, rule, matches, asked, gaps>>

Next == Observe \/ Start \/ EnrichInvocation \/ EnrichTool \/ MatchRule \/ Decide

Spec == Init /\ [][Next]_vars

-----------------------------------------------------------------------------
(* What the shell may make of the command *)

\* Texts that may be there without being seen: <<invocation, field, text>>.
Unknowns ==
    {u \in (DOMAIN invocations) \X InvocationFields \X Texts :
        /\ u[2] \in invocations[u[1]].uncertain
        /\ u[3] \notin invocations[u[1]].known[u[2]].texts}

\* The invocations with the unseen texts us, and without the arguments that
\* the words ws make of their literal part.
Expanded(us, ws) ==
    [k \in DOMAIN invocations |->
        [invocations[k] EXCEPT !.known =
            [f \in InvocationFields |->
                [kind |-> @[f].kind,
                 texts |-> (@[f].texts \ {t \in Texts : f = Args /\ <<k, t>> \in ws})
                              \cup {t \in Texts : <<k, f, t>> \in us}]]]]

Fragments ==
    {w \in (DOMAIN invocations) \X Texts : w[2] \in invocations[w[1]].fragments}

\* docs/policy-compiler.md: all conditions of a rule, those on processes on one
\* and the same invocation.
Meets(r, e, is) ==
    /\ EventHolds(OnEvent(r.conditions) \cup r.guards, e)
    /\ \A cs \in {OnInvocation(r.conditions), r.spec} :
          cs = {} \/ \E k \in DOMAIN is : AllHoldOn(cs, is[k])

\* docs/policy-compiler.md: any deny wins, then any allow, then the default.
Ruling(ms) ==
    LET actions == {policy.rules[n].action : n \in ms} \ {"audit"}
    IN  IF actions = {} THEN policy.default
        ELSE IF "deny" \in actions THEN "deny" ELSE "allow"

Met(e, is) == {n \in DOMAIN policy.rules : Meets(policy.rules[n], e, is)}

\* The conditions of a rule that ask nothing of the provider.
Plain(r) == {c \in r.conditions : c.field \notin {Threat, ToolThreat}}

-----------------------------------------------------------------------------
(* Properties *)

\* A decision that is returned is the decision for whatever the shell adds to
\* the command (docs/shell-parser.md: a rule that a dynamic value could change
\* fails closed), taken by the precedence of docs/policy-compiler.md.
DecisionExact ==
    (preventive /\ outcome \in {"allow", "deny"})
        => \A us \in SUBSET Unknowns : outcome = Ruling(Met(event, Expanded(us, {})))

\* The provider is asked only about a destination that the gate of a rule
\* selects, and only when all other conditions of that rule hold, whatever the
\* shell adds (docs/threat-intelligence.md); never for what was only observed.
ContactJustified ==
    \A a \in asked :
        /\ preventive /\ mode # "off"
        /\ \E n \in DOMAIN policy.rules :
              LET r == policy.rules[n]
                  plain == OnInvocation(Plain(r))
              IN  /\ \E g \in Gates(r, IF a[1] = 0 THEN ToolDestinations ELSE Destinations) :
                        a[2] \in g.texts
                  /\ EventHolds(OnEvent(Plain(r)), event)
                  /\ \A us \in SUBSET Unknowns :
                        \/ a[1] = 0 /\ plain = {}
                        \/ \E k \in DOMAIN invocations :
                              a[1] \in {0, k} /\ AllHoldOn(plain, Expanded(us, {})[k])

\* A decision rests on every report its rules call for: when the plain
\* conditions of a rule hold on an invocation, the reports on all destinations
\* its gate selects are in the threat fields of that invocation, but for those
\* that failed under failure_mode open.
ReportsComplete ==
    (preventive /\ mode # "off" /\ outcome \in {"allow", "deny"}) =>
        \A k \in DOMAIN invocations, r \in Gated(Threat) :
            (/\ \A c \in r.conditions : c.field # ToolThreat
             /\ EventHolds(OnEvent(r.conditions), event)
             /\ AllHoldOn(OnInvocation(Plain(r)), invocations[k]))
            => \A t \in invocations[k].known[Destinations].texts, g \in Gates(r, Destinations) :
                  t \in g.texts =>
                    \/ Reports[t] \subseteq invocations[k].known[Threat].texts
                    \/ mode = "open" /\ <<k, t>> \in gaps

\* An exception is never about an unrelated command: a required report failed,
\* or some rule holds on the event and on everything certain about one
\* invocation, and asks for something uncertain (docs/shell-parser.md: "A
\* dynamic argument does not automatically deny an unrelated executable").
ErrorsAreRelevant ==
    outcome = "error" =>
        \/ mode = "closed" /\ gaps # {}
        \/ \E n \in DOMAIN policy.rules, k \in DOMAIN invocations :
              LET r == policy.rules[n]
                  i == invocations[k]
              IN  /\ EventHolds(OnEvent(Plain(r)), event)
                  /\ \E cs \in {OnInvocation(r.conditions), r.spec} :
                        /\ \E c \in cs : c.field \in i.uncertain
                        /\ \A c \in cs : c.field \in i.uncertain \cup {Threat} \/ HoldsOn(c, i)

\* docs/shell-parser.md:71: when a dynamic argument could change the result of
\* a rule, evaluation fails closed; so what is allowed is allowed whatever the
\* dynamic arguments become, also those with a literal part that a rule names.
DynamicWordsFailClosed ==
    (preventive /\ outcome = "allow")
        => \A us \in SUBSET Unknowns, ws \in SUBSET Fragments :
              Ruling(Met(event, Expanded(us, ws))) = "allow"
=============================================================================
