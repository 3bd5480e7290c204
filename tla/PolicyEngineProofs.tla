------------------------- MODULE PolicyEngineProofs -------------------------
(***************************************************************************)
(* Proofs about PolicyEngine, for all policies, events and commands: the   *)
(* types, and that a decision which is returned holds whatever the shell   *)
(* adds to the command.  The argument is that an unseen text can begin any *)
(* match but that of HAS_NONE and end no other (HoldsGrows); from it the   *)
(* verdict on one invocation, on all of them and on a rule is exact unless *)
(* it is "undecided", and the loop over the rules collects exact verdicts. *)
(***************************************************************************)
EXTENDS PolicyEngine, TLAPS

\* i as it is, or with unseen texts in its uncertain fields.
Grown(i, j) ==
    \A f \in InvocationFields :
        \/ j.known[f] = i.known[f]
        \/ /\ f \in i.uncertain
           /\ i.known[f].kind = "list" /\ j.known[f].kind = "list"
           /\ i.known[f].texts \subseteq j.known[f].texts

\* A text that was not seen can end a HAS_NONE and begin any other match.
LEMMA HoldsGrows ==
  ASSUME NEW c \in Conditions, NEW i, NEW j, Grown(i, j), c.field \in InvocationFields
  PROVE  /\ HoldsOn(c, i) => HoldsOn(c, j) \/ (c.field \in i.uncertain /\ c.operator = "HAS_NONE")
         /\ HoldsOn(c, j) => \/ HoldsOn(c, i)
                             \/ /\ c.field \in i.uncertain
                                /\ c.operator \notin {"EXISTS", "NOT_EXISTS"}
<1>1. CASE j.known[c.field] = i.known[c.field]
  BY <1>1 DEF HoldsOn, Holds
<1>2. CASE /\ c.field \in i.uncertain
           /\ i.known[c.field].kind = "list" /\ j.known[c.field].kind = "list"
           /\ i.known[c.field].texts \subseteq j.known[c.field].texts
  BY <1>2 DEF HoldsOn, Holds, Conditions, Operators
<1> QED
  BY <1>1, <1>2 DEF Grown

\* The verdict on one invocation is exact unless it is "undecided".
LEMMA TryExact ==
  ASSUME NEW cs \in SUBSET OnInvocation(Conditions), NEW i, NEW j, Grown(i, j)
  PROVE  /\ Try(cs, i) \in {"match", "no", "undecided"}
         /\ Try(cs, i) = "match" => AllHoldOn(cs, j)
         /\ Try(cs, i) = "no" => ~AllHoldOn(cs, j)
<1> DEFINE missed == {c \in cs : ~HoldsOn(c, i)}
<1>1. \A c \in cs : c \in Conditions /\ c.field \in InvocationFields
  BY DEF OnInvocation
<1>2. CASE missed = {}
  <2>1. Try(cs, i) = IF \E c \in cs : c.field \in i.uncertain /\ c.operator = "HAS_NONE"
                     THEN "undecided" ELSE "match"
    BY <1>2 DEF Try
  <2>2. \A c \in cs : HoldsOn(c, i)
    BY <1>2
  <2> QED
    BY <1>1, <2>1, <2>2, HoldsGrows DEF AllHoldOn
<1>3. CASE missed # {}
  <2>1. Try(cs, i) = IF \/ \E c \in missed : c.field \notin i.uncertain
                        \/ \A c \in missed : c.operator \in {"EXISTS", "NOT_EXISTS"}
                     THEN "no" ELSE "undecided"
    BY <1>3 DEF Try
  <2>2. ASSUME Try(cs, i) = "no"
        PROVE  \E c \in missed : c.field \notin i.uncertain \/ c.operator \in {"EXISTS", "NOT_EXISTS"}
    BY <1>3, <2>1, <2>2
  <2>3. \A c \in missed : c \in cs /\ ~HoldsOn(c, i)
    OBVIOUS
  <2>4. Try(cs, i) = "no" => ~AllHoldOn(cs, j)
    <3>1. SUFFICES ASSUME Try(cs, i) = "no" PROVE ~AllHoldOn(cs, j)
      OBVIOUS
    <3>2. PICK c \in missed : c.field \notin i.uncertain \/ c.operator \in {"EXISTS", "NOT_EXISTS"}
      BY <2>2, <3>1
    <3>3. ~HoldsOn(c, j)
      BY <1>1, <2>3, <3>2, HoldsGrows
    <3> QED
      BY <2>3, <3>3 DEF AllHoldOn
  <2> QED
    BY <2>1, <2>4
<1> QED
  BY <1>2, <1>3

\* So is the verdict of the loop over the invocations.
LEMMA TryAllExact ==
  ASSUME NEW cs \in SUBSET OnInvocation(Conditions), NEW is, NEW js,
         DOMAIN js = DOMAIN is, \A k \in DOMAIN is : Grown(is[k], js[k])
  PROVE  /\ TryAll(cs, is) \in {"match", "no", "undecided"}
         /\ TryAll(cs, is) = "match" => \E k \in DOMAIN js : AllHoldOn(cs, js[k])
         /\ TryAll(cs, is) = "no" => \A k \in DOMAIN js : ~AllHoldOn(cs, js[k])
<1>1. \A k \in DOMAIN is : /\ Try(cs, is[k]) = "match" => AllHoldOn(cs, js[k])
                           /\ Try(cs, is[k]) = "no" => ~AllHoldOn(cs, js[k])
  BY TryExact
<1>2. TryAll(cs, is) = "no" => \A k \in DOMAIN is : Try(cs, is[k]) = "no"
  <2>1. \A k \in DOMAIN is : Try(cs, is[k]) \in {"match", "no", "undecided"}
    BY TryExact
  <2> QED
    BY <2>1 DEF TryAll
<1>3. TryAll(cs, is) = "match" => \E k \in DOMAIN is : Try(cs, is[k]) = "match"
  BY DEF TryAll
<1>4. TryAll(cs, is) \in {"match", "no", "undecided"}
  BY DEF TryAll
<1> QED
  BY <1>1, <1>2, <1>3, <1>4

\* And so is that on a rule.
LEMMA RuleExact ==
  ASSUME NEW r \in Rules, NEW e, NEW is, NEW js,
         DOMAIN js = DOMAIN is, \A k \in DOMAIN is : Grown(is[k], js[k])
  PROVE  /\ RuleVerdict(r, e, is) \in {"match", "no", "undecided"}
         /\ RuleVerdict(r, e, is) = "match" => Meets(r, e, js)
         /\ RuleVerdict(r, e, is) = "no" => ~Meets(r, e, js)
<1> DEFINE on == OnInvocation(r.conditions)
<1>1. /\ on \in SUBSET OnInvocation(Conditions)
      /\ r.spec \in SUBSET OnInvocation(Conditions)
  BY DEF Rules, OnInvocation
<1>2. Meets(r, e, js) <=>
        /\ EventHolds(OnEvent(r.conditions), e) /\ EventHolds(r.guards, e)
        /\ on = {} \/ \E k \in DOMAIN js : AllHoldOn(on, js[k])
        /\ r.spec = {} \/ \E k \in DOMAIN js : AllHoldOn(r.spec, js[k])
  BY DEF Meets, EventHolds
<1>3. Compiled(r.conditions, e, is) =
        IF ~EventHolds(OnEvent(r.conditions), e) THEN "no"
        ELSE IF on = {} THEN "match" ELSE TryAll(on, is)
  BY DEF Compiled
<1>4. /\ TryAll(on, is) \in {"match", "no", "undecided"}
      /\ TryAll(on, is) = "match" => \E k \in DOMAIN js : AllHoldOn(on, js[k])
      /\ TryAll(on, is) = "no" => \A k \in DOMAIN js : ~AllHoldOn(on, js[k])
  BY <1>1, TryAllExact
<1>5. /\ TryAll(r.spec, is) \in {"match", "no", "undecided"}
      /\ TryAll(r.spec, is) = "match" => \E k \in DOMAIN js : AllHoldOn(r.spec, js[k])
      /\ TryAll(r.spec, is) = "no" => \A k \in DOMAIN js : ~AllHoldOn(r.spec, js[k])
  BY <1>1, TryAllExact
<1>6. RuleVerdict(r, e, is) =
        IF Compiled(r.conditions, e, is) # "match" THEN Compiled(r.conditions, e, is)
        ELSE IF ~EventHolds(r.guards, e) THEN "no"
        ELSE IF r.spec = {} THEN "match" ELSE TryAll(r.spec, is)
  BY DEF RuleVerdict
<1> HIDE DEF on
<1> QED
  BY <1>2, <1>3, <1>4, <1>5, <1>6

-----------------------------------------------------------------------------
(* The invariant *)

\* What is uncertain is a list, and reports are one.
UncertainAreLists ==
    \A k \in DOMAIN invocations :
        /\ invocations[k].known[Threat].kind = "list"
        /\ \A f \in invocations[k].uncertain : invocations[k].known[f].kind = "list"

\* The rules matched so far are those that hold whatever the shell adds.
MatchesExact ==
    \A us \in SUBSET Unknowns : matches = {n \in Met(event, Expanded(us, {})) : n < rule}

Inv ==
    /\ TypeOK
    /\ UncertainAreLists
    /\ phase # "done" => outcome = "none"
    /\ phase \in {"enrich", "match"} => preventive
    /\ phase \in {"start", "enrich"} => rule = 1 /\ matches = {}
    /\ phase = "match" => MatchesExact
    /\ DecisionExact

LEMMA ExpandedGrows ==
  ASSUME TypeOK, UncertainAreLists, NEW us \in SUBSET Unknowns
  PROVE  /\ DOMAIN Expanded(us, {}) = DOMAIN invocations
         /\ \A k \in DOMAIN invocations : Grown(invocations[k], Expanded(us, {})[k])
<1>1. DOMAIN Expanded(us, {}) = DOMAIN invocations
  BY DEF Expanded
<1>2. ASSUME NEW k \in DOMAIN invocations, NEW f \in InvocationFields
      PROVE  LET i == invocations[k].known[f]
                 j == Expanded(us, {})[k].known[f]
             IN  \/ j = i
                 \/ /\ f \in invocations[k].uncertain
                    /\ i.kind = "list" /\ j.kind = "list" /\ i.texts \subseteq j.texts
  <2> DEFINE i == invocations[k].known[f]
             j == Expanded(us, {})[k].known[f]
             new == {t \in Texts : <<k, f, t>> \in us}
  <2>1. invocations[k] \in Invocations
    BY <1>2 DEF TypeOK
  <2>2. i \in Values /\ i = [kind |-> i.kind, texts |-> i.texts]
    BY <1>2, <2>1 DEF Invocations, Values
  <2>3. j = [kind |-> i.kind, texts |-> i.texts \cup new]
    BY <1>2, <2>1 DEF Expanded, Invocations
  <2>4. CASE f \in invocations[k].uncertain
    <3>1. i.kind = "list"
      BY <1>2, <2>4 DEF UncertainAreLists
    <3>2. j.kind = i.kind /\ i.texts \subseteq j.texts
      <4> HIDE DEF i, j, new
      <4> QED
        BY <2>3
    <3> QED
      BY <2>4, <3>1, <3>2
  <2>5. CASE f \notin invocations[k].uncertain
    <3>1. new = {}
      BY <2>5 DEF Unknowns
    <3>2. j = [kind |-> i.kind, texts |-> i.texts]
      BY <2>3, <3>1
    <3> QED
      BY <2>2, <3>2
  <2> QED
    BY <2>4, <2>5
<1> QED
  BY <1>1, <1>2 DEF Grown

LEMMA InitInv == Init => Inv
<1> SUFFICES ASSUME Init PROVE Inv
  OBVIOUS
<1>1. event \in [EventFields -> Values] /\ invocations \in Seq(Invocations)
  BY EventsAssumption, CommandsAssumption DEF Init
<1>2. Len(invocations) \in Nat /\ Len(policy.rules) \in Nat
  BY <1>1, PoliciesAssumption DEF Init
<1>3. TypeOK
  BY <1>1, <1>2 DEF Init, TypeOK
<1>4. UncertainAreLists
  BY CommandsAssumption DEF Init, UncertainAreLists
<1> QED
  BY <1>3, <1>4 DEF Init, Inv, DecisionExact

\* The reports on some destinations, as a value of a threat field.
LEMMA AnswersType ==
  ASSUME NEW chosen \in SUBSET Texts, NEW failed
  PROVE  Answers(chosen, failed) \in Values /\ Answers(chosen, failed).kind = "list"
<1>1. UNION {Reports[t] : t \in chosen \ failed} \in SUBSET Texts
  BY ReportsAssumption
<1> QED
  BY <1>1 DEF Answers, Values

LEMMA LookupType ==
  ASSUME TypeOK, NEW k \in 0 .. Len(invocations), NEW chosen \in SUBSET Texts,
         NEW failed \in SUBSET chosen, Lookup(k, chosen, failed)
  PROVE  /\ asked' \in SUBSET ((0 .. Len(invocations)) \X Texts)
         /\ gaps' \in SUBSET asked'
BY DEF TypeOK, Lookup

LEMMA EnrichInvocationInv ==
  ASSUME Inv, EnrichInvocation
  PROVE  Inv'
<1> DEFINE i == invocations[at]
           chosen == Selected(Threat, Destinations, <<i>>, i.known[Destinations])
<1>1. /\ TypeOK /\ UncertainAreLists /\ preventive /\ rule = 1 /\ matches = {}
      /\ phase = "enrich" /\ outcome = "none"
      /\ at \in DOMAIN invocations /\ Len(invocations) \in Nat
  BY DEF Inv, EnrichInvocation, TypeOK
<1>2. /\ preventive' = preventive /\ policy' = policy /\ mode' = mode
      /\ event' = event /\ rule' = rule /\ matches' = matches
  BY DEF EnrichInvocation, input
<1>3. i \in Invocations /\ chosen \in SUBSET Texts
  <2>1. i \in Invocations
    BY <1>1 DEF TypeOK
  <2>2. i.known[Destinations] \in Values
    BY <2>1, FieldsAssumption DEF Invocations
  <2>3. i.known[Destinations].texts \subseteq Texts
    BY <2>2 DEF Values
  <2> QED
    BY <2>1, <2>3 DEF Selected
<1>4. CASE Raise /\ UNCHANGED <<invocations, at, asked, gaps>>
  BY <1>1, <1>2, <1>4 DEF Raise, Inv, TypeOK, UncertainAreLists, DecisionExact
<1>5. ASSUME NEW failed \in SUBSET chosen, Lookup(at, chosen, failed),
             Raise, UNCHANGED <<invocations, at>>
      PROVE  Inv'
  <2>1. /\ asked' \in SUBSET ((0 .. Len(invocations)) \X Texts)
        /\ gaps' \in SUBSET asked'
    <3>1. at \in 0 .. Len(invocations)
      BY <1>1
    <3> HIDE DEF chosen
    <3> QED
      BY <1>1, <1>3, <1>5, <3>1, LookupType
  <2> QED
    BY <1>1, <1>2, <1>5, <2>1 DEF Raise, Inv, TypeOK, UncertainAreLists, DecisionExact
<1>6. ASSUME NEW failed \in SUBSET chosen, Lookup(at, chosen, failed),
             invocations' = [invocations EXCEPT ![at] = Reported(i, Answers(chosen, failed))],
             at' = at + 1, UNCHANGED <<phase, outcome>>
      PROVE  Inv'
  <2> DEFINE answers == Answers(chosen, failed)
             new == Reported(i, answers)
  <2>1. answers \in Values /\ answers.kind = "list"
    BY <1>3, AnswersType
  <2>2. /\ new.known = [i.known EXCEPT ![Threat] = answers]
        /\ new.uncertain = IF Destinations \in i.uncertain THEN i.uncertain \cup {Threat} ELSE i.uncertain
        /\ new \in Invocations
    BY <1>3, <2>1, FieldsAssumption DEF Reported, Invocations
  <2>3. /\ DOMAIN invocations' = DOMAIN invocations /\ Len(invocations') = Len(invocations)
        /\ invocations' \in Seq(Invocations)
    BY <1>1, <1>6, <2>2 DEF TypeOK
  <2>4. /\ asked' \in SUBSET ((0 .. Len(invocations)) \X Texts)
        /\ gaps' \in SUBSET asked'
    <3>1. at \in 0 .. Len(invocations)
      BY <1>1
    <3> HIDE DEF chosen
    <3> QED
      BY <1>1, <1>3, <1>6, <3>1, LookupType
  <2>5. TypeOK'
    BY <1>1, <1>2, <1>6, <2>3, <2>4 DEF TypeOK
  <2>6. ASSUME NEW k \in DOMAIN invocations
        PROVE  /\ invocations'[k].known[Threat].kind = "list"
               /\ \A f \in invocations'[k].uncertain : invocations'[k].known[f].kind = "list"
    <3>1. CASE k = at
      <4>1. invocations'[k] = new
        BY <1>1, <1>6, <3>1 DEF TypeOK
      <4>2. \A f \in i.uncertain : i.known[f].kind = "list" /\ f \in InvocationFields
        BY <1>1, <1>3 DEF UncertainAreLists, Invocations
      <4> QED
        BY <1>3, <2>1, <2>2, <4>1, <4>2, FieldsAssumption DEF Invocations
    <3>2. CASE k # at
      BY <1>1, <1>6, <3>2 DEF UncertainAreLists, TypeOK
    <3> QED
      BY <3>1, <3>2
  <2>7. UncertainAreLists'
    BY <2>3, <2>6 DEF UncertainAreLists
  <2> QED
    BY <1>1, <1>2, <1>6, <2>5, <2>7 DEF Inv, DecisionExact
<1> QED
  BY <1>4, <1>5, <1>6 DEF EnrichInvocation

LEMMA EnrichToolInv ==
  ASSUME Inv, EnrichTool
  PROVE  Inv'
<1> DEFINE chosen == Selected(ToolThreat, ToolDestinations, Unreported, event[ToolDestinations])
<1>1. /\ TypeOK /\ UncertainAreLists /\ preventive /\ rule = 1 /\ matches = {}
      /\ phase = "enrich" /\ outcome = "none" /\ Len(invocations) \in Nat
  BY DEF Inv, EnrichTool, TypeOK
<1>2. /\ preventive' = preventive /\ policy' = policy /\ mode' = mode
      /\ invocations' = invocations /\ at' = at /\ rule' = rule /\ matches' = matches
  BY DEF EnrichTool, input
<1>3. chosen \in SUBSET Texts
  <2>1. event[ToolDestinations] \in Values
    BY <1>1, FieldsAssumption DEF TypeOK
  <2>2. event[ToolDestinations].texts \subseteq Texts
    BY <2>1 DEF Values
  <2> QED
    BY <2>2 DEF Selected
<1>4. CASE Raise /\ UNCHANGED <<event, asked, gaps>>
  BY <1>1, <1>2, <1>4 DEF Raise, Inv, TypeOK, UncertainAreLists, DecisionExact
<1>5. ASSUME NEW failed \in SUBSET chosen, Lookup(0, chosen, failed), Raise, UNCHANGED event
      PROVE  Inv'
  <2>1. /\ asked' \in SUBSET ((0 .. Len(invocations)) \X Texts)
        /\ gaps' \in SUBSET asked'
    <3>1. 0 \in 0 .. Len(invocations)
      BY <1>1
    <3> HIDE DEF chosen
    <3> QED
      BY <1>1, <1>3, <1>5, <3>1, LookupType
  <2> QED
    BY <1>1, <1>2, <1>5, <2>1 DEF Raise, Inv, TypeOK, UncertainAreLists, DecisionExact
<1>6. ASSUME NEW failed \in SUBSET chosen, Lookup(0, chosen, failed),
             event' = [event EXCEPT ![ToolThreat] = Answers(chosen, failed)],
             phase' = "match", UNCHANGED outcome
      PROVE  Inv'
  <2>1. /\ asked' \in SUBSET ((0 .. Len(invocations)) \X Texts)
        /\ gaps' \in SUBSET asked'
    <3>1. 0 \in 0 .. Len(invocations)
      BY <1>1
    <3> HIDE DEF chosen
    <3> QED
      BY <1>1, <1>3, <1>6, <3>1, LookupType
  <2>2. event' \in [EventFields -> Values]
    BY <1>1, <1>3, <1>6, AnswersType DEF TypeOK
  <2>3. TypeOK'
    BY <1>1, <1>2, <1>6, <2>1, <2>2 DEF TypeOK
  <2>4. UncertainAreLists'
    BY <1>1, <1>2 DEF UncertainAreLists
  <2>5. MatchesExact'
    BY <1>1, <1>2, PoliciesAssumption DEF MatchesExact, Met, TypeOK
  <2> QED
    BY <1>1, <1>2, <1>6, <2>3, <2>4, <2>5 DEF Inv, DecisionExact
<1> QED
  BY <1>4, <1>5, <1>6 DEF EnrichTool

LEMMA MatchRuleInv ==
  ASSUME Inv, MatchRule
  PROVE  Inv'
<1> DEFINE verdict == RuleVerdict(policy.rules[rule], event, invocations)
<1>1. /\ TypeOK /\ UncertainAreLists /\ preventive /\ MatchesExact
      /\ phase = "match" /\ outcome = "none" /\ rule \in DOMAIN policy.rules
      /\ policy.rules \in Seq(Rules) /\ Len(policy.rules) \in Nat
  BY PoliciesAssumption DEF Inv, MatchRule, TypeOK
<1>2. /\ preventive' = preventive /\ policy' = policy /\ mode' = mode
      /\ event' = event /\ invocations' = invocations /\ at' = at
      /\ asked' = asked /\ gaps' = gaps
  BY DEF MatchRule, input
<1>3. UncertainAreLists'
  BY <1>1, <1>2 DEF UncertainAreLists
<1>4. CASE Raise /\ UNCHANGED <<rule, matches>>
  BY <1>1, <1>2, <1>3, <1>4 DEF Raise, Inv, TypeOK, DecisionExact
<1>5. CASE /\ verdict # "undecided"
           /\ matches' = IF verdict = "match" THEN matches \cup {rule} ELSE matches
           /\ rule' = rule + 1
           /\ UNCHANGED <<phase, outcome>>
  <2>1. TypeOK'
    BY <1>1, <1>2, <1>5 DEF TypeOK
  <2>2. ASSUME NEW us \in SUBSET Unknowns
        PROVE  matches' = {n \in Met(event, Expanded(us, {})) : n < rule'}
    <3> DEFINE js == Expanded(us, {})
    <3>1. rule \in Met(event, js) <=> verdict = "match"
      <4>1. /\ DOMAIN js = DOMAIN invocations
            /\ \A k \in DOMAIN invocations : Grown(invocations[k], js[k])
        BY <1>1, <2>2, ExpandedGrows
      <4>2. policy.rules[rule] \in Rules
        BY <1>1
      <4>3. /\ verdict \in {"match", "no", "undecided"}
            /\ verdict = "match" => Meets(policy.rules[rule], event, js)
            /\ verdict = "no" => ~Meets(policy.rules[rule], event, js)
        BY <4>1, <4>2, RuleExact
      <4> HIDE DEF verdict, js
      <4> QED
        BY <1>1, <1>5, <4>3 DEF Met
    <3>2. matches = {n \in Met(event, js) : n < rule}
      BY <1>1, <2>2 DEF MatchesExact
    <3>3. Met(event, js) \subseteq Nat /\ rule \in Nat
      BY <1>1 DEF Met
    <3>4. /\ matches' = IF verdict = "match" THEN matches \cup {rule} ELSE matches
          /\ rule' = rule + 1
      BY <1>5
    <3> HIDE DEF verdict
    <3> QED
      BY <3>1, <3>2, <3>3, <3>4
  <2>3. MatchesExact'
    <3>1. Unknowns' = Unknowns
      BY <1>2 DEF Unknowns
    <3>2. \A us : Met(event, Expanded(us, {}))' = Met(event, Expanded(us, {}))
      BY <1>2 DEF Met, Expanded
    <3> QED
      BY <2>2, <3>1, <3>2 DEF MatchesExact
  <2> QED
    BY <1>1, <1>2, <1>3, <1>5, <2>1, <2>3 DEF Inv, DecisionExact
<1> QED
  BY <1>4, <1>5 DEF MatchRule

LEMMA DecideInv ==
  ASSUME Inv, Decide
  PROVE  Inv'
<1>1. /\ TypeOK /\ UncertainAreLists /\ preventive /\ MatchesExact
      /\ phase = "match" /\ outcome = "none" /\ rule > Len(policy.rules)
      /\ policy \in Policies /\ policy.rules \in Seq(Rules) /\ policy.default \in {"allow", "deny"}
  BY PoliciesAssumption DEF Inv, Decide, TypeOK
<1>2. /\ preventive' = preventive /\ policy' = policy /\ mode' = mode
      /\ event' = event /\ invocations' = invocations /\ at' = at /\ rule' = rule
      /\ matches' = matches /\ asked' = asked /\ gaps' = gaps
      /\ phase' = "done" /\ outcome' = Precedence(matches)
  BY DEF Decide, input
<1>3. \A n \in matches : policy.rules[n].action \in {"allow", "deny", "audit"}
  <2>1. \A n \in matches : policy.rules[n] \in Rules
    BY <1>1 DEF TypeOK
  <2> QED
    BY <2>1 DEF Rules
<1>4. Precedence(matches) = Ruling(matches) /\ Precedence(matches) \in {"allow", "deny"}
  BY <1>1, <1>3 DEF Precedence, Ruling
<1>5. TypeOK' /\ UncertainAreLists'
  BY <1>1, <1>2, <1>4 DEF TypeOK, UncertainAreLists
<1>6. ASSUME NEW us \in SUBSET Unknowns
      PROVE  matches = Met(event, Expanded(us, {}))
  <2>1. matches = {n \in Met(event, Expanded(us, {})) : n < rule}
    BY <1>1, <1>6 DEF MatchesExact
  <2>2. \A n \in Met(event, Expanded(us, {})) : n \in 1 .. Len(policy.rules)
    BY <1>1 DEF Met
  <2>3. \A n \in 1 .. Len(policy.rules) : n < rule
    BY <1>1 DEF TypeOK
  <2> QED
    BY <2>1, <2>2, <2>3
<1>7. DecisionExact'
  <2>1. Unknowns' = Unknowns
    BY <1>2 DEF Unknowns
  <2>2. \A us : Ruling(Met(event, Expanded(us, {})))' = Ruling(Met(event, Expanded(us, {})))
    BY <1>2 DEF Met, Expanded, Ruling
  <2>3. \A us \in SUBSET Unknowns : outcome' = Ruling(Met(event, Expanded(us, {})))
    BY <1>2, <1>4, <1>6
  <2> QED
    BY <2>1, <2>2, <2>3 DEF DecisionExact
<1> QED
  BY <1>1, <1>2, <1>5, <1>7 DEF Inv

LEMMA NextInv == Inv /\ [Next]_vars => Inv'
<1> SUFFICES ASSUME Inv, [Next]_vars PROVE Inv'
  OBVIOUS
<1>1. CASE Observe
  BY <1>1 DEF Observe, input, Inv, TypeOK, UncertainAreLists, DecisionExact
<1>2. CASE Start
  <2>1. TypeOK' /\ UncertainAreLists'
    BY <1>2 DEF Start, input, Inv, TypeOK, UncertainAreLists
  <2>2. MatchesExact'
    BY <1>2, PoliciesAssumption DEF Start, input, Inv, TypeOK, MatchesExact, Met
  <2> QED
    BY <1>2, <2>1, <2>2 DEF Start, input, Inv, DecisionExact
<1>3. CASE EnrichInvocation
  BY <1>3, EnrichInvocationInv
<1>4. CASE EnrichTool
  BY <1>4, EnrichToolInv
<1>5. CASE MatchRule
  BY <1>5, MatchRuleInv
<1>6. CASE Decide
  BY <1>6, DecideInv
<1>7. CASE UNCHANGED vars
  <2>1. \A us : Ruling(Met(event, Expanded(us, {})))' = Ruling(Met(event, Expanded(us, {})))
    BY <1>7 DEF vars, Met, Expanded, Ruling
  <2>2. \A us : Met(event, Expanded(us, {}))' = Met(event, Expanded(us, {}))
    BY <1>7 DEF vars, Met, Expanded
  <2>3. Unknowns' = Unknowns
    BY <1>7 DEF vars, Unknowns
  <2> QED
    BY <1>7, <2>1, <2>2, <2>3 DEF vars, Inv, TypeOK, UncertainAreLists, MatchesExact, DecisionExact
<1> QED
  BY <1>1, <1>2, <1>3, <1>4, <1>5, <1>6, <1>7 DEF Next

THEOREM Invariance == Spec => []Inv
BY InitInv, NextInv, PTL DEF Spec

\* Every reachable state is well typed: evaluation ends with a decision that
\* main knows, whatever the rules, or with an exception.
THEOREM TypeCorrect == Spec => []TypeOK
<1>1. Inv => TypeOK
  BY DEF Inv
<1> QED
  BY <1>1, Invariance, PTL

\* A decision that evaluate returns is the documented one for every command
\* that the shell may make of the words whose values the hook cannot see.
THEOREM DecisionsAreExact == Spec => []DecisionExact
<1>1. Inv => DecisionExact
  BY DEF Inv
<1> QED
  BY <1>1, Invariance, PTL

-----------------------------------------------------------------------------
(* Exceptions *)

\* What makes an exception relevant to rule r and invocation i.
Doubtful(r, i) ==
    /\ EventHolds(OnEvent(Plain(r)), event)
    /\ \E cs \in {OnInvocation(r.conditions), r.spec} :
          /\ \E c \in cs : c.field \in i.uncertain
          /\ \A c \in cs : c.field \in i.uncertain \cup {Threat} \/ HoldsOn(c, i)

LEMMA TryUndecided ==
  ASSUME NEW cs, NEW i, Try(cs, i) = "undecided"
  PROVE  /\ \E c \in cs : c.field \in i.uncertain
         /\ \A c \in cs : c.field \in i.uncertain \/ HoldsOn(c, i)
<1> DEFINE missed == {c \in cs : ~HoldsOn(c, i)}
<1>1. CASE missed = {}
  <2>1. \E c \in cs : c.field \in i.uncertain
    BY <1>1 DEF Try
  <2> QED
    BY <1>1, <2>1
<1>2. CASE missed # {}
  <2>1. \A c \in missed : c.field \in i.uncertain
    BY <1>2 DEF Try
  <2> QED
    BY <1>2, <2>1
<1> QED
  BY <1>1, <1>2

LEMMA CompiledUndecided ==
  ASSUME NEW cs, NEW e, NEW is, Compiled(cs, e, is) = "undecided"
  PROVE  /\ EventHolds(OnEvent(cs), e)
         /\ \E k \in DOMAIN is : Try(OnInvocation(cs), is[k]) = "undecided"
BY DEF Compiled, TryAll

\* A gated rule that is undecided without its threat conditions is doubtful.
LEMMA ViableDoubtful ==
  ASSUME NEW threat \in {Threat, ToolThreat}, NEW is, NEW r \in Viable(threat, "undecided", is)
  PROVE  /\ \E n \in DOMAIN policy.rules : r = policy.rules[n]
         /\ \E k \in DOMAIN is : Doubtful(r, is[k])
<1>1. /\ \E n \in DOMAIN policy.rules : r = policy.rules[n]
      /\ Compiled(Without(r, threat), event, is) = "undecided"
  BY DEF Viable, Gated
<1>2. PICK k \in DOMAIN is : Try(OnInvocation(Without(r, threat)), is[k]) = "undecided"
  BY <1>1, CompiledUndecided
<1>3. /\ \E c \in OnInvocation(Without(r, threat)) : c.field \in is[k].uncertain
      /\ \A c \in OnInvocation(Without(r, threat)) :
            c.field \in is[k].uncertain \/ HoldsOn(c, is[k])
  BY <1>2, TryUndecided
<1>4. EventHolds(OnEvent(Plain(r)), event)
  BY <1>1, CompiledUndecided DEF EventHolds, OnEvent, Plain, Without
<1>5. /\ \E c \in OnInvocation(r.conditions) : c.field \in is[k].uncertain
      /\ \A c \in OnInvocation(r.conditions) :
            c.field \in is[k].uncertain \cup {Threat} \/ HoldsOn(c, is[k])
  BY <1>3, FieldsAssumption DEF OnInvocation, Without
<1>6. Doubtful(r, is[k])
  BY <1>4, <1>5 DEF Doubtful
<1> QED
  BY <1>1, <1>6

\* So is a rule that is undecided in the end.
LEMMA RuleDoubtful ==
  ASSUME NEW r, NEW is, RuleVerdict(r, event, is) = "undecided"
  PROVE  \E k \in DOMAIN is : Doubtful(r, is[k])
<1>1. EventHolds(OnEvent(Plain(r)), event)
  <2>1. EventHolds(OnEvent(r.conditions), event)
    BY DEF RuleVerdict, Compiled
  <2> QED
    BY <2>1 DEF EventHolds, OnEvent, Plain
<1>2. \E k \in DOMAIN is : \E cs \in {OnInvocation(r.conditions), r.spec} :
        Try(cs, is[k]) = "undecided"
  <2>1. CASE Compiled(r.conditions, event, is) = "undecided"
    BY <2>1, CompiledUndecided
  <2>2. CASE Compiled(r.conditions, event, is) # "undecided"
    BY <2>2 DEF RuleVerdict, TryAll
  <2> QED
    BY <2>1, <2>2
<1>3. PICK k \in DOMAIN is, cs \in {OnInvocation(r.conditions), r.spec} :
        Try(cs, is[k]) = "undecided"
  BY <1>2
<1>4. /\ \E c \in cs : c.field \in is[k].uncertain
      /\ \A c \in cs : c.field \in is[k].uncertain \/ HoldsOn(c, is[k])
  BY <1>3, TryUndecided
<1>5. Doubtful(r, is[k])
  BY <1>1, <1>4 DEF Doubtful
<1> QED
  BY <1>5

\* Without its reports an invocation is as it was in all other fields.
LEMMA UnreportedFacts ==
  ASSUME TypeOK, NEW k \in DOMAIN invocations
  PROVE  /\ DOMAIN Unreported = DOMAIN invocations
         /\ \A f \in InvocationFields \ {Threat} :
               Unreported[k].known[f] = invocations[k].known[f]
         /\ Unreported[k].uncertain = invocations[k].uncertain \ {Threat}
<1>1. invocations[k] \in Invocations
  BY DEF TypeOK
<1> QED
  BY <1>1, FieldsAssumption DEF Unreported, Invocations

\* So a doubt without reports is one with them.
LEMMA UnreportedDoubtful ==
  ASSUME TypeOK, NEW n \in DOMAIN policy.rules, NEW k \in DOMAIN invocations,
         Doubtful(policy.rules[n], Unreported[k])
  PROVE  Doubtful(policy.rules[n], invocations[k])
<1>1. PICK cs \in {OnInvocation(policy.rules[n].conditions), policy.rules[n].spec} :
        /\ \E c \in cs : c.field \in Unreported[k].uncertain
        /\ \A c \in cs : c.field \in Unreported[k].uncertain \cup {Threat} \/ HoldsOn(c, Unreported[k])
  BY DEF Doubtful
<1>2. policy.rules[n] \in Rules
  BY PoliciesAssumption DEF TypeOK
<1>3. \A c \in cs : c.field \in InvocationFields
  BY <1>2 DEF Rules, OnInvocation
<1>4. \A c \in cs : c.field \in invocations[k].uncertain \cup {Threat} \/ HoldsOn(c, invocations[k])
  BY <1>1, <1>3, UnreportedFacts DEF HoldsOn
<1>5. \E c \in cs : c.field \in invocations[k].uncertain
  BY <1>1, UnreportedFacts
<1> QED
  BY <1>4, <1>5 DEF Doubtful

\* A doubt or a failure is behind every exception.
Relevant ==
    outcome = "error" =>
        \/ mode = "closed" /\ gaps # {}
        \/ \E n \in DOMAIN policy.rules, k \in DOMAIN invocations :
              Doubtful(policy.rules[n], invocations[k])

\* Enrichment runs with a provider.
ErrInv ==
    /\ Inv
    /\ phase = "enrich" => mode # "off"
    /\ Relevant

LEMMA DoubtKept ==
  ASSUME UNCHANGED <<policy, event, invocations>>,
         NEW r, NEW k \in DOMAIN invocations, Doubtful(r, invocations[k])
  PROVE  (Doubtful(r, invocations[k]))'
BY DEF Doubtful, EventHolds, OnEvent, Plain, HoldsOn

LEMMA ErrNext == ErrInv /\ [Next]_vars => ErrInv'
<1> SUFFICES ASSUME ErrInv, [Next]_vars PROVE ErrInv'
  OBVIOUS
<1>1. Inv /\ Inv' /\ TypeOK
  BY NextInv DEF ErrInv, Inv
<1>2. CASE outcome' # "error"
  <2>1. (phase = "enrich" => mode # "off")'
    BY <1>1, <1>2 DEF ErrInv, Next, vars, input, Observe, Start, EnrichInvocation, EnrichTool,
                      MatchRule, Decide, Raise
  <2> QED
    BY <1>1, <1>2, <2>1 DEF ErrInv, Relevant
<1>3. CASE UNCHANGED vars
  <2>1. Relevant'
    BY <1>3, DoubtKept DEF ErrInv, vars, Relevant
  <2> QED
    BY <1>1, <1>3, <2>1 DEF ErrInv, vars
<1>4. CASE outcome' = "error" /\ EnrichInvocation
  <2> DEFINE i == invocations[at]
  <2>1. /\ phase = "enrich" /\ outcome = "none" /\ at \in DOMAIN invocations
        /\ mode # "off" /\ mode' = mode /\ policy' = policy /\ event' = event
    BY <1>1, <1>4 DEF ErrInv, Inv, TypeOK, EnrichInvocation, input
  <2>2. phase' = "done" /\ invocations' = invocations
    BY <1>4, <2>1 DEF EnrichInvocation, Raise
  <2>3. CASE Viable(Threat, "undecided", <<i>>) # {}
    <3>1. PICK r \in Viable(Threat, "undecided", <<i>>) : TRUE
      BY <2>3
    <3>2. /\ \E n \in DOMAIN policy.rules : r = policy.rules[n]
          /\ \E k \in DOMAIN <<i>> : Doubtful(r, <<i>>[k])
      BY <3>1, ViableDoubtful
    <3>3. Doubtful(r, invocations[at])
      BY <3>2
    <3> QED
      BY <1>1, <2>1, <2>2, <3>2, <3>3, DoubtKept DEF ErrInv, Relevant
  <2>4. CASE Viable(Threat, "undecided", <<i>>) = {}
    <3>1. PICK failed \in SUBSET Selected(Threat, Destinations, <<i>>, i.known[Destinations]) :
            Lookup(at, Selected(Threat, Destinations, <<i>>, i.known[Destinations]), failed) /\ ~Tolerated(failed)
      BY <1>4, <2>1, <2>4 DEF EnrichInvocation
    <3>2. mode = "closed" /\ failed # {}
      BY <1>1, <2>1, <3>1 DEF Tolerated, TypeOK
    <3>3. gaps' # {}
      <4>1. PICK t \in failed : TRUE
        BY <3>2
      <4>2. <<at, t>> \in gaps'
        BY <3>1, <4>1 DEF Lookup
      <4> QED
        BY <4>2
    <3> QED
      BY <1>1, <2>1, <2>2, <3>2, <3>3 DEF ErrInv, Relevant
  <2> QED
    BY <2>3, <2>4
<1>5. CASE outcome' = "error" /\ EnrichTool
  <2>1. /\ phase = "enrich" /\ outcome = "none" /\ invocations' = invocations
        /\ mode # "off" /\ mode' = mode /\ policy' = policy
    BY <1>1, <1>5 DEF ErrInv, Inv, EnrichTool, input
  <2>2. phase' = "done" /\ event' = event
    BY <1>5, <2>1 DEF EnrichTool, Raise
  <2>3. CASE Viable(ToolThreat, "undecided", Unreported) # {}
    <3>1. PICK r \in Viable(ToolThreat, "undecided", Unreported) : TRUE
      BY <2>3
    <3>2. /\ \E n \in DOMAIN policy.rules : r = policy.rules[n]
          /\ \E k \in DOMAIN Unreported : Doubtful(r, Unreported[k])
      BY <3>1, ViableDoubtful
    <3>3. PICK n \in DOMAIN policy.rules, k \in DOMAIN invocations :
            Doubtful(policy.rules[n], Unreported[k])
      BY <3>2 DEF Unreported
    <3>4. Doubtful(policy.rules[n], invocations[k])
      BY <1>1, <3>3, UnreportedDoubtful
    <3> QED
      BY <1>1, <2>1, <2>2, <3>4, DoubtKept DEF ErrInv, Relevant
  <2>4. CASE Viable(ToolThreat, "undecided", Unreported) = {}
    <3>1. PICK failed \in SUBSET Selected(ToolThreat, ToolDestinations, Unreported, event[ToolDestinations]) :
            Lookup(0, Selected(ToolThreat, ToolDestinations, Unreported, event[ToolDestinations]), failed) /\ ~Tolerated(failed)
      BY <1>5, <2>1, <2>4 DEF EnrichTool
    <3>2. mode = "closed" /\ failed # {}
      BY <1>1, <2>1, <3>1 DEF Tolerated, TypeOK
    <3>3. gaps' # {}
      <4>1. PICK t \in failed : TRUE
        BY <3>2
      <4>2. <<0, t>> \in gaps'
        BY <3>1, <4>1 DEF Lookup
      <4> QED
        BY <4>2
    <3> QED
      BY <1>1, <2>1, <2>2, <3>2, <3>3 DEF ErrInv, Relevant
  <2> QED
    BY <2>3, <2>4
<1>6. CASE outcome' = "error" /\ MatchRule
  <2>1. /\ outcome = "none" /\ rule \in DOMAIN policy.rules
        /\ UNCHANGED <<policy, event, invocations>>
    BY <1>1, <1>6, PoliciesAssumption DEF Inv, TypeOK, MatchRule, input
  <2>2. phase' = "done" /\ RuleVerdict(policy.rules[rule], event, invocations) = "undecided"
    BY <1>6, <2>1 DEF MatchRule, Raise
  <2>3. PICK k \in DOMAIN invocations : Doubtful(policy.rules[rule], invocations[k])
    BY <2>2, RuleDoubtful
  <2> QED
    BY <1>1, <2>1, <2>2, <2>3, DoubtKept DEF ErrInv, Relevant
<1>7. CASE outcome' = "error" /\ Decide
  BY <1>1, <1>7, PoliciesAssumption DEF Decide, Inv, Precedence, TypeOK, Rules
<1>8. CASE outcome' = "error" /\ (Observe \/ Start)
  BY <1>1, <1>8 DEF Observe, Start, Inv
<1> QED
  BY <1>2, <1>3, <1>4, <1>5, <1>6, <1>7, <1>8 DEF Next

\* An exception is never about an unrelated command: a required report failed,
\* or a rule holds but for something uncertain that it asks for.
THEOREM ExceptionsAreRelevant == Spec => []ErrorsAreRelevant
<1>1. Init => ErrInv
  BY InitInv DEF Init, ErrInv, Relevant
<1>2. ErrInv => ErrorsAreRelevant
  BY DEF ErrInv, Relevant, Doubtful, ErrorsAreRelevant
<1> QED
  BY <1>1, <1>2, ErrNext, PTL DEF Spec

-----------------------------------------------------------------------------
(* Contacts and reports *)

\* Conditions that hold on an invocation whatever its unseen texts are.
Sure(cs, i) ==
    \A c \in cs : HoldsOn(c, i) /\ ~(c.field \in i.uncertain /\ c.operator = "HAS_NONE")

\* A rule on account of which t is looked up for invocation k, or for the tool.
Calls(r, k, t) ==
    /\ \E g \in Gates(r, IF k = 0 THEN ToolDestinations ELSE Destinations) : t \in g.texts
    /\ EventHolds(OnEvent(Plain(r)), event)
    /\ \/ k = 0 /\ OnInvocation(Plain(r)) = {}
       \/ \E j \in DOMAIN invocations :
             k \in {0, j} /\ Sure(OnInvocation(Plain(r)), invocations[j])

\* The reports that rule r calls for are in the threat fields of invocation k.
Complete(r, k) ==
    (/\ \A c \in r.conditions : c.field # ToolThreat
     /\ EventHolds(OnEvent(r.conditions), event)
     /\ AllHoldOn(OnInvocation(Plain(r)), invocations[k]))
    => \A t \in invocations[k].known[Destinations].texts, g \in Gates(r, Destinations) :
          t \in g.texts =>
            \/ Reports[t] \subseteq invocations[k].known[Threat].texts
            \/ mode = "open" /\ <<k, t>> \in gaps

LookupInv ==
    /\ Inv
    /\ \A a \in asked :
          /\ preventive /\ mode # "off"
          /\ \E n \in DOMAIN policy.rules : Calls(policy.rules[n], a[1], a[2])
    /\ phase = "enrich" => mode # "off"
    /\ \A k \in DOMAIN invocations : k < at => \A r \in Gated(Threat) : Complete(r, k)
    /\ (phase = "match" \/ outcome \in {"allow", "deny"})
          => (preventive /\ mode # "off" => at > Len(invocations))

LEMMA TrySure ==
  ASSUME NEW cs, NEW i, Try(cs, i) = "match"
  PROVE  Sure(cs, i)
<1> DEFINE missed == {c \in cs : ~HoldsOn(c, i)}
<1>1. missed = {}
  BY DEF Try
<1> QED
  BY <1>1 DEF Try, Sure

LEMMA TryHolds ==
  ASSUME NEW cs, NEW i, AllHoldOn(cs, i)
  PROVE  Try(cs, i) \in {"match", "undecided"}
<1>1. {c \in cs : ~HoldsOn(c, i)} = {}
  BY DEF AllHoldOn
<1> QED
  BY <1>1 DEF Try

LEMMA SureGrows ==
  ASSUME NEW cs \in SUBSET OnInvocation(Conditions), NEW i, NEW j, Sure(cs, i), Grown(i, j)
  PROVE  AllHoldOn(cs, j)
<1>1. \A c \in cs : c \in Conditions /\ c.field \in InvocationFields
  BY DEF OnInvocation
<1> QED
  BY <1>1, HoldsGrows DEF Sure, AllHoldOn

\* A viable rule calls for what its gate selects.
LEMMA ViableCalls ==
  ASSUME NEW threat \in {Threat, ToolThreat}, NEW is, NEW r \in Viable(threat, "match", is)
  PROVE  /\ \E n \in DOMAIN policy.rules : r = policy.rules[n]
         /\ EventHolds(OnEvent(Plain(r)), event)
         /\ \/ OnInvocation(Plain(r)) = {}
            \/ \E j \in DOMAIN is : Sure(OnInvocation(Plain(r)), is[j])
<1>1. /\ \E n \in DOMAIN policy.rules : r = policy.rules[n]
      /\ Compiled(Without(r, threat), event, is) = "match"
  BY DEF Viable, Gated
<1>2. EventHolds(OnEvent(Without(r, threat)), event)
  BY <1>1 DEF Compiled
<1>3. EventHolds(OnEvent(Plain(r)), event)
  BY <1>2 DEF EventHolds, OnEvent, Plain, Without
<1>4. OnInvocation(Plain(r)) \subseteq OnInvocation(Without(r, threat))
  BY DEF OnInvocation, Plain, Without
<1>5. CASE OnInvocation(Without(r, threat)) = {}
  BY <1>1, <1>3, <1>4, <1>5
<1>6. CASE OnInvocation(Without(r, threat)) # {}
  <2>1. TryAll(OnInvocation(Without(r, threat)), is) = "match"
    BY <1>1, <1>2, <1>6 DEF Compiled
  <2>2. PICK j \in DOMAIN is : Try(OnInvocation(Without(r, threat)), is[j]) = "match"
    BY <2>1 DEF TryAll
  <2>3. Sure(OnInvocation(Without(r, threat)), is[j])
    BY <2>2, TrySure
  <2>4. Sure(OnInvocation(Plain(r)), is[j])
    BY <1>4, <2>3 DEF Sure
  <2> QED
    BY <1>1, <1>3, <2>4
<1> QED
  BY <1>5, <1>6

\* What a report leaves alone.
LEMMA ReportedFacts ==
  ASSUME NEW i \in Invocations, NEW answers
  PROVE  /\ \A f \in InvocationFields \ {Threat} :
               /\ Reported(i, answers).known[f] = i.known[f]
               /\ f \in Reported(i, answers).uncertain <=> f \in i.uncertain
         /\ Reported(i, answers).known[Threat] = answers
BY FieldsAssumption DEF Reported, Invocations

\* Calls and complete reports last while known values other than threats do.
LEMMA CallsKept ==
  ASSUME policy' = policy, DOMAIN invocations' = DOMAIN invocations,
         \A f \in EventFields \ {ToolThreat} : event'[f] = event[f],
         \A k \in DOMAIN invocations, f \in InvocationFields \ {Threat} :
            /\ invocations'[k].known[f] = invocations[k].known[f]
            /\ f \in invocations'[k].uncertain <=> f \in invocations[k].uncertain,
         NEW r, NEW k, NEW t, Calls(r, k, t)
  PROVE  Calls(r, k, t)'
<1>1. \A c \in OnEvent(Plain(r)) : c.field \in EventFields \ {ToolThreat}
  BY DEF OnEvent, Plain
<1>2. \A c \in OnInvocation(Plain(r)) : c.field \in InvocationFields \ {Threat}
  BY DEF OnInvocation, Plain
<1>3. EventHolds(OnEvent(Plain(r)), event')
  BY <1>1 DEF Calls, EventHolds
<1>4. \A j \in DOMAIN invocations :
        Sure(OnInvocation(Plain(r)), invocations[j]) => Sure(OnInvocation(Plain(r)), invocations'[j])
  BY <1>2 DEF Sure, HoldsOn
<1> QED
  BY <1>3, <1>4 DEF Calls

LEMMA CompleteKept ==
  ASSUME policy' = policy, mode' = mode, gaps \subseteq gaps',
         \A f \in EventFields \ {ToolThreat} : event'[f] = event[f],
         NEW k, invocations'[k] = invocations[k],
         NEW r, Complete(r, k)
  PROVE  Complete(r, k)'
<1>1. ASSUME \A c \in r.conditions : c.field # ToolThreat, EventHolds(OnEvent(r.conditions), event')
      PROVE  EventHolds(OnEvent(r.conditions), event)
  BY <1>1 DEF EventHolds, OnEvent
<1> QED
  BY <1>1 DEF Complete

LEMMA LookupEnrichInvocation ==
  ASSUME LookupInv, EnrichInvocation
  PROVE  LookupInv'
<1> DEFINE i == invocations[at]
           chosen == Selected(Threat, Destinations, <<i>>, i.known[Destinations])
<1>1. /\ Inv /\ Inv' /\ TypeOK /\ preventive /\ mode # "off" /\ phase = "enrich" /\ outcome = "none"
      /\ at \in DOMAIN invocations /\ i \in Invocations
  BY NextInv DEF LookupInv, Inv, TypeOK, EnrichInvocation, Next
<1>2. /\ policy' = policy /\ event' = event /\ mode' = mode /\ preventive' = preventive
  BY DEF EnrichInvocation, input
<1>3. Gated(Threat)' = Gated(Threat)
  BY <1>2 DEF Gated
<1>4. ASSUME NEW r \in Viable(Threat, "match", <<i>>), NEW t \in chosen,
             NEW g \in Gates(r, Destinations), t \in g.texts
      PROVE  \E n \in DOMAIN policy.rules : Calls(policy.rules[n], at, t)
  <2>1. /\ \E n \in DOMAIN policy.rules : r = policy.rules[n]
        /\ EventHolds(OnEvent(Plain(r)), event)
        /\ \/ OnInvocation(Plain(r)) = {}
           \/ \E j \in DOMAIN <<i>> : Sure(OnInvocation(Plain(r)), <<i>>[j])
    BY <1>4, ViableCalls
  <2>2. Sure(OnInvocation(Plain(r)), i)
    BY <2>1 DEF Sure
  <2>3. at # 0
    BY <1>1 DEF TypeOK
  <2>4. Calls(r, at, t)
    BY <1>1, <1>4, <2>1, <2>2, <2>3 DEF Calls
  <2> QED
    BY <2>1, <2>4
<1>5. \A t \in chosen : \E n \in DOMAIN policy.rules : Calls(policy.rules[n], at, t)
  BY <1>4 DEF Selected
<1>6. CASE Raise /\ UNCHANGED <<invocations, at, asked, gaps>>
  <2>1. \A n \in DOMAIN policy.rules : \A k, t : Calls(policy.rules[n], k, t) => Calls(policy.rules[n], k, t)'
    BY <1>2, <1>6, CallsKept
  <2>2. \A k, r : Complete(r, k) => Complete(r, k)'
    BY <1>2, <1>6, CompleteKept
  <2> QED
    BY <1>1, <1>2, <1>3, <1>6, <2>1, <2>2 DEF LookupInv, Raise
<1>7. ASSUME NEW failed \in SUBSET chosen, Lookup(at, chosen, failed),
             Raise, UNCHANGED <<invocations, at>>
      PROVE  LookupInv'
  <2>1. \A n \in DOMAIN policy.rules : \A k, t : Calls(policy.rules[n], k, t) => Calls(policy.rules[n], k, t)'
    BY <1>2, <1>7, CallsKept
  <2>2. \A k, r : Complete(r, k) => Complete(r, k)'
    BY <1>2, <1>7, CompleteKept DEF Lookup
  <2>3. \A a \in asked' : \E n \in DOMAIN policy.rules : Calls(policy.rules[n], a[1], a[2])'
    BY <1>5, <1>7, <2>1 DEF LookupInv, Lookup
  <2> QED
    BY <1>1, <1>2, <1>3, <1>7, <2>2, <2>3 DEF LookupInv, Raise
<1>8. ASSUME NEW failed \in SUBSET chosen, Lookup(at, chosen, failed), Tolerated(failed),
             Viable(Threat, "undecided", <<i>>) = {},
             invocations' = [invocations EXCEPT ![at] = Reported(i, Answers(chosen, failed))],
             at' = at + 1, UNCHANGED <<phase, outcome>>
      PROVE  LookupInv'
  <2> DEFINE new == Reported(i, Answers(chosen, failed))
  <2>1. /\ DOMAIN invocations' = DOMAIN invocations /\ invocations'[at] = new
        /\ \A k \in DOMAIN invocations : k # at => invocations'[k] = invocations[k]
    BY <1>1, <1>8 DEF TypeOK
  <2>2. /\ \A f \in InvocationFields \ {Threat} :
              new.known[f] = i.known[f] /\ (f \in new.uncertain <=> f \in i.uncertain)
        /\ new.known[Threat] = Answers(chosen, failed)
    BY <1>1, ReportedFacts
  <2>3. \A n \in DOMAIN policy.rules : \A k, t : Calls(policy.rules[n], k, t) => Calls(policy.rules[n], k, t)'
    <3>1. \A k \in DOMAIN invocations, f \in InvocationFields \ {Threat} :
            /\ invocations'[k].known[f] = invocations[k].known[f]
            /\ f \in invocations'[k].uncertain <=> f \in invocations[k].uncertain
      BY <2>1, <2>2
    <3> QED
      BY <1>2, <2>1, <3>1, CallsKept
  <2>4. \A a \in asked' : \E n \in DOMAIN policy.rules : Calls(policy.rules[n], a[1], a[2])'
    BY <1>5, <1>8, <2>3 DEF LookupInv, Lookup
  <2>5. ASSUME NEW k \in DOMAIN invocations, k = at, NEW r \in Gated(Threat)
        PROVE  Complete(r, k)'
    <3>1. SUFFICES ASSUME \A c \in r.conditions : c.field # ToolThreat,
                          EventHolds(OnEvent(r.conditions), event),
                          AllHoldOn(OnInvocation(Plain(r)), new),
                          NEW t \in new.known[Destinations].texts,
                          NEW g \in Gates(r, Destinations), t \in g.texts
                   PROVE  \/ Reports[t] \subseteq new.known[Threat].texts
                          \/ mode' = "open" /\ <<k, t>> \in gaps'
      BY <1>2, <2>1, <2>5 DEF Complete
    <3>2. AllHoldOn(OnInvocation(Without(r, Threat)), i)
      <4>1. OnInvocation(Without(r, Threat)) = OnInvocation(Plain(r))
        BY <3>1 DEF OnInvocation, Plain, Without
      <4>2. \A c \in OnInvocation(Plain(r)) : c.field \in InvocationFields \ {Threat}
        BY DEF OnInvocation, Plain
      <4> QED
        BY <2>2, <3>1, <4>1, <4>2 DEF AllHoldOn, HoldsOn
    <3>3. Compiled(Without(r, Threat), event, <<i>>) \in {"match", "undecided"}
      <4>1. EventHolds(OnEvent(Without(r, Threat)), event)
        BY <3>1 DEF EventHolds, OnEvent, Without
      <4>2. Try(OnInvocation(Without(r, Threat)), i) \in {"match", "undecided"}
        BY <3>2, TryHolds
      <4>3. TryAll(OnInvocation(Without(r, Threat)), <<i>>) \in {"match", "undecided"}
        BY <4>2 DEF TryAll
      <4> QED
        BY <4>1, <4>3 DEF Compiled
    <3>4. r \in Viable(Threat, "match", <<i>>)
      BY <1>8, <2>5, <3>3 DEF Viable
    <3>5. t \in chosen
      BY <2>2, <3>1, <3>4, FieldsAssumption DEF Selected, Threat, Destinations
    <3>6. CASE t \in failed
      BY <1>2, <1>8, <2>5, <3>5, <3>6 DEF Lookup, Tolerated
    <3>7. CASE t \notin failed
      <4>1. Reports[t] \subseteq Answers(chosen, failed).texts
        <5> HIDE DEF chosen
        <5> QED
          BY <3>5, <3>7 DEF Answers
      <4> QED
        BY <2>2, <4>1
    <3> QED
      BY <3>6, <3>7
  <2>6. ASSUME NEW k \in DOMAIN invocations, k < at', NEW r \in Gated(Threat)
        PROVE  Complete(r, k)'
    <3>1. CASE k = at
      BY <2>5, <2>6, <3>1
    <3>2. CASE k # at
      <4>1. k < at
        BY <1>1, <1>8, <2>6, <3>2 DEF TypeOK
      <4>2. Complete(r, k)
        BY <2>6, <4>1 DEF LookupInv
      <4>3. gaps \subseteq gaps' /\ invocations'[k] = invocations[k]
        BY <1>8, <2>1, <2>6, <3>2 DEF Lookup
      <4> QED
        BY <1>2, <4>2, <4>3, CompleteKept
    <3> QED
      BY <3>1, <3>2
  <2> QED
    BY <1>1, <1>2, <1>3, <1>8, <2>1, <2>4, <2>6 DEF LookupInv
<1> QED
  BY <1>6, <1>7, <1>8 DEF EnrichInvocation

LEMMA LookupEnrichTool ==
  ASSUME LookupInv, EnrichTool
  PROVE  LookupInv'
<1> DEFINE chosen == Selected(ToolThreat, ToolDestinations, Unreported, event[ToolDestinations])
<1>1. /\ Inv /\ Inv' /\ TypeOK /\ preventive /\ mode # "off" /\ phase = "enrich" /\ outcome = "none"
      /\ at > Len(invocations)
  BY NextInv DEF LookupInv, Inv, EnrichTool, Next
<1>2. /\ policy' = policy /\ invocations' = invocations /\ at' = at
      /\ mode' = mode /\ preventive' = preventive
  BY DEF EnrichTool, input
<1>3. Gated(Threat)' = Gated(Threat)
  BY <1>2 DEF Gated
<1>4. \A f \in EventFields \ {ToolThreat} : event'[f] = event[f]
  BY <1>1 DEF EnrichTool, TypeOK
<1>5. \A n \in DOMAIN policy.rules : \A k, t : Calls(policy.rules[n], k, t) => Calls(policy.rules[n], k, t)'
  BY <1>2, <1>4, CallsKept
<1>6. ASSUME NEW t \in chosen
      PROVE  \E n \in DOMAIN policy.rules : Calls(policy.rules[n], 0, t)
  <2>1. PICK r \in Viable(ToolThreat, "match", Unreported) :
          \E g \in Gates(r, ToolDestinations) : t \in g.texts
    BY <1>6 DEF Selected
  <2>2. /\ \E n \in DOMAIN policy.rules : r = policy.rules[n]
        /\ EventHolds(OnEvent(Plain(r)), event)
        /\ \/ OnInvocation(Plain(r)) = {}
           \/ \E j \in DOMAIN Unreported : Sure(OnInvocation(Plain(r)), Unreported[j])
    BY <2>1, ViableCalls
  <2>3. ASSUME NEW j \in DOMAIN Unreported, Sure(OnInvocation(Plain(r)), Unreported[j])
        PROVE  j \in DOMAIN invocations /\ Sure(OnInvocation(Plain(r)), invocations[j])
    <3>1. j \in DOMAIN invocations
      BY <2>3 DEF Unreported
    <3>2. \A c \in OnInvocation(Plain(r)) : c.field \in InvocationFields \ {Threat}
      BY DEF OnInvocation, Plain
    <3> QED
      BY <1>1, <2>3, <3>1, <3>2, UnreportedFacts DEF Sure, HoldsOn
  <2>4. Calls(r, 0, t)
    BY <2>1, <2>2, <2>3 DEF Calls
  <2> QED
    BY <2>2, <2>4
<1>7. /\ gaps \subseteq gaps'
      /\ \A a \in asked' : \E n \in DOMAIN policy.rules : Calls(policy.rules[n], a[1], a[2])'
  <2>1. CASE UNCHANGED <<asked, gaps>>
    BY <1>5, <2>1 DEF LookupInv
  <2>2. CASE \E failed \in SUBSET chosen : Lookup(0, chosen, failed)
    BY <1>5, <1>6, <2>2 DEF LookupInv, Lookup
  <2> QED
    BY <2>1, <2>2 DEF EnrichTool
<1>8. \A k \in DOMAIN invocations, r \in Gated(Threat) : Complete(r, k) => Complete(r, k)'
  BY <1>2, <1>4, <1>7, CompleteKept
<1> QED
  BY <1>1, <1>2, <1>3, <1>7, <1>8 DEF LookupInv, EnrichTool, Raise

LEMMA LookupOthers ==
  ASSUME LookupInv, Observe \/ Start \/ MatchRule \/ Decide \/ UNCHANGED vars
  PROVE  LookupInv'
<1>1. Inv /\ Inv' /\ TypeOK
  BY NextInv DEF LookupInv, Inv, Next
<1>2. /\ UNCHANGED <<preventive, mode, policy, event, invocations, at, asked, gaps>>
  BY DEF Observe, Start, MatchRule, Decide, vars, input
<1>3. Gated(Threat)' = Gated(Threat)
  BY <1>2 DEF Gated
<1>4. \A n \in DOMAIN policy.rules : \A k, t : Calls(policy.rules[n], k, t) => Calls(policy.rules[n], k, t)'
  BY <1>2, CallsKept
<1>5. \A k, r : Complete(r, k) => Complete(r, k)'
  BY <1>2, CompleteKept
<1>6. (phase = "enrich" => mode # "off")'
  BY <1>2 DEF LookupInv, Observe, Start, MatchRule, Decide, Raise, vars
<1>7. ((phase = "match" \/ outcome \in {"allow", "deny"})
          => (preventive /\ mode # "off" => at > Len(invocations)))'
  BY <1>1, <1>2 DEF LookupInv, Observe, Start, MatchRule, Decide, Raise, vars
<1> QED
  BY <1>1, <1>2, <1>3, <1>4, <1>5, <1>6, <1>7 DEF LookupInv

THEOREM LookupInvariance == Spec => []LookupInv
<1>1. Init => LookupInv
  <2> SUFFICES ASSUME Init PROVE LookupInv
    OBVIOUS
  <2>1. \A k \in DOMAIN invocations : ~(k < at)
    BY CommandsAssumption DEF Init
  <2> QED
    BY <2>1, InitInv DEF Init, LookupInv
<1>2. LookupInv /\ [Next]_vars => LookupInv'
  BY LookupEnrichInvocation, LookupEnrichTool, LookupOthers DEF Next
<1> QED
  BY <1>1, <1>2, PTL DEF Spec

\* The provider is asked only about what the gate of a rule selects whose other
\* conditions hold whatever the shell adds, and never for an observation.
THEOREM ContactsAreJustified == Spec => []ContactJustified
<1>1. LookupInv => ContactJustified
  <2> SUFFICES ASSUME LookupInv, NEW a \in asked
               PROVE  /\ preventive /\ mode # "off"
                      /\ \E n \in DOMAIN policy.rules :
                            LET r == policy.rules[n]
                                plain == OnInvocation(Plain(r))
                            IN  /\ \E g \in Gates(r, IF a[1] = 0 THEN ToolDestinations ELSE Destinations) :
                                      a[2] \in g.texts
                                /\ EventHolds(OnEvent(Plain(r)), event)
                                /\ \A us \in SUBSET Unknowns :
                                      \/ a[1] = 0 /\ plain = {}
                                      \/ \E k \in DOMAIN invocations :
                                            a[1] \in {0, k} /\ AllHoldOn(plain, Expanded(us, {})[k])
    BY DEF ContactJustified
  <2>1. PICK n \in DOMAIN policy.rules : Calls(policy.rules[n], a[1], a[2])
    BY DEF LookupInv
  <2> DEFINE r == policy.rules[n]
             plain == OnInvocation(Plain(r))
  <2>2. plain \in SUBSET OnInvocation(Conditions)
    <3>1. r \in Rules
      BY PoliciesAssumption DEF LookupInv, Inv, TypeOK
    <3> QED
      BY <3>1 DEF Rules, OnInvocation, Plain
  <2>3. ASSUME NEW us \in SUBSET Unknowns, NEW k \in DOMAIN invocations, Sure(plain, invocations[k])
        PROVE  AllHoldOn(plain, Expanded(us, {})[k])
    <3>1. Grown(invocations[k], Expanded(us, {})[k])
      BY <2>3, ExpandedGrows DEF LookupInv, Inv
    <3> HIDE DEF plain
    <3> QED
      BY <2>2, <2>3, <3>1, SureGrows
  <2> QED
    BY <2>1, <2>3 DEF LookupInv, Calls
<1> QED
  BY <1>1, LookupInvariance, PTL

\* A decision rests on every report that its rules call for, but for those that
\* failed under failure_mode open.
THEOREM ReportsAreComplete == Spec => []ReportsComplete
<1>1. LookupInv => ReportsComplete
  <2> SUFFICES ASSUME LookupInv, preventive, mode # "off", outcome \in {"allow", "deny"},
                      NEW k \in DOMAIN invocations, NEW r \in Gated(Threat)
               PROVE  Complete(r, k)
    BY DEF ReportsComplete, Complete
  <2>1. k < at
    BY DEF LookupInv, Inv, TypeOK
  <2> QED
    BY <2>1 DEF LookupInv
<1> QED
  BY <1>1, LookupInvariance, PTL
=============================================================================
