------------------------ MODULE PolicyCompilerProofs ------------------------
(***************************************************************************)
(* Proofs about PolicyCompiler, for all sources, texts, fields and limits. *)
(***************************************************************************)
EXTENDS PolicyCompiler, FiniteSetTheorems, SequenceTheorems, TLAPS

(* Conditions *)

\* A literal is what ast.literal_eval may give.
Literals == {v \in Values : IsLiteral(v)}

\* A condition that parse_policy has accepted.
Parsed(c) ==
    /\ c \in Conditions /\ c.value \in Literals
    /\ ValueFits(c.operator, c.value)
    /\ c.value.texts \cap TooLong = {}

\* The cases of the lowering.
LEMMA LoweredCases ==
    ASSUME NEW c \in Conditions, c.value.shape # "none" \/ c.operator # "IS"
    PROVE  \/ /\ c.operator = "IS" /\ c.field \notin ScalarFields
              /\ c.field \in InputFields => c.value.shape = "list"
              /\ Lowered(c) = [c EXCEPT !.operator = "HAS_ANY", !.value.shape = "list"]
           \/ /\ c.operator = "IS" /\ c.field \in ScalarFields /\ c.value.shape = "list"
              /\ Lowered(c) = [c EXCEPT !.operator = "IN"]
           \/ /\ c.operator = "IS" /\ c.field \notin ListFields /\ c.value.shape = "string"
              /\ Lowered(c) = [c EXCEPT !.operator = "=="]
           \/ /\ c.operator = "MATCHES" /\ c.field \in ListFields
              /\ Lowered(c) = [c EXCEPT !.operator = "ANY_MATCHES"]
           \/ /\ c.operator = "CONTAINS" /\ c.field \in ListFields
              /\ Lowered(c) = [c EXCEPT !.operator = "ANY_MATCHES", !.value.texts = Literal(@)]
           \/ /\ c.operator # "IS" /\ Lowered(c) = c
              /\ c.field \in ListFields => c.operator \notin {"MATCHES", "CONTAINS"}
BY FieldsAssumption DEF Lowered, Conditions, Values, Fields

LEMMA LiteralType ==
    ASSUME NEW S \in SUBSET Texts PROVE Literal(S) \in SUBSET Texts
BY TextsAssumption DEF Literal

LEMMA LoweredType ==
    ASSUME NEW c, Parsed(c)
    PROVE  /\ Lowered(c) \in Conditions
           /\ Lowered(c).field = c.field
<1> c \in Conditions /\ c.value \in Values /\ c.value.texts \in SUBSET Texts
  BY DEF Parsed, Conditions, Values
<1>1. c.value.shape # "none" \/ c.operator # "IS"
  BY DEF Parsed, ValueFits, UnaryOperators, OnLists, ListOperators
<1>2. {"HAS_ANY", "IN", "==", "ANY_MATCHES"} \subseteq Operators
  BY DEF Operators, ScalarOperators, ListOperators
<1>3. ASSUME NEW o \in Operators
      PROVE  /\ [c EXCEPT !.operator = o] \in Conditions
             /\ [c EXCEPT !.operator = o].field = c.field
  BY DEF Conditions
<1>4. CASE Lowered(c) = [c EXCEPT !.operator = "HAS_ANY", !.value.shape = "list"]
  <2> DEFINE w == [c.value EXCEPT !.shape = "list"]
  <2>1. w \in Values
    BY LiteralType DEF Values
  <2> DEFINE b == [c EXCEPT !.operator = "HAS_ANY"]
  <2>2. b \in Conditions /\ b.field = c.field
    BY <1>2, <1>3
  <2>3. Lowered(c) = [b EXCEPT !.value = w]
    BY <1>4 DEF Conditions
  <2> HIDE DEF w, b
  <2>4. QED
    BY <2>1, <2>2, <2>3 DEF Conditions
<1>5. CASE Lowered(c) = [c EXCEPT !.operator = "ANY_MATCHES", !.value.texts = Literal(@)]
  <2> DEFINE w == [c.value EXCEPT !.texts = Literal(c.value.texts)]
  <2>1. w \in Values
    BY LiteralType DEF Values
  <2> DEFINE b == [c EXCEPT !.operator = "ANY_MATCHES"]
  <2>2. b \in Conditions /\ b.field = c.field
    BY <1>2, <1>3
  <2>3. Lowered(c) = [b EXCEPT !.value = w]
    BY <1>5 DEF Conditions
  <2> HIDE DEF w, b
  <2>4. QED
    BY <2>1, <2>2, <2>3 DEF Conditions
<1>6. QED
  BY <1>1, <1>2, <1>3, <1>4, <1>5, LoweredCases

\* What compile_rule lets through is valid for the runtime; it is also short
\* enough, if it was not escaped.
LEMMA LoweredValid ==
    ASSUME NEW c, Parsed(c), Lowers(c)
    PROVE  /\ ValidCondition(Lowered(c))
           /\ ShortCondition(Lowered(c)) \/ c.field \in LongFields
              \/ (/\ c.operator = "CONTAINS" /\ c.field \in ListFields
                  /\ Literal(c.value.texts) \cap TooLong # {})
<1> DEFINE d == Lowered(c)
<1>0. /\ c \in Conditions /\ c.value \in Literals /\ ValueFits(c.operator, c.value)
      /\ c.value \in Values /\ c.value.texts \in SUBSET Texts
      /\ c.value.texts \cap TooLong = {}
  BY DEF Parsed, Conditions, Values
<1>1. d \in Conditions /\ d.field = c.field /\ c.field \in Fields
  BY <1>0, LoweredType DEF Conditions
<1>2. d.operator \in RuntimeAllows(d.field)
  BY <1>0, <1>1, FieldsAssumption DEF Lowers, CompilerAllows, RuntimeAllows, Operators
<1>3. d.operator \in Patterns => d.value.texts \cap BadRegex = {}
  BY DEF Lowers
<1>4. ASSUME NEW t PROVE Cardinality({t}) \leq MaxListValues
  <2>1. Cardinality({t}) = 1
    BY FS_Singleton
  <2>2. QED
    BY <2>1, BoundsAssumption
<1>5. /\ d.operator \in UnaryOperators <=> d.value.shape = "none"
      /\ d.operator \in OnLists <=> d.value.shape = "list"
      /\ d.operator \in OnLists =>
            d.value.texts # {} /\ Cardinality(d.value.texts) \leq MaxListValues
      /\ \/ d.value.texts \cap TooLong = {}
         \/ /\ c.operator = "CONTAINS" /\ c.field \in ListFields
            /\ Literal(c.value.texts) \cap TooLong # {}
  <2>1. c.value.shape # "none" \/ c.operator # "IS"
    BY <1>0 DEF ValueFits, UnaryOperators, OnLists, ListOperators
  <2> USE DEF UnaryOperators, OnLists, ListOperators
  <2>2. CASE c.operator = "IS" /\ d = [c EXCEPT !.operator = "HAS_ANY", !.value.shape = "list"]
    <3>1. /\ d.operator = "HAS_ANY" /\ d.value.shape = "list" /\ d.value.texts = c.value.texts
      BY <1>0, <2>2 DEF Conditions, Values
    <3>2. c.value.shape = "string" => \E t : c.value.texts = {t}
      BY <1>0 DEF Literals, IsLiteral
    <3>3. QED
      BY <1>0, <1>4, <2>2, <3>1, <3>2 DEF ValueFits
  <2>3. CASE c.operator = "IS" /\ c.value.shape = "list" /\ d = [c EXCEPT !.operator = "IN"]
    <3>1. d.operator = "IN" /\ d.value = c.value
      BY <1>0, <2>3 DEF Conditions
    <3>2. QED
      BY <1>0, <2>3, <3>1 DEF ValueFits
  <2>4. CASE c.operator = "IS" /\ c.value.shape = "string" /\ d = [c EXCEPT !.operator = "=="]
    <3>1. d.operator = "==" /\ d.value = c.value
      BY <1>0, <2>4 DEF Conditions
    <3>2. QED
      BY <1>0, <2>4, <3>1 DEF ValueFits
  <2>5. CASE c.operator = "MATCHES" /\ d = [c EXCEPT !.operator = "ANY_MATCHES"]
    <3>1. d.operator = "ANY_MATCHES" /\ d.value = c.value
      BY <1>0, <2>5 DEF Conditions
    <3>2. QED
      BY <1>0, <2>5, <3>1 DEF ValueFits
  <2>6. CASE /\ c.operator = "CONTAINS" /\ c.field \in ListFields
             /\ d = [c EXCEPT !.operator = "ANY_MATCHES", !.value.texts = Literal(@)]
    <3>1. /\ d.operator = "ANY_MATCHES" /\ d.value.shape = c.value.shape
          /\ d.value.texts = Literal(c.value.texts)
      BY <1>0, <2>6 DEF Conditions, Values
    <3>2. QED
      BY <1>0, <2>6, <3>1 DEF ValueFits
  <2>7. CASE c.operator # "IS" /\ d = c
    <3>1. /\ d.operator = c.operator /\ d.value.shape = c.value.shape
          /\ d.value.texts = c.value.texts
      BY <2>7
    <3>2. CASE c.operator \in UnaryOperators /\ c.value.shape = "none"
      BY <1>0, <3>1, <3>2 DEF Literals, IsLiteral
    <3>3. CASE /\ c.operator \in OnLists /\ c.value.shape = "list"
               /\ c.value.texts # {} /\ Cardinality(c.value.texts) \leq MaxListValues
      BY <1>0, <3>1, <3>3
    <3>4. CASE c.operator \notin UnaryOperators \cup OnLists /\ c.value.shape = "string"
      BY <1>0, <3>1, <3>4
    <3>5. QED
      BY <1>0, <2>7, <3>2, <3>3, <3>4 DEF ValueFits
  <2>8. QED
    BY <1>0, <2>1, <2>2, <2>3, <2>4, <2>5, <2>6, <2>7, LoweredCases
<1>6. QED
  BY <1>1, <1>2, <1>3, <1>5 DEF ValidCondition, ShortCondition

\* A lowered condition means at runtime what the documentation says of the
\* condition in the source.
THEOREM LoweringFaithful ==
    ASSUME NEW c, Parsed(c), Lowers(c), ShortCondition(Lowered(c))
    PROVE  Faithful(Lowered(c), c)
<1> DEFINE d == Lowered(c)
<1>0. /\ c \in Conditions /\ c.value \in Literals /\ ValueFits(c.operator, c.value)
      /\ c.value \in Values /\ c.value.texts \in SUBSET Texts
      /\ c.value.texts \cap TooLong = {}
  BY DEF Parsed, Conditions, Values
<1>1. d.field = c.field
  BY LoweredType
<1>2. CASE c.operator \notin {"IS", "CONTAINS", "MATCHES"}
  BY <1>0, <1>1, <1>2, LoweredCases DEF Faithful
<1>3. CASE c.operator \in {"IS", "CONTAINS", "MATCHES"}
  <2>0. c.value.shape # "none"
    BY <1>0, <1>3 DEF ValueFits, UnaryOperators, OnLists, ListOperators
  <2>1. SUFFICES ASSUME NEW v \in Actuals(c.field), Foreseen(c, v)
                 PROVE  RuntimeHolds(d, v) <=> Meant(c, v)
    BY <1>1, <1>3 DEF Faithful
  <2>2. /\ v.texts \in SUBSET Texts
        /\ v.shape \in {"string", "list"}
        /\ v.shape = "string" => \E t \in Texts : v.texts = {t}
        /\ c.field \in ScalarFields => v.shape = "string"
        /\ c.field \in ListFields => v.shape = "list"
    BY FieldsAssumption DEF Actuals, ActualShapes
  <2>3. CASE c.operator = "IS"
    <3>1. CASE /\ c.field \notin ScalarFields
               /\ c.field \in InputFields => c.value.shape = "list"
               /\ d = [c EXCEPT !.operator = "HAS_ANY", !.value.shape = "list"]
      <4>1. d.operator = "HAS_ANY" /\ d.value.texts = c.value.texts
        BY <1>0, <3>1 DEF Conditions, Values
      <4>2. v.shape = "list"
        <5>1. CASE c.field \in ListFields
          BY <2>2, <5>1
        <5>2. CASE c.field \in InputFields
          BY <2>1, <2>3, <3>1, <5>2 DEF Foreseen
        <5>3. QED
          BY <1>0, <3>1, <5>1, <5>2 DEF Conditions, Fields
      <4>3. QED
        BY <2>3, <4>1, <4>2 DEF RuntimeHolds, Meant
    <3>2. CASE /\ c.field \in ScalarFields /\ c.value.shape = "list"
               /\ d = [c EXCEPT !.operator = "IN"]
      <4>1. d.operator = "IN" /\ d.value = c.value
        BY <1>0, <3>2 DEF Conditions
      <4>2. QED
        BY <2>2, <2>3, <3>2, <4>1 DEF RuntimeHolds, Meant
    <3>3. CASE /\ c.field \notin ListFields /\ c.value.shape = "string"
               /\ d = [c EXCEPT !.operator = "=="]
      <4>1. d.operator = "==" /\ d.value = c.value
        BY <1>0, <3>3 DEF Conditions
      <4>2. v.shape = "string"
        BY <1>0, <2>1, <2>2, <2>3, <3>3 DEF Foreseen, Conditions, Fields
      <4>3. QED
        BY <2>2, <2>3, <4>1, <4>2 DEF RuntimeHolds, Meant
    <3>4. QED
      BY <1>0, <2>0, <2>3, <3>1, <3>2, <3>3, LoweredCases
  <2>4. CASE c.operator = "MATCHES"
    <3>1. CASE c.field \in ListFields /\ d = [c EXCEPT !.operator = "ANY_MATCHES"]
      <4>1. d.operator = "ANY_MATCHES" /\ d.value = c.value
        BY <1>0, <3>1 DEF Conditions
      <4>2. QED
        BY <2>2, <2>4, <3>1, <4>1 DEF RuntimeHolds, Meant
    <3>2. CASE c.field \notin ListFields /\ d = c
      <4>1. v.shape = "string"
        BY <1>0, <2>1, <2>2, <2>4, <3>2 DEF Foreseen, Conditions, Fields
      <4>2. QED
        BY <2>2, <2>4, <3>2, <4>1 DEF RuntimeHolds, Meant
    <3>3. QED
      BY <1>0, <2>0, <2>4, <3>1, <3>2, LoweredCases
  <2>5. CASE c.operator = "CONTAINS"
    <3>1. CASE /\ c.field \in ListFields
               /\ d = [c EXCEPT !.operator = "ANY_MATCHES", !.value.texts = Literal(@)]
      <4>1. d.operator = "ANY_MATCHES" /\ d.value.texts = Literal(c.value.texts)
        BY <1>0, <3>1 DEF Conditions, Values
      <4>2. \A t \in c.value.texts : Matching[Escape[t]] = Containing[t]
        BY <1>0, <4>1, TextsAssumption DEF ShortCondition, Literal
      <4>3. \A p : p \in d.value.texts <=> \E t \in c.value.texts : p = Escape[t]
        BY <4>1 DEF Literal
      <4>4. QED
        BY <2>2, <2>5, <3>1, <4>1, <4>2, <4>3 DEF RuntimeHolds, Meant
    <3>2. CASE c.field \notin ListFields /\ d = c
      <4>1. v.shape = "string"
        BY <1>0, <2>1, <2>2, <2>5, <3>2 DEF Foreseen, Conditions, Fields
      <4>2. QED
        BY <2>2, <2>5, <3>2, <4>1 DEF RuntimeHolds, Meant
    <3>3. QED
      BY <1>0, <2>0, <2>5, <3>1, <3>2, LoweredCases
  <2>6. QED
    BY <1>3, <2>3, <2>4, <2>5
<1>4. QED
  BY <1>2, <1>3
-----------------------------------------------------------------------------
(* The inductive invariant *)

ParsedConditions == {c \in Conditions : Parsed(c)}
ParsedRules ==
    [id : Ids, action : Actions \cup {NoAction}, message : Texts \cup {NoText},
     sensitive : BOOLEAN, meta : [MetaKinds -> Texts \cup {NoText}],
     conditions : Seq(ParsedConditions)]

\* Rules hold what parse_policy accepts, and those that END has closed are finished.
RulesInv ==
    /\ rules \in Seq(ParsedRules) /\ Len(rules) \leq MaxRules
    /\ open => rules # <<>>
    /\ \A k \in DOMAIN rules :
          /\ Len(rules[k].conditions) \leq MaxConditions
          /\ k < Len(rules) \/ ~open => Finished(rules[k])

\* The compiled rules are the first rules, lowered.
OutputInv ==
    /\ output \in Seq(Rules) /\ Len(output) \leq Len(rules)
    /\ \A k \in DOMAIN output :
          /\ output[k] = CompiledRule(rules[k])
          /\ \A j \in DOMAIN rules[k].conditions : Lowers(rules[k].conditions[j])
    /\ status \in {"start", "parsing"} => output = <<>>

\* What the end of the source, and validate_policy, have found.
StatusInv ==
    /\ status \in {"lowering", "compiled", "invalid"} =>
          ~open /\ rules # <<>> /\ DistinctIds(rules)
    /\ status = "invalid" => Len(output) = Len(rules) /\ ~Validates(output)
    /\ status = "compiled" => Len(output) = Len(rules) /\ Validates(output)

TypeInv ==
    /\ vocabulary \in Vocabularies /\ settings \in {"fine", "reserved", "invalid"}
    /\ longName \in BOOLEAN
    /\ status \in {"start", "parsing", "lowering", "compiled", "error", "invalid"}
    /\ default \in {"allow", "deny"} /\ defaultSeen \in BOOLEAN
    /\ open \in BOOLEAN
    /\ source \in Seq(SourceLines)

Inv == TypeInv /\ RulesInv /\ OutputInv /\ StatusInv

LEMMA ParsedRuleType ==
    ASSUME NEW r \in ParsedRules
    PROVE  /\ r.id \in Ids /\ r.action \in Actions \cup {NoAction}
           /\ r.message \in Texts \cup {NoText} /\ r.sensitive \in BOOLEAN
           /\ r.meta \in [MetaKinds -> Texts \cup {NoText}]
           /\ r.conditions \in Seq(ParsedConditions)
BY DEF ParsedRules

LEMMA CompiledRuleType ==
    ASSUME NEW r \in ParsedRules
    PROVE  /\ CompiledRule(r) \in Rules
           /\ CompiledRule(r).id = r.id /\ CompiledRule(r).action = r.action
           /\ CompiledRule(r).message = r.message /\ CompiledRule(r).meta = r.meta
           /\ Len(CompiledRule(r).conditions) = Len(r.conditions)
           /\ DOMAIN CompiledRule(r).conditions = DOMAIN r.conditions
           /\ \A j \in DOMAIN r.conditions :
                 CompiledRule(r).conditions[j] = Lowered(r.conditions[j])
<1> DEFINE q == [j \in DOMAIN r.conditions |-> Lowered(r.conditions[j])]
<1>1. r.conditions \in Seq(ParsedConditions)
  BY ParsedRuleType
<1>2. DOMAIN r.conditions = 1..Len(r.conditions) /\ Len(r.conditions) \in Nat
  BY <1>1
<1>3. \A j \in 1..Len(r.conditions) : Lowered(r.conditions[j]) \in Conditions
  BY <1>1, LoweredType DEF ParsedConditions
<1>4. q \in [1..Len(r.conditions) -> Conditions]
  BY <1>2, <1>3
<1>5. q \in Seq(Conditions) /\ Len(q) = Len(r.conditions) /\ DOMAIN q = DOMAIN r.conditions
  BY <1>2, <1>4, SeqDef
<1>6. \A j \in DOMAIN r.conditions : q[j] = Lowered(r.conditions[j])
  OBVIOUS
<1>7. CompiledRule(r) = [r EXCEPT !.conditions = q]
  BY DEF CompiledRule
<1> HIDE DEF q
<1>8. QED
  BY <1>5, <1>6, <1>7 DEF ParsedRules, Rules

\* What a line of each kind has.
LEMMA LineType ==
    ASSUME TypeInv, NEW l \in vocabulary
    PROVE  /\ l \in SourceLines
           /\ l.kind = "DEFAULT" => l.action \in {"allow", "deny"}
           /\ l.kind = "RULE" => l.id \in Ids
           /\ l.kind = "CONDITION" =>
                 /\ l.condition \in Conditions /\ IsLiteral(l.condition.value)
                 /\ ~l.long => l.condition.value.texts \cap TooLong = {}
           /\ l.kind = "THEN" => l.action \in Actions /\ l.message \in Texts \cup {NoText}
           /\ l.kind = "MESSAGE" => l.message \in Texts
           /\ l.kind = "CASE" => l.sensitive \in BOOLEAN
           /\ l.kind \in MetaKinds => l.text \in Texts
<1>1. l \in SourceLines /\ l \in UNION Vocabularies
  BY LinesAssumption DEF TypeInv
<1>2. l.kind = "CONDITION" => l.condition \in Conditions /\ l.long \in BOOLEAN
  BY <1>1 DEF SourceLines, MetaKinds
<1>3. l.kind \in MetaKinds => l.text \in Texts
  BY <1>1 DEF SourceLines, MetaKinds
<1>4. /\ l.kind = "DEFAULT" => l.action \in {"allow", "deny"}
      /\ l.kind = "RULE" => l.id \in Ids
      /\ l.kind = "THEN" => l.action \in Actions /\ l.message \in Texts \cup {NoText}
      /\ l.kind = "MESSAGE" => l.message \in Texts
      /\ l.kind = "CASE" => l.sensitive \in BOOLEAN
  BY <1>1 DEF SourceLines, MetaKinds
<1>5. l.kind = "CONDITION" =>
         /\ IsLiteral(l.condition.value)
         /\ l.condition.value.texts \cap TooLong # {} => l.long
  BY <1>1, LinesAssumption
<1>6. QED
  BY <1>1, <1>2, <1>3, <1>4, <1>5

LEMMA AmendedType ==
    ASSUME TypeInv, NEW l \in vocabulary, NEW r \in ParsedRules, Len(r.conditions) \leq MaxConditions,
           l.kind = "CONDITION" => /\ Len(r.conditions) < MaxConditions /\ ~l.long
                                   /\ ValueFits(l.condition.operator, l.condition.value)
    PROVE  Amended(r, l) \in ParsedRules /\ Len(Amended(r, l).conditions) \leq MaxConditions
<1>0. r.conditions \in Seq(ParsedConditions)
  BY ParsedRuleType
<1>1. CASE l.kind = "CONDITION"
  <2> DEFINE c == l.condition
  <2>1. c \in ParsedConditions
    BY <1>1, LineType DEF ParsedConditions, Parsed, Literals, Conditions
  <2> DEFINE q == Append(r.conditions, c)
  <2>2. Amended(r, l) = [r EXCEPT !.conditions = q]
    BY <1>1 DEF Amended, ParsedRules, MetaKinds
  <2>3. q \in Seq(ParsedConditions) /\ Len(q) = Len(r.conditions) + 1 /\ Len(r.conditions) \in Nat
    BY <1>0, <2>1
  <2> HIDE DEF c, q
  <2>4. [r EXCEPT !.conditions = q] \in ParsedRules /\ [r EXCEPT !.conditions = q].conditions = q
    BY <2>3 DEF ParsedRules
  <2>5. QED
    BY <1>1, <2>2, <2>3, <2>4, BoundsAssumption
<1>2. CASE l.kind = "THEN"
  <2>1. Amended(r, l) = [r EXCEPT !.action = l.action,
                                  !.message = IF l.message = NoText THEN r.message ELSE l.message]
    BY <1>2 DEF Amended, ParsedRules, MetaKinds
  <2>2. l.action \in Actions /\ l.message \in Texts \cup {NoText}
    BY <1>2, LineType
  <2> DEFINE m == IF l.message = NoText THEN r.message ELSE l.message
  <2>3. m \in Texts \cup {NoText}
    BY <2>2, ParsedRuleType
  <2>4. Amended(r, l) = [r EXCEPT !.action = l.action, !.message = m]
    BY <2>1
  <2> HIDE DEF m
  <2>5. QED
    BY <2>2, <2>3, <2>4 DEF ParsedRules
<1>3. CASE l.kind = "MESSAGE"
  BY <1>3, LineType DEF Amended, ParsedRules
<1>4. CASE l.kind = "CASE"
  BY <1>4, LineType DEF Amended, ParsedRules
<1>5. CASE l.kind \in MetaKinds
  <2> DEFINE m == [r.meta EXCEPT ![l.kind] = l.text]
  <2>1. m \in [MetaKinds -> Texts \cup {NoText}]
    BY <1>5, LineType, ParsedRuleType
  <2>2. Amended(r, l) = [r EXCEPT !.meta = m]
    BY <1>5 DEF Amended, MetaKinds, ParsedRules
  <2> HIDE DEF m
  <2>3. QED
    BY <2>1, <2>2 DEF ParsedRules
<1>6. CASE l.kind \notin {"CONDITION", "THEN", "MESSAGE", "CASE"} \cup MetaKinds
  BY <1>6 DEF Amended
<1>7. QED
  BY <1>1, <1>2, <1>3, <1>4, <1>5, <1>6

-----------------------------------------------------------------------------
(* The steps *)

LEMMA InvInit == Init => Inv
<1> SUFFICES ASSUME Init PROVE Inv
  OBVIOUS
<1>1. TypeInv
  BY EmptySeq DEF Init, TypeInv
<1>2. RulesInv
  BY EmptySeq, BoundsAssumption DEF Init, RulesInv
<1>3. OutputInv
  BY EmptySeq DEF Init, OutputInv
<1>4. QED
  BY <1>1, <1>2, <1>3 DEF Init, Inv, StatusInv

LEMMA InvStart == Inv /\ Start => Inv'
BY DEF Inv, TypeInv, RulesInv, OutputInv, StatusInv, Start, input, parsed

\* Reading keeps the type of the source, and stays before the lowering.
LEMMA ReadingType ==
    ASSUME Inv, NEW l \in vocabulary, Reading(l), UNCHANGED <<input, status>>,
           default' \in {"allow", "deny"}, defaultSeen' \in BOOLEAN, open' \in BOOLEAN
    PROVE  TypeInv'
BY LineType DEF Inv, TypeInv, Reading, input

LEMMA InvDefault == ASSUME Inv, NEW l \in vocabulary, Default(l) PROVE Inv'
<1>1. TypeInv'
  BY ReadingType, LineType DEF Inv, TypeInv, Default
<1>2. QED
  BY <1>1 DEF Inv, RulesInv, OutputInv, StatusInv, Default, Reading

LEMMA InvOpenRule == ASSUME Inv, NEW l \in vocabulary, OpenRule(l) PROVE Inv'
<1>1. TypeInv'
  BY ReadingType DEF Inv, TypeInv, OpenRule
<1> DEFINE r == NewRule(l.id)
<1>2. r \in ParsedRules /\ r.conditions = <<>>
  BY LineType DEF Inv, OpenRule, NewRule, ParsedRules
<1>3. /\ rules \in Seq(ParsedRules) /\ rules' = Append(rules, r)
      /\ ~open /\ open' /\ Len(rules) < MaxRules /\ status = "parsing"
      /\ status' = "parsing" /\ output' = output /\ output = <<>>
  BY DEF Inv, RulesInv, OutputInv, OpenRule, Reading, Accepts, MetaKinds
<1> HIDE DEF r
<1>4. RulesInv'
  <2>1. /\ rules' \in Seq(ParsedRules) /\ Len(rules') = Len(rules) + 1 /\ Len(rules) \in Nat
        /\ DOMAIN rules' = 1..Len(rules) + 1 /\ DOMAIN rules = 1..Len(rules)
        /\ \A k \in 1..Len(rules) : rules'[k] = rules[k]
        /\ rules'[Len(rules) + 1] = r
    BY <1>2, <1>3
  <2>2. Len(rules') \leq MaxRules /\ rules' # <<>>
    BY <1>3, <2>1, BoundsAssumption
  <2>3. ASSUME NEW k \in DOMAIN rules'
        PROVE  /\ Len(rules'[k].conditions) \leq MaxConditions
               /\ k < Len(rules') \/ ~open' => Finished(rules'[k])
    <3>1. CASE k \in 1..Len(rules)
      BY <1>3, <2>1, <3>1 DEF Inv, RulesInv
    <3>2. CASE k = Len(rules) + 1
      BY <1>2, <1>3, <2>1, <3>2, BoundsAssumption
    <3>3. QED
      BY <2>1, <3>1, <3>2
  <2>4. QED
    BY <2>1, <2>2, <2>3 DEF RulesInv
<1>5. OutputInv'
  BY <1>2, <1>3 DEF Inv, OutputInv
<1>6. QED
  BY <1>1, <1>3, <1>4, <1>5 DEF Inv, StatusInv

LEMMA InvCloseRule == ASSUME Inv, NEW l \in vocabulary, CloseRule(l) PROVE Inv'
<1>1. TypeInv'
  BY ReadingType DEF Inv, TypeInv, CloseRule
<1>2. /\ open /\ Finished(rules[Len(rules)]) /\ rules \in Seq(ParsedRules)
      /\ UNCHANGED <<rules, output, status>> /\ status = "parsing"
  BY DEF Inv, RulesInv, CloseRule, Reading, Accepts, Current, MetaKinds
<1>3. RulesInv'
  <2>1. ASSUME NEW k \in DOMAIN rules PROVE k < Len(rules) \/ k = Len(rules)
    BY <1>2
  <2>2. QED
    BY <1>2, <2>1 DEF Inv, RulesInv, CloseRule
<1>4. QED
  BY <1>1, <1>2, <1>3 DEF Inv, OutputInv, StatusInv

LEMMA InvStatement == ASSUME Inv, NEW l \in vocabulary, Statement(l) PROVE Inv'
<1>1. TypeInv'
  BY ReadingType DEF Inv, TypeInv, Statement
<1> DEFINE n == Len(rules)
           r == Amended(rules[n], l)
<1>2. /\ open /\ open' /\ rules \in Seq(ParsedRules) /\ rules # <<>>
      /\ rules' = [rules EXCEPT ![n] = r]
      /\ UNCHANGED <<output, status>> /\ status = "parsing" /\ output = <<>>
      /\ l.kind = "CONDITION" => /\ Len(rules[n].conditions) < MaxConditions /\ ~l.long
                                 /\ ValueFits(l.condition.operator, l.condition.value)
  BY DEF Inv, TypeInv, RulesInv, OutputInv, Statement, Reading, Accepts, Current, MetaKinds
<1>3. n \in 1..Len(rules) /\ DOMAIN rules = 1..Len(rules) /\ Len(rules) \in Nat
  BY <1>2
<1>4. r \in ParsedRules /\ Len(r.conditions) \leq MaxConditions
  BY <1>2, <1>3, AmendedType DEF Inv, RulesInv
<1> HIDE DEF r
<1>5. RulesInv'
  <2>1. /\ rules' \in Seq(ParsedRules) /\ Len(rules') = Len(rules) /\ DOMAIN rules' = 1..Len(rules)
        /\ \A k \in 1..Len(rules) : k # n => rules'[k] = rules[k]
        /\ rules'[n] = r
    <3>1. rules \in Seq(ParsedRules) /\ n \in 1..Len(rules) /\ r \in ParsedRules
      BY <1>2, <1>3, <1>4
    <3> HIDE DEF n
    <3>2. QED
      BY <1>2, <3>1, ExceptSeq
  <2>2. ASSUME NEW k \in DOMAIN rules'
        PROVE  /\ Len(rules'[k].conditions) \leq MaxConditions
               /\ k < Len(rules') \/ ~open' => Finished(rules'[k])
    <3>1. CASE k # n
      <4>1. k \in DOMAIN rules /\ k < Len(rules) /\ rules'[k] = rules[k]
        <5>1. k \in 1..Len(rules) /\ rules'[k] = rules[k]
          BY <2>1, <2>2, <3>1
        <5>2. k < Len(rules)
          BY <1>3, <3>1, <5>1
        <5>3. QED
          BY <1>3, <5>1, <5>2
      <4>2. /\ Len(rules[k].conditions) \leq MaxConditions
            /\ k < Len(rules) => Finished(rules[k])
        BY <4>1 DEF Inv, RulesInv
      <4>3. QED
        BY <4>1, <4>2
    <3>2. CASE k = n
      <4>1. ~(k < Len(rules'))
        <5>1. k = Len(rules') /\ Len(rules') \in Nat
          BY <1>3, <2>1, <3>2
        <5>2. QED
          BY <5>1
      <4>2. rules'[k] = r /\ open'
        BY <1>2, <2>1, <3>2
      <4>3. QED
        BY <1>4, <4>1, <4>2
    <3>3. QED
      BY <3>1, <3>2
  <2>3. QED
    BY <1>2, <1>3, <2>1, <2>2, EmptySeq DEF Inv, RulesInv
<1>6. OutputInv'
  BY <1>2, <1>3, <1>5 DEF Inv, OutputInv, RulesInv
<1>7. QED
  BY <1>1, <1>2, <1>5, <1>6 DEF Inv, StatusInv

LEMMA InvRefuse == ASSUME Inv, NEW l \in vocabulary, Refuse(l) PROVE Inv'
BY DEF Inv, TypeInv, RulesInv, OutputInv, StatusInv, Refuse, input, parsed

LEMMA InvEndOfSource == Inv /\ EndOfSource => Inv'
BY DEF Inv, TypeInv, RulesInv, OutputInv, StatusInv, EndOfSource, input, parsed, DistinctIds

LEMMA InvCompileRule == ASSUME Inv, CompileRule PROVE Inv'
<1> DEFINE n == Len(output) + 1
<1>0. /\ UNCHANGED <<input, parsed, source>> /\ status = "lowering" /\ Len(output) < Len(rules)
      /\ output \in Seq(Rules) /\ rules \in Seq(ParsedRules)
  BY DEF Inv, RulesInv, OutputInv, CompileRule
<1>1. Len(output) \in Nat /\ n \in 1..Len(rules) /\ DOMAIN rules = 1..Len(rules)
  BY <1>0
<1>2. RulesInv'
  BY <1>0 DEF Inv, RulesInv, parsed
<1>3. CASE status' = "error" /\ UNCHANGED output
  BY <1>0, <1>2, <1>3 DEF Inv, TypeInv, OutputInv, StatusInv, input, parsed
<1>4. CASE /\ \A j \in DOMAIN rules[n].conditions : Lowers(rules[n].conditions[j])
           /\ output' = Append(output, CompiledRule(rules[n])) /\ UNCHANGED status
  <2> DEFINE r == CompiledRule(rules[n])
  <2>1. r \in Rules
    BY <1>0, <1>1, CompiledRuleType
  <2>2. output' = Append(output, r)
    BY <1>4
  <2> HIDE DEF r
  <2>3. /\ output' \in Seq(Rules) /\ Len(output') = n /\ DOMAIN output' = 1..n
        /\ \A k \in 1..Len(output) : output'[k] = output[k]
        /\ output'[n] = r /\ DOMAIN output = 1..Len(output)
    BY <1>0, <1>1, <2>1, <2>2
  <2>4. Len(output') \leq Len(rules)
    BY <1>1, <2>3
  <2>5. ASSUME NEW k \in DOMAIN output'
        PROVE  /\ output'[k] = CompiledRule(rules[k])
               /\ \A j \in DOMAIN rules[k].conditions : Lowers(rules[k].conditions[j])
    <3>1. CASE k \in 1..Len(output)
      BY <2>3, <3>1 DEF Inv, OutputInv
    <3>2. CASE k = n
      BY <1>4, <2>3, <3>2 DEF r
    <3>3. QED
      BY <1>1, <2>3, <3>1, <3>2
  <2>6. OutputInv'
    BY <1>0, <1>4, <2>3, <2>4, <2>5 DEF OutputInv, parsed
  <2>7. QED
    BY <1>0, <1>2, <1>4, <2>6 DEF Inv, TypeInv, StatusInv, input, parsed
<1>5. QED
  BY <1>3, <1>4 DEF CompileRule

LEMMA InvValidate == ASSUME Inv, Validate PROVE Inv'
<1>1. UNCHANGED <<input, parsed, output, source>> /\ status = "lowering"
  BY DEF Validate
<1>2. RulesInv' /\ OutputInv'
  BY <1>1 DEF Inv, RulesInv, OutputInv, parsed, Validate
<1>3. TypeInv'
  BY <1>1 DEF Inv, TypeInv, input, parsed, Validate
<1>4. Validates(output)' <=> Validates(output)
  BY <1>1 DEF input, Validates
<1>5. StatusInv'
  BY <1>1, <1>4 DEF Inv, StatusInv, input, parsed, Validate
<1>6. QED
  BY <1>2, <1>3, <1>5 DEF Inv

THEOREM InvHolds == Spec => []Inv
<1>1. ASSUME Inv, [Next]_vars PROVE Inv'
  <2>1. CASE UNCHANGED vars
    BY <1>1, <2>1 DEF Inv, TypeInv, RulesInv, OutputInv, StatusInv, Validates, vars
  <2>2. CASE Next
    BY <1>1, <2>2, InvStart, InvDefault, InvOpenRule, InvCloseRule, InvStatement, InvRefuse,
       InvEndOfSource, InvCompileRule, InvValidate DEF Next
  <2>3. QED
    BY <1>1, <2>1, <2>2
<1>2. QED
  BY <1>1, InvInit, PTL DEF Spec

\* All variables have their types.
THEOREM TypeCorrect == Spec => []TypeOK
<1>1. ASSUME NEW r \in ParsedRules PROVE r \in Rules
  <2>1. r.conditions \in Seq(Conditions)
    <3>1. r.conditions \in Seq(ParsedConditions)
      BY ParsedRuleType
    <3>2. ParsedConditions \subseteq Conditions
      BY DEF ParsedConditions
    <3>3. QED
      BY <3>1, <3>2, SeqMonotonic
  <2>2. /\ r.id \in Ids /\ r.action \in Actions \cup {NoAction}
        /\ r.message \in Texts \cup {NoText} /\ r.sensitive \in BOOLEAN
        /\ r.meta \in [MetaKinds -> Texts \cup {NoText}]
    BY ParsedRuleType
  <2>3. r = [id |-> r.id, action |-> r.action, message |-> r.message, sensitive |-> r.sensitive,
             meta |-> r.meta, conditions |-> r.conditions]
    BY DEF ParsedRules
  <2> DEFINE M == [MetaKinds -> Texts \cup {NoText}]
  <2> HIDE DEF M
  <2>4. QED
    BY <2>1, <2>2, <2>3 DEF Rules, M
<1>2. ParsedRules \subseteq Rules
  BY <1>1
<1>3. Inv => TypeOK
  BY <1>2, SeqMonotonic DEF Inv, TypeInv, RulesInv, OutputInv, TypeOK
<1>4. QED
  BY <1>3, InvHolds, PTL

\* A condition whose field and escaped text have a length that the validator takes.
WithinLimits(c) ==
    /\ c.field \notin LongFields
    /\ c.operator = "CONTAINS" /\ c.field \in ListFields => Literal(c.value.texts) \cap TooLong = {}

\* What the compiler has accepted is rejected late for the settings, a gate or
\* a length that the compiler does not limit, and for nothing else
\* (LateRejectionsKnown).
THEOREM RejectionsAreKnown == Spec => []LateRejectionsKnown
<1>1. ASSUME Inv PROVE LateRejectionsKnown
  <2>1. SUFFICES ASSUME /\ status = "invalid" /\ settings # "invalid" /\ ~longName
                        /\ \A k \in DOMAIN output :
                              /\ Gated(output[k]) /\ rules[k].message \notin TooLong
                              /\ \A m \in MetaKinds : rules[k].meta[m] \notin LongAs(m)
                              /\ \A j \in DOMAIN rules[k].conditions :
                                    WithinLimits(rules[k].conditions[j])
                 PROVE  Validates(output)
    BY <1>1 DEF LateRejectionsKnown, Inv, StatusInv, WithinLimits
  <2>2. /\ ~open /\ rules # <<>> /\ DistinctIds(rules) /\ Len(output) = Len(rules)
        /\ rules \in Seq(ParsedRules) /\ output \in Seq(Rules) /\ Len(rules) \leq MaxRules
    BY <1>1, <2>1 DEF Inv, StatusInv, RulesInv, OutputInv
  <2>3. DOMAIN output = DOMAIN rules /\ output # <<>>
    BY <2>2
  <2>4. ASSUME NEW k \in DOMAIN output
        PROVE  /\ rules[k] \in ParsedRules /\ output[k] = CompiledRule(rules[k])
               /\ \A j \in DOMAIN rules[k].conditions : Lowers(rules[k].conditions[j])
               /\ Finished(rules[k]) /\ Len(rules[k].conditions) \leq MaxConditions
    BY <1>1, <2>2, <2>3 DEF Inv, RulesInv, OutputInv
  <2>5. DistinctIds(output)
    BY <2>2, <2>3, <2>4, CompiledRuleType DEF DistinctIds
  <2>6. ASSUME NEW k \in DOMAIN output PROVE ValidRule(output[k]) /\ ShortRule(output[k])
    <3> DEFINE r == rules[k]
               o == output[k]
    <3>1. /\ r \in ParsedRules /\ o = CompiledRule(r)
          /\ \A j \in DOMAIN r.conditions : Lowers(r.conditions[j])
          /\ Finished(r) /\ Len(r.conditions) \leq MaxConditions
          /\ r.message \notin TooLong /\ \A m \in MetaKinds : r.meta[m] \notin LongAs(m)
          /\ \A j \in DOMAIN r.conditions : WithinLimits(r.conditions[j])
      BY <2>1, <2>4
    <3> HIDE DEF r, o
    <3>2. /\ o.id = r.id /\ o.action = r.action /\ o.message = r.message /\ o.meta = r.meta
          /\ Len(o.conditions) = Len(r.conditions) /\ DOMAIN o.conditions = DOMAIN r.conditions
          /\ \A j \in DOMAIN r.conditions : o.conditions[j] = Lowered(r.conditions[j])
      BY <3>1, CompiledRuleType
    <3>3. /\ r.id \in Ids /\ r.action \in Actions \cup {NoAction}
          /\ r.conditions \in Seq(ParsedConditions)
      BY <3>1, ParsedRuleType
    <3>4. ASSUME NEW j \in DOMAIN r.conditions
          PROVE  ValidCondition(o.conditions[j]) /\ ShortCondition(o.conditions[j])
      <4>1. PICK c : c = r.conditions[j]
        OBVIOUS
      <4>2. Parsed(c) /\ Lowers(c) /\ WithinLimits(c) /\ o.conditions[j] = Lowered(c)
        BY <3>1, <3>2, <3>3, <4>1 DEF ParsedConditions
      <4>3. QED
        BY <4>2, LoweredValid DEF WithinLimits
    <3>5. o.conditions # <<>>
      BY <3>1, <3>2, <3>3 DEF Finished
    <3>6. ValidRule(o) /\ ShortRule(o)
      BY <3>1, <3>2, <3>3, <3>4, <3>5 DEF ValidRule, ShortRule, Finished
    <3>7. QED
      BY <3>6 DEF o
  <2>7. QED
    BY <2>1, <2>2, <2>3, <2>5, <2>6 DEF Validates
<1>2. QED
  BY <1>1, InvHolds, PTL
-----------------------------------------------------------------------------
(* What the rules keep of the source *)

\* The condition lines of rule k, and those that give it a message.
ConditionLines(k) == {i \in LinesOf(k) : source[i].kind = "CONDITION"}
MessageLines(k) ==
    {i \in LinesOf(k) : source[i].kind \in {"THEN", "MESSAGE"} /\ source[i].message # NoText}

\* The lines of rule k of a kind.
Statements(k, kind) == {j \in LinesOf(k) : source[j].kind = kind}

Last(i, of) == i \in of /\ \A j \in of : j \leq i

\* The place of a condition line among those of its rule.
Place(k, i) == Cardinality({j \in ConditionLines(k) : j \leq i})

\* The rule r has just what the lines of rule k say.
Says(k, r) ==
    /\ Len(r.conditions) = Cardinality(ConditionLines(k))
    /\ \A i \in ConditionLines(k) : r.conditions[Place(k, i)] = source[i].condition
    /\ MessageLines(k) = {} => r.message = NoText
    /\ Statements(k, "CASE") = {} => ~r.sensitive
    /\ \A m \in MetaKinds : Statements(k, m) = {} => r.meta[m] = NoText
    /\ \A i \in LinesOf(k) :
          /\ source[i].kind = "RULE" => r.id = source[i].id
          /\ Last(i, Statements(k, "THEN")) => r.action = source[i].action
          /\ Last(i, Statements(k, "CASE")) => r.sensitive = source[i].sensitive
          /\ \A m \in MetaKinds : Last(i, Statements(k, m)) => r.meta[m] = source[i].text
          /\ Last(i, MessageLines(k)) => r.message = source[i].message

SourceInv ==
    /\ Len(rules) = RuleOf(Len(source))
    /\ \A i \in DOMAIN source : RuleOf(i) \leq Len(rules)
    /\ \A i \in DOMAIN source : source[i].kind = "DEFAULT" => defaultSeen /\ default = source[i].action
    /\ (\A i \in DOMAIN source : source[i].kind # "DEFAULT") => default = "allow"
    /\ \A k \in DOMAIN rules : Says(k, rules[k])

-----------------------------------------------------------------------------
(* One more line *)

\* What Before, RuleOf and LinesOf say of the lines read before stays so.
LEMMA ReadLine ==
    ASSUME source \in Seq(SourceLines), NEW l \in SourceLines, source' = Append(source, l),
           NEW n, n = Len(source) + 1
    PROVE  /\ n \in Nat /\ DOMAIN source \subseteq Nat /\ IsFiniteSet(DOMAIN source)
           /\ Len(source') = n /\ DOMAIN source' = DOMAIN source \cup {n} /\ source'[n] = l
           /\ \A i \in DOMAIN source : i < n /\ source'[i] = source[i] /\ RuleOf(i)' = RuleOf(i)
           /\ RuleOf(n)' = RuleOf(Len(source)) + (IF l.kind = "RULE" THEN 1 ELSE 0)
           /\ RuleOf(Len(source)) \in Nat
<1>1. /\ Len(source) \in Nat /\ n \in Nat /\ DOMAIN source = 1..Len(source)
      /\ Len(source') = n /\ DOMAIN source' = 1..n /\ source'[n] = l
      /\ \A i \in 1..Len(source) : source'[i] = source[i]
  OBVIOUS
<1>2. /\ DOMAIN source' = DOMAIN source \cup {n}
      /\ \A i \in DOMAIN source : i \in Nat /\ i < n /\ i # n
  BY <1>1
<1>3. IsFiniteSet(DOMAIN source)
  BY <1>1, FS_Interval
<1>4. ASSUME NEW i \in DOMAIN source PROVE Before({"RULE"}, i)' = Before({"RULE"}, i)
  <2>1. ~(n \leq i)
    BY <1>2
  <2>2. QED
    BY <1>1, <1>2, <2>1 DEF Before
<1>5. Before({"RULE"}, n)' = Before({"RULE"}, Len(source)) \cup (IF l.kind = "RULE" THEN {n} ELSE {})
  <2>1. \A i \in DOMAIN source : i \leq n /\ i \leq Len(source)
    BY <1>1
  <2>2. n \leq n
    BY <1>1
  <2>3. QED
    BY <1>1, <1>2, <2>1, <2>2 DEF Before
<1>6. IsFiniteSet(Before({"RULE"}, Len(source))) /\ n \notin Before({"RULE"}, Len(source))
  <2>1. Before({"RULE"}, Len(source)) \subseteq DOMAIN source
    BY DEF Before
  <2>2. QED
    BY <1>2, <1>3, <2>1, FS_Subset
<1>7. Cardinality(Before({"RULE"}, Len(source)) \cup {n})
         = Cardinality(Before({"RULE"}, Len(source))) + 1
  BY <1>6, FS_AddElement
<1>8. Cardinality(Before({"RULE"}, Len(source))) \in Nat
  BY <1>6, FS_CardinalityType
<1>9. RuleOf(n)' = RuleOf(Len(source)) + (IF l.kind = "RULE" THEN 1 ELSE 0)
  <2>1. CASE l.kind = "RULE"
    BY <1>5, <1>7, <2>1 DEF RuleOf
  <2>2. CASE l.kind # "RULE"
    <3>1. Before({"RULE"}, n)' = Before({"RULE"}, Len(source))
      BY <1>5, <2>2
    <3>2. QED
      BY <1>8, <2>2, <3>1 DEF RuleOf
  <2>3. QED
    BY <2>1, <2>2
<1>10. QED
  BY <1>1, <1>2, <1>3, <1>4, <1>8, <1>9 DEF RuleOf

LEMMA RuleCount ==
    ASSUME source \in Seq(SourceLines), NEW i PROVE RuleOf(i) \in Nat
<1>1. Before({"RULE"}, i) \in SUBSET (1..Len(source))
  BY DEF Before
<1>2. IsFiniteSet(1..Len(source))
  BY FS_Interval
<1>3. IsFiniteSet(Before({"RULE"}, i))
  BY <1>1, <1>2, FS_Subset
<1>4. QED
  BY <1>3, FS_CardinalityType DEF RuleOf

\* The line belongs to one rule; the others keep their lines.
LEMMA ReadLineOf ==
    ASSUME source \in Seq(SourceLines), NEW l \in SourceLines, source' = Append(source, l),
           NEW n, n = Len(source) + 1, NEW k
    PROVE  LinesOf(k)' = LinesOf(k) \cup (IF RuleOf(n)' = k THEN {n} ELSE {})
<1>1. /\ DOMAIN source' = DOMAIN source \cup {n}
      /\ \A i \in DOMAIN source : RuleOf(i)' = RuleOf(i)
  BY ReadLine
<1>2. LinesOf(k)' = {i \in DOMAIN source' : RuleOf(i)' = k}
  BY DEF LinesOf
<1>3. LinesOf(k) = {i \in DOMAIN source : RuleOf(i) = k}
  BY DEF LinesOf
<1> HIDE DEF LinesOf
<1>4. QED
  BY <1>1, <1>2, <1>3

\* A rule that keeps its lines says what it said.
LEMMA SaysElsewhere ==
    ASSUME NEW k, NEW r, Says(k, r), LinesOf(k)' = LinesOf(k),
           \A i \in LinesOf(k) : source'[i] = source[i]
    PROVE  Says(k, r)'
<1>1. ConditionLines(k)' = ConditionLines(k)
  BY DEF ConditionLines
<1>2. MessageLines(k)' = MessageLines(k)
  BY DEF MessageLines
<1>3. \A K : Statements(k, K)' = Statements(k, K) /\ \A i \in Statements(k, K) : i \in LinesOf(k)
  BY DEF Statements
<1>4. \A i : Place(k, i)' = Place(k, i)
  BY <1>1 DEF Place
<1>5. \A i \in ConditionLines(k) : i \in LinesOf(k)
  BY DEF ConditionLines
<1>6. \A i \in ConditionLines(k) : r.conditions[Place(k, i)'] = source'[i].condition
  BY <1>4, <1>5 DEF Says
<1>7. QED
  BY <1>1, <1>2, <1>3, <1>6 DEF Says

LEMMA LastAdded ==
    ASSUME NEW S \in SUBSET Nat, NEW n \in Nat, \A i \in S : i < n
    PROVE  \A i : Last(i, S \cup {n}) <=> i = n
<1>1. ASSUME NEW i \in S PROVE ~(n \leq i) /\ i \leq n /\ i # n
  BY <1>1
<1>2. n \leq n
  OBVIOUS
<1>3. QED
  BY <1>1, <1>2 DEF Last

\* The rule that a statement amends.
LEMMA AmendedFields ==
    ASSUME NEW l \in SourceLines, NEW r \in ParsedRules
    PROVE  LET q == Amended(r, l)
           IN  /\ q.id = r.id
               /\ q.conditions = IF l.kind = "CONDITION" THEN Append(r.conditions, l.condition)
                                 ELSE r.conditions
               /\ q.action = IF l.kind = "THEN" THEN l.action ELSE r.action
               /\ q.sensitive = IF l.kind = "CASE" THEN l.sensitive ELSE r.sensitive
               /\ q.message = IF l.kind \in {"THEN", "MESSAGE"} /\ l.message # NoText
                              THEN l.message ELSE r.message
               /\ \A m \in MetaKinds : q.meta[m] = IF l.kind = m THEN l.text ELSE r.meta[m]
<1> USE DEF MetaKinds
<1>1. CASE l.kind = "MESSAGE"
  <2>1. l.message # NoText
    BY <1>1, TextsAssumption DEF SourceLines
  <2>2. QED
    BY <1>1, <2>1 DEF Amended, ParsedRules
<1>2. CASE l.kind = "THEN"
  <2> DEFINE m == IF l.message = NoText THEN r.message ELSE l.message
  <2>1. Amended(r, l) = [r EXCEPT !.action = l.action, !.message = m]
    BY <1>2 DEF Amended, ParsedRules
  <2> HIDE DEF m
  <2>2. Amended(r, l).message = m /\ Amended(r, l).action = l.action
        /\ Amended(r, l).id = r.id /\ Amended(r, l).conditions = r.conditions
        /\ Amended(r, l).sensitive = r.sensitive /\ Amended(r, l).meta = r.meta
    BY <2>1 DEF ParsedRules
  <2>3. QED
    BY <1>2, <2>2 DEF m
<1>3. CASE l.kind = "CONDITION"
  BY <1>3 DEF Amended, ParsedRules
<1>4. CASE l.kind = "CASE"
  BY <1>4 DEF Amended, ParsedRules
<1>5. CASE l.kind \in MetaKinds
  <2> DEFINE m == [r.meta EXCEPT ![l.kind] = l.text]
  <2>1. \A k \in MetaKinds : m[k] = IF l.kind = k THEN l.text ELSE r.meta[k]
    BY <1>5, ParsedRuleType
  <2>2. Amended(r, l) = [r EXCEPT !.meta = m]
    BY <1>5 DEF Amended, ParsedRules
  <2> HIDE DEF m
  <2>3. QED
    BY <1>5, <2>1, <2>2 DEF ParsedRules
<1>6. CASE l.kind \notin {"CONDITION", "THEN", "MESSAGE", "CASE"} \cup MetaKinds
  BY <1>6 DEF Amended
<1>7. QED
  BY <1>1, <1>2, <1>3, <1>4, <1>5, <1>6

\* Places are those of the conditions.
LEMMA PlaceType ==
    ASSUME source \in Seq(SourceLines), NEW k, NEW i \in ConditionLines(k)
    PROVE  /\ IsFiniteSet(ConditionLines(k))
           /\ Place(k, i) \in 1..Cardinality(ConditionLines(k))
<1> DEFINE P == {j \in ConditionLines(k) : j \leq i}
<1>1. IsFiniteSet(ConditionLines(k)) /\ i \in Nat
  <2>1. ConditionLines(k) \in SUBSET (1..Len(source))
    BY DEF ConditionLines, LinesOf
  <2>2. IsFiniteSet(1..Len(source))
    BY FS_Interval
  <2>3. QED
    BY <2>1, <2>2, FS_Subset
<1>2. i \in P /\ P \in SUBSET ConditionLines(k)
  BY <1>1
<1> HIDE DEF P
<1>3. IsFiniteSet(P) /\ Cardinality(P) \leq Cardinality(ConditionLines(k))
  BY <1>1, <1>2, FS_Subset
<1>4. Cardinality(P) \in Nat /\ Cardinality(P) # 0 /\ Cardinality(ConditionLines(k)) \in Nat
  BY <1>1, <1>2, <1>3, FS_CardinalityType, FS_EmptySet
<1>5. Place(k, i) = Cardinality(P)
  BY DEF Place, P
<1>6. QED
  BY <1>1, <1>3, <1>4, <1>5

\* A statement (or the END) of rule k amends it by what it says.
LEMMA SaysAmended ==
    ASSUME source \in Seq(SourceLines), NEW l \in SourceLines, source' = Append(source, l),
           NEW n, n = Len(source) + 1,
           NEW k, LinesOf(k)' = LinesOf(k) \cup {n},
           NEW r \in ParsedRules, Says(k, r), l.kind # "RULE",
           NEW q, q = Amended(r, l)
    PROVE  Says(k, q)'
<1>1. /\ n \in Nat /\ DOMAIN source \subseteq Nat /\ IsFiniteSet(DOMAIN source) /\ source'[n] = l
      /\ \A i \in DOMAIN source : i < n /\ source'[i] = source[i]
  BY ReadLine
<1>2. \A i \in LinesOf(k) : i \in DOMAIN source /\ i \in Nat /\ i < n /\ i # n /\ source'[i] = source[i]
  BY <1>1 DEF LinesOf
<1>3. /\ q.id = r.id
      /\ q.conditions = IF l.kind = "CONDITION" THEN Append(r.conditions, l.condition)
                        ELSE r.conditions
      /\ q.action = IF l.kind = "THEN" THEN l.action ELSE r.action
      /\ q.sensitive = IF l.kind = "CASE" THEN l.sensitive ELSE r.sensitive
      /\ q.message = IF l.kind \in {"THEN", "MESSAGE"} /\ l.message # NoText
                     THEN l.message ELSE r.message
      /\ \A m \in MetaKinds : q.meta[m] = IF l.kind = m THEN l.text ELSE r.meta[m]
  BY AmendedFields
<1> DEFINE C == ConditionLines(k)
           M == MessageLines(k)
<1>4. ASSUME NEW K
      PROVE  /\ Statements(k, K)' = Statements(k, K) \cup (IF l.kind = K THEN {n} ELSE {})
             /\ \A i \in Statements(k, K) : i \in LinesOf(k)
             /\ \A i : Last(i, Statements(k, K) \cup {n}) <=> i = n
  <2>1. Statements(k, K)' = Statements(k, K) \cup (IF l.kind = K THEN {n} ELSE {})
    BY <1>1, <1>2 DEF Statements
  <2>2. Statements(k, K) \in SUBSET Nat /\ \A i \in Statements(k, K) : i < n /\ i \in LinesOf(k)
    BY <1>1, <1>2 DEF Statements
  <2>3. \A i : Last(i, Statements(k, K) \cup {n}) <=> i = n
    BY <1>1, <2>2, LastAdded
  <2>4. QED
    BY <2>1, <2>2, <2>3
<1>5. /\ C' = C \cup (IF l.kind = "CONDITION" THEN {n} ELSE {})
      /\ C \in SUBSET LinesOf(k) /\ IsFiniteSet(C)
  <2>1. IsFiniteSet(LinesOf(k)) /\ C \in SUBSET LinesOf(k)
    BY <1>1, <1>2, FS_Subset DEF ConditionLines
  <2>2. C' = C \cup (IF l.kind = "CONDITION" THEN {n} ELSE {})
    BY <1>1, <1>2 DEF ConditionLines
  <2>3. QED
    BY <2>1, <2>2, FS_Subset
<1>6. /\ M' = M \cup (IF l.kind \in {"THEN", "MESSAGE"} /\ l.message # NoText THEN {n} ELSE {})
      /\ M \in SUBSET Nat /\ \A i \in M : i < n /\ i \in LinesOf(k)
  BY <1>1, <1>2 DEF MessageLines
<1>7. r.conditions \in Seq(ParsedConditions) /\ Len(r.conditions) = Cardinality(C)
  BY ParsedRuleType DEF Says
<1>8. /\ Len(q.conditions) = Cardinality(C')
      /\ \A i \in C' : q.conditions[Place(k, i)'] = source'[i].condition
  <2>1. ASSUME NEW i \in C
        PROVE  /\ Place(k, i)' = Place(k, i)
               /\ Place(k, i) \in 1..Len(r.conditions)
               /\ r.conditions[Place(k, i)] = source'[i].condition
    <3>1. i \in LinesOf(k) /\ i \in Nat /\ ~(n \leq i)
      BY <1>1, <1>2, <1>5, <2>1
    <3>2. {j \in C' : j \leq i} = {j \in C : j \leq i}
      BY <1>5, <3>1
    <3>3. Place(k, i)' = Place(k, i)
      BY <3>2 DEF Place
    <3>4. Place(k, i) \in 1..Len(r.conditions)
      BY <1>7, <2>1, PlaceType
    <3>5. r.conditions[Place(k, i)] = source[i].condition
      BY <2>1 DEF Says
    <3>6. QED
      BY <1>2, <3>1, <3>3, <3>4, <3>5
  <2>2. CASE l.kind = "CONDITION"
    <3>1. n \notin C
      BY <1>2, <1>5
    <3>2. Cardinality(C') = Len(r.conditions) + 1
      <4>1. C' = C \cup {n} /\ IsFiniteSet(C)
        BY <1>5, <2>2
      <4>2. Cardinality(C \cup {n}) = Cardinality(C) + 1
        BY <3>1, <4>1, FS_AddElement
      <4>3. QED
        BY <1>7, <4>1, <4>2
    <3>3. {j \in C' : j \leq n} = C'
      BY <1>1, <1>2, <1>5
    <3>4. Place(k, n)' = Len(r.conditions) + 1
      BY <3>2, <3>3 DEF Place
    <3>5. /\ q.conditions = Append(r.conditions, l.condition)
          /\ Len(q.conditions) = Len(r.conditions) + 1
          /\ q.conditions[Len(r.conditions) + 1] = l.condition
          /\ \A m \in 1..Len(r.conditions) : q.conditions[m] = r.conditions[m]
      BY <1>3, <1>7, <2>2
    <3>6. ASSUME NEW i \in C' PROVE q.conditions[Place(k, i)'] = source'[i].condition
      <4>1. CASE i = n
        BY <1>1, <3>4, <3>5, <4>1
      <4>2. CASE i \in C
        BY <2>1, <3>5, <4>2
      <4>3. QED
        BY <1>5, <3>6, <4>1, <4>2
    <3>7. QED
      BY <3>2, <3>5, <3>6
  <2>3. CASE l.kind # "CONDITION"
    BY <1>3, <1>5, <1>7, <2>1, <2>3
  <2>4. QED
    BY <2>2, <2>3
<1> HIDE DEF C, M
<1>9. /\ M' = {} => q.message = NoText
      /\ Statements(k, "CASE")' = {} => ~q.sensitive
      /\ \A m \in MetaKinds : Statements(k, m)' = {} => q.meta[m] = NoText
  <2>1. M' = {} => q.message = NoText
    BY <1>3, <1>6 DEF Says, M
  <2>2. ASSUME NEW K, Statements(k, K)' = {} PROVE l.kind # K /\ Statements(k, K) = {}
    BY <1>4, <2>2
  <2>3. QED
    BY <1>3, <2>1, <2>2 DEF Says
<1>10. ASSUME NEW i \in LinesOf(k)'
       PROVE  /\ source'[i].kind = "RULE" => q.id = source'[i].id
              /\ Last(i, Statements(k, "THEN")') => q.action = source'[i].action
              /\ Last(i, Statements(k, "CASE")') => q.sensitive = source'[i].sensitive
              /\ \A m \in MetaKinds :
                    Last(i, Statements(k, m)') => q.meta[m] = source'[i].text
              /\ Last(i, M') => q.message = source'[i].message
  <2>1. source'[i].kind = "RULE" => q.id = source'[i].id
    BY <1>1, <1>2, <1>3, <1>10 DEF Says
  <2>2. Last(i, Statements(k, "THEN")') => q.action = source'[i].action
    <3>1. CASE l.kind = "THEN"
      <4>1. Statements(k, "THEN")' = Statements(k, "THEN") \cup {n}
        BY <1>4, <3>1
      <4>2. Last(i, Statements(k, "THEN") \cup {n}) <=> i = n
        BY <1>4
      <4>3. QED
        BY <1>1, <1>3, <3>1, <4>1, <4>2
    <3>2. CASE l.kind # "THEN"
      <4>1. Statements(k, "THEN")' = Statements(k, "THEN")
        BY <1>4, <3>2
      <4>2. Last(i, Statements(k, "THEN")) => i \in LinesOf(k) /\ r.action = source[i].action
        BY <1>4 DEF Last, Says
      <4>3. QED
        BY <1>2, <1>3, <3>2, <4>1, <4>2
    <3>3. QED
      BY <3>1, <3>2
  <2>3. Last(i, Statements(k, "CASE")') => q.sensitive = source'[i].sensitive
    <3>1. CASE l.kind = "CASE"
      <4>1. Statements(k, "CASE")' = Statements(k, "CASE") \cup {n}
        BY <1>4, <3>1
      <4>2. Last(i, Statements(k, "CASE") \cup {n}) <=> i = n
        BY <1>4
      <4>3. QED
        BY <1>1, <1>3, <3>1, <4>1, <4>2
    <3>2. CASE l.kind # "CASE"
      <4>1. Statements(k, "CASE")' = Statements(k, "CASE")
        BY <1>4, <3>2
      <4>2. Last(i, Statements(k, "CASE")) => i \in LinesOf(k) /\ r.sensitive = source[i].sensitive
        BY <1>4 DEF Last, Says
      <4>3. QED
        BY <1>2, <1>3, <3>2, <4>1, <4>2
    <3>3. QED
      BY <3>1, <3>2
  <2>4. Last(i, M') => q.message = source'[i].message
    <3>1. CASE l.kind \in {"THEN", "MESSAGE"} /\ l.message # NoText
      <4>1. M' = M \cup {n}
        BY <1>6, <3>1
      <4>2. Last(i, M \cup {n}) <=> i = n
        BY <1>1, <1>6, LastAdded
      <4>3. QED
        BY <1>1, <1>3, <3>1, <4>1, <4>2
    <3>2. CASE ~(l.kind \in {"THEN", "MESSAGE"} /\ l.message # NoText)
      <4>1. Last(i, M) => i \in LinesOf(k) /\ r.message = source[i].message
        BY <1>6 DEF M, Last, Says
      <4>2. QED
        BY <1>2, <1>3, <1>6, <3>2, <4>1
    <3>3. QED
      BY <3>1, <3>2
  <2>5. ASSUME NEW m \in MetaKinds
        PROVE  Last(i, Statements(k, m)') => q.meta[m] = source'[i].text
    <3>1. CASE l.kind = m
      <4>1. Statements(k, m)' = Statements(k, m) \cup {n}
        BY <1>4, <3>1
      <4>2. Last(i, Statements(k, m) \cup {n}) <=> i = n
        BY <1>4
      <4>3. QED
        BY <1>1, <1>3, <3>1, <4>1, <4>2
    <3>2. CASE l.kind # m
      <4>1. Statements(k, m)' = Statements(k, m)
        BY <1>4, <3>2
      <4>2. Last(i, Statements(k, m)) => i \in LinesOf(k) /\ r.meta[m] = source[i].text
        BY <1>4 DEF Last, Says
      <4>3. QED
        BY <1>2, <1>3, <3>2, <4>1, <4>2
    <3>3. QED
      BY <3>1, <3>2
  <2>6. QED
    BY <2>1, <2>2, <2>3, <2>4, <2>5
<1>11. QED
  BY <1>8, <1>9, <1>10 DEF Says, C, M

-----------------------------------------------------------------------------
(* The steps keep the source *)

LEMMA SourceInit == Init => SourceInv
<1> SUFFICES ASSUME Init PROVE SourceInv
  OBVIOUS
<1>1. source = <<>> /\ rules = <<>> /\ DOMAIN source = {} /\ DOMAIN rules = {} /\ Len(rules) = 0
  BY DEF Init
<1>2. RuleOf(Len(source)) = 0
  BY <1>1, FS_EmptySet DEF RuleOf, Before
<1>3. default = "allow"
  BY DEF Init
<1>4. QED
  BY <1>1, <1>2, <1>3 DEF SourceInv

LEMMA SourceElsewhere ==
    ASSUME SourceInv, UNCHANGED <<source, rules, default, defaultSeen>>
    PROVE  SourceInv'
<1>1. ASSUME NEW i PROVE RuleOf(i)' = RuleOf(i)
  BY DEF RuleOf, Before
<1>2. RuleOf(Len(source))' = RuleOf(Len(source))
  BY DEF RuleOf, Before
<1>3. \A k : LinesOf(k)' = LinesOf(k)
  BY <1>1 DEF LinesOf
<1>4. ASSUME NEW k \in DOMAIN rules PROVE Says(k, rules[k])'
  <2>1. PICK r : r = rules[k]
    OBVIOUS
  <2>2. Says(k, r)'
    BY <1>3, <2>1, SaysElsewhere DEF SourceInv
  <2>3. QED
    BY <2>1, <2>2 DEF Says
<1>5. QED
  BY <1>1, <1>2, <1>4 DEF SourceInv

\* Where a line is read, the rules that it is not part of keep theirs.
LEMMA SourceRead ==
    ASSUME Inv, SourceInv, NEW l \in vocabulary, source' = Append(source, l),
           NEW n, n = Len(source) + 1
    PROVE  /\ l \in SourceLines /\ source \in Seq(SourceLines)
           /\ Len(rules) \in Nat /\ DOMAIN rules = 1..Len(rules)
           /\ RuleOf(n)' = Len(rules) + (IF l.kind = "RULE" THEN 1 ELSE 0)
           /\ RuleOf(Len(source))' = RuleOf(n)'
           /\ \A i \in DOMAIN source' : i # n => i \in DOMAIN source /\ RuleOf(i)' \leq Len(rules)
           /\ \A k : LinesOf(k)' = LinesOf(k) \cup (IF RuleOf(n)' = k THEN {n} ELSE {})
           /\ \A i \in DOMAIN source' : source'[i].kind = "DEFAULT" =>
                 (i = n /\ l.kind = "DEFAULT") \/ (defaultSeen /\ default = source'[i].action)
           /\ \A k \in DOMAIN rules : k # RuleOf(n)' => Says(k, rules[k])' \/ rules'[k] # rules[k]
<1>1. l \in SourceLines /\ source \in Seq(SourceLines) /\ rules \in Seq(ParsedRules)
  BY LineType DEF Inv, TypeInv, RulesInv
<1>2. /\ DOMAIN source' = DOMAIN source \cup {n} /\ Len(source') = n /\ source'[n] = l
      /\ \A i \in DOMAIN source : source'[i] = source[i] /\ RuleOf(i)' = RuleOf(i)
      /\ RuleOf(n)' = RuleOf(Len(source)) + (IF l.kind = "RULE" THEN 1 ELSE 0)
  BY <1>1, ReadLine
<1>3. \A k : LinesOf(k)' = LinesOf(k) \cup (IF RuleOf(n)' = k THEN {n} ELSE {})
  BY <1>1, ReadLineOf
<1>4. RuleOf(Len(source))' = RuleOf(n)'
  BY <1>2 DEF RuleOf, Before
<1>5. ASSUME NEW k \in DOMAIN rules, k # RuleOf(n)', rules'[k] = rules[k]
      PROVE  Says(k, rules[k])'
  <2>1. PICK r : r = rules[k]
    OBVIOUS
  <2>2. Says(k, r)
    BY <2>1 DEF SourceInv
  <2>3. LinesOf(k)' = LinesOf(k) /\ \A i \in LinesOf(k) : source'[i] = source[i]
    BY <1>2, <1>3, <1>5 DEF LinesOf
  <2>4. Says(k, r)'
    BY <2>2, <2>3, SaysElsewhere
  <2>5. QED
    BY <1>5, <2>1, <2>4 DEF Says
<1>6. Len(rules) \in Nat /\ DOMAIN rules = 1..Len(rules) /\ RuleOf(Len(source)) = Len(rules)
  BY <1>1 DEF SourceInv
<1>7. \A i \in DOMAIN source' : i # n => i \in DOMAIN source /\ RuleOf(i)' \leq Len(rules)
  BY <1>2 DEF SourceInv
<1>8. \A i \in DOMAIN source' : source'[i].kind = "DEFAULT" =>
         (i = n /\ l.kind = "DEFAULT") \/ (defaultSeen /\ default = source'[i].action)
  <2>1. \A i \in DOMAIN source : source[i].kind = "DEFAULT" => defaultSeen /\ default = source[i].action
    BY DEF SourceInv
  <2>2. ASSUME NEW i \in DOMAIN source', source'[i].kind = "DEFAULT", i # n
        PROVE  defaultSeen /\ default = source'[i].action
    <3>1. i \in DOMAIN source /\ source'[i] = source[i] /\ source[i].kind = "DEFAULT"
      BY <1>2, <2>2
    <3>2. QED
      BY <2>1, <3>1
  <2>3. \A i \in DOMAIN source' : i = n => source'[i].kind = l.kind
    BY <1>2
  <2>4. QED
    BY <2>2, <2>3
<1>9. RuleOf(n)' = Len(rules) + (IF l.kind = "RULE" THEN 1 ELSE 0)
  BY <1>2, <1>6
<1>10. \A k \in DOMAIN rules : k # RuleOf(n)' => Says(k, rules[k])' \/ rules'[k] # rules[k]
  BY <1>5
<1>11. QED
  BY <1>1, <1>3, <1>4, <1>6, <1>7, <1>8, <1>9, <1>10

\* A statement or an END.
LEMMA SourceAmended ==
    ASSUME Inv, SourceInv, NEW l \in vocabulary, source' = Append(source, l),
           rules # <<>>, l.kind \notin {"DEFAULT", "RULE"},
           rules' = [rules EXCEPT ![Len(rules)] = Amended(@, l)],
           UNCHANGED <<default, defaultSeen>>
    PROVE  SourceInv'
<1>1. PICK n : n = Len(source) + 1
  OBVIOUS
<1>2. PICK m : m = Len(rules)
  OBVIOUS
<1>3. /\ l \in SourceLines /\ source \in Seq(SourceLines)
      /\ m \in Nat /\ DOMAIN rules = 1..m /\ rules \in Seq(ParsedRules)
      /\ RuleOf(n)' = m /\ RuleOf(Len(source))' = m
      /\ \A i \in DOMAIN source' : i # n => RuleOf(i)' \leq m
      /\ LinesOf(m)' = LinesOf(m) \cup {n}
      /\ \A i \in DOMAIN source' : source'[i].kind = "DEFAULT" =>
            defaultSeen /\ default = source'[i].action
  BY <1>1, <1>2, SourceRead DEF Inv, RulesInv
<1>4. m \in 1..m
  BY <1>2, <1>3
<1>5. /\ DOMAIN rules' = 1..m /\ Len(rules') = m
      /\ rules'[m] = Amended(rules[m], l)
      /\ \A k \in 1..m : k # m => rules'[k] = rules[k]
  BY <1>2, <1>3, <1>4
<1>6. ASSUME NEW k \in DOMAIN rules' PROVE Says(k, rules[k])'
  <2>1. CASE k # m
    BY <1>1, <1>3, <1>5, <1>6, <2>1, SourceRead
  <2>2. CASE k = m
    <3>1. PICK r : r = rules[m]
      OBVIOUS
    <3>2. PICK q : q = Amended(r, l)
      OBVIOUS
    <3>3. r \in ParsedRules /\ Says(m, r)
      BY <1>3, <1>4, <3>1 DEF SourceInv
    <3>4. Says(m, q)'
      BY <1>1, <1>3, <3>2, <3>3, SaysAmended
    <3>5. rules'[k] = q
      BY <1>5, <2>2, <3>1, <3>2
    <3>6. QED
      BY <2>2, <3>4, <3>5 DEF Says
  <2>3. QED
    BY <2>1, <2>2
<1>7. \A i \in DOMAIN source' : RuleOf(i)' \leq m
  BY <1>3
<1>8. QED
  BY <1>3, <1>5, <1>6, <1>7 DEF SourceInv

LEMMA SourceOpenRule == ASSUME Inv, SourceInv, NEW l \in vocabulary, OpenRule(l) PROVE SourceInv'
<1>1. PICK n : n = Len(source) + 1
  OBVIOUS
<1>2. PICK m : m = Len(rules) + 1
  OBVIOUS
<1>3. /\ source' = Append(source, l) /\ l.kind = "RULE" /\ rules' = Append(rules, NewRule(l.id))
      /\ UNCHANGED <<default, defaultSeen>> /\ rules \in Seq(ParsedRules)
  BY DEF OpenRule, Reading, Inv, RulesInv
<1>4. /\ source \in Seq(SourceLines) /\ l \in SourceLines
      /\ Len(rules) \in Nat /\ DOMAIN rules = 1..Len(rules)
      /\ RuleOf(n)' = m /\ RuleOf(Len(source))' = m
      /\ \A i \in DOMAIN source' : i # n => i \in DOMAIN source /\ RuleOf(i)' \leq Len(rules)
      /\ LinesOf(m)' = LinesOf(m) \cup {n}
      /\ \A i \in DOMAIN source' : source'[i].kind = "DEFAULT" =>
            (i = n /\ l.kind = "DEFAULT") \/ (defaultSeen /\ default = source'[i].action)
  BY <1>1, <1>2, <1>3, SourceRead
<1>5. /\ Len(rules') = m /\ DOMAIN rules' = DOMAIN rules \cup {m} /\ m \in Nat
      /\ rules'[m] = NewRule(l.id) /\ m \notin DOMAIN rules
      /\ \A k \in DOMAIN rules : rules'[k] = rules[k] /\ k # m
  BY <1>2, <1>3, <1>4
<1>6. source'[n] = l
  BY <1>1, <1>3, <1>4
<1>7. LinesOf(m) = {}
  <2>1. ASSUME NEW i \in DOMAIN source PROVE RuleOf(i) # m
    <3>1. RuleOf(i) \leq Len(rules)
      BY DEF SourceInv
    <3>2. QED
      BY <1>2, <1>4, <3>1
  <2>2. QED
    BY <2>1 DEF LinesOf
<1>8. Says(m, NewRule(l.id))'
  <2>1. PICK r : r = NewRule(l.id)
    OBVIOUS
  <2>2. LinesOf(m)' = {n}
    BY <1>4, <1>7
  <2>3. /\ ConditionLines(m)' = {} /\ MessageLines(m)' = {}
        /\ \A K : K # "RULE" => Statements(m, K)' = {}
        /\ \A K \in MetaKinds \cup {"THEN", "CASE"} : K # "RULE"
    BY <1>3, <1>6, <2>2 DEF ConditionLines, MessageLines, Statements, MetaKinds
  <2>4. /\ r.id = l.id /\ r.conditions = <<>> /\ r.message = NoText /\ ~r.sensitive
        /\ \A K \in MetaKinds : r.meta[K] = NoText
    BY <2>1 DEF NewRule
  <2>5. Cardinality({}) = 0 /\ Len(<<>>) = 0
    BY FS_EmptySet
  <2>6. Says(m, r)'
    BY <1>3, <1>6, <2>2, <2>3, <2>4, <2>5 DEF Says, Last
  <2>7. QED
    BY <2>1, <2>6
<1>9. ASSUME NEW k \in DOMAIN rules' PROVE Says(k, rules[k])'
  <2>1. CASE k = m
    BY <1>5, <1>8, <2>1 DEF Says
  <2>2. CASE k # m
    BY <1>1, <1>3, <1>4, <1>5, <1>9, <2>2, SourceRead
  <2>3. QED
    BY <2>1, <2>2
<1>10. \A i \in DOMAIN source' : RuleOf(i)' \leq m
  <2>1. ASSUME NEW i \in DOMAIN source', i # n PROVE RuleOf(i)' \leq m
    <3>1. RuleOf(i)' \leq Len(rules)
      BY <1>4, <2>1
    <3>2. i \in DOMAIN source /\ RuleOf(i)' = RuleOf(i)
      BY <1>1, <1>3, <1>4, <2>1, ReadLine
    <3>3. RuleOf(i) \in Nat
      BY <1>4, RuleCount
    <3>4. QED
      BY <1>2, <1>4, <3>1, <3>2, <3>3
  <2>2. QED
    BY <1>4, <1>5, <2>1
<1>11. \A i \in DOMAIN source : i \in DOMAIN source' /\ source'[i] = source[i]
  BY <1>1, <1>3, <1>4, ReadLine
<1>12. QED
  BY <1>3, <1>4, <1>5, <1>9, <1>10, <1>11, <1>6 DEF SourceInv

\* default is said once, before the first rule.
LEMMA SourceDefault == ASSUME Inv, SourceInv, NEW l \in vocabulary, Default(l) PROVE SourceInv'
<1>1. PICK n : n = Len(source) + 1
  OBVIOUS
<1>2. /\ source' = Append(source, l) /\ l.kind = "DEFAULT" /\ UNCHANGED rules /\ rules = <<>>
      /\ ~defaultSeen /\ defaultSeen' /\ default' = l.action
  BY DEF Default, Reading, Accepts, MetaKinds
<1>3. /\ source \in Seq(SourceLines) /\ l \in SourceLines
      /\ Len(rules) = 0 /\ DOMAIN rules = {}
      /\ RuleOf(n)' = 0 /\ RuleOf(Len(source))' = 0
      /\ \A i \in DOMAIN source' : i # n => RuleOf(i)' \leq 0
      /\ \A i \in DOMAIN source' : source'[i].kind = "DEFAULT" => i = n
  BY <1>1, <1>2, SourceRead
<1>4. source'[n] = l
  BY <1>1, <1>2, <1>3
<1>5. QED
  BY <1>2, <1>3, <1>4 DEF SourceInv

LEMMA SourceNext == ASSUME Inv, SourceInv, [Next]_vars PROVE SourceInv'
<1>1. ASSUME NEW l \in vocabulary, CloseRule(l) PROVE SourceInv'
  <2>1. /\ source' = Append(source, l) /\ l.kind = "END" /\ rules \in Seq(ParsedRules)
        /\ rules # <<>> /\ UNCHANGED <<rules, default, defaultSeen>>
    BY <1>1 DEF CloseRule, Reading, Accepts, Inv, RulesInv, MetaKinds
  <2>2. rules' = [rules EXCEPT ![Len(rules)] = Amended(@, l)]
    BY <2>1 DEF Amended, MetaKinds
  <2>3. QED
    BY <1>1, <2>1, <2>2, SourceAmended
<1>2. ASSUME NEW l \in vocabulary, Statement(l) PROVE SourceInv'
  BY <1>2, SourceAmended DEF Statement, Reading, Accepts, Inv, RulesInv
<1>3. ASSUME NEW l \in vocabulary, Refuse(l) PROVE SourceInv'
  BY <1>3, SourceElsewhere DEF Refuse, parsed
<1>4. CASE Start \/ EndOfSource \/ CompileRule \/ Validate \/ UNCHANGED vars
  BY <1>4, SourceElsewhere DEF Start, EndOfSource, CompileRule, Validate, vars, parsed
<1>5. QED
  BY <1>1, <1>2, <1>3, <1>4, SourceOpenRule, SourceDefault DEF Next

\* The rules hold what the lines of the source say, from the first to the last.
THEOREM SourceHolds == Spec => []SourceInv
<1>1. Inv /\ SourceInv /\ [Next]_vars => SourceInv'
  BY SourceNext
<1>2. QED
  BY <1>1, SourceInit, InvHolds, PTL DEF Spec

\* A compiled policy says all that its source says, each condition with the
\* meaning that the documentation gives it, and nothing else (SourceKept).
THEOREM CompiledAsWritten == Spec => []SourceKept
<1>1. ASSUME Inv, SourceInv PROVE SourceKept
  <2>1. SUFFICES ASSUME status = "compiled" PROVE SourceKept
    BY DEF SourceKept
  <2>2. /\ Len(output) = Len(rules) /\ Validates(output)
        /\ rules \in Seq(ParsedRules) /\ output \in Seq(Rules)
    BY <1>1, <2>1 DEF Inv, StatusInv, RulesInv, OutputInv
  <2>3. Len(output) = Cardinality(Before({"RULE"}, Len(source)))
    BY <1>1, <2>2 DEF SourceInv, RuleOf
  <2>4. LET defaults == {source[i] : i \in Before({"DEFAULT"}, Len(source))}
        IN  (\A l \in defaults : default = l.action) /\ (defaults = {} => default = "allow")
    <3>1. \A i \in DOMAIN source : i \leq Len(source)
      BY <1>1 DEF Inv, TypeInv
    <3>2. QED
      BY <1>1, <3>1 DEF SourceInv, Before
  <2>5. ASSUME NEW k \in DOMAIN output
        PROVE  /\ Len(output[k].conditions) = Cardinality(ConditionLines(k))
               /\ \A i \in ConditionLines(k) :
                     Faithful(output[k].conditions[Place(k, i)], source[i].condition)
               /\ MessageLines(k) = {} => output[k].message = NoText
               /\ Statements(k, "CASE") = {} => ~output[k].sensitive
               /\ \A m \in MetaKinds : Statements(k, m) = {} => output[k].meta[m] = NoText
               /\ \A i \in LinesOf(k) :
                     /\ source[i].kind = "RULE" => output[k].id = source[i].id
                     /\ Last(i, Statements(k, "THEN")) => output[k].action = source[i].action
                     /\ Last(i, Statements(k, "CASE")) => output[k].sensitive = source[i].sensitive
                     /\ \A m \in MetaKinds :
                           Last(i, Statements(k, m)) => output[k].meta[m] = source[i].text
                     /\ Last(i, MessageLines(k)) => output[k].message = source[i].message
    <3> DEFINE r == rules[k]
               o == output[k]
    <3>1. k \in DOMAIN rules
      BY <2>2
    <3>2. /\ r \in ParsedRules /\ o = CompiledRule(r) /\ Says(k, r)
          /\ \A j \in DOMAIN r.conditions : Lowers(r.conditions[j])
          /\ ShortRule(o)
      BY <1>1, <2>2, <3>1 DEF Inv, OutputInv, SourceInv, Validates
    <3> HIDE DEF r, o
    <3>3. /\ o.id = r.id /\ o.action = r.action /\ o.message = r.message
          /\ o.sensitive = r.sensitive /\ o.meta = r.meta
          /\ Len(o.conditions) = Len(r.conditions) /\ DOMAIN o.conditions = DOMAIN r.conditions
          /\ \A j \in DOMAIN r.conditions : o.conditions[j] = Lowered(r.conditions[j])
      BY <3>2, CompiledRuleType DEF CompiledRule, ParsedRules
    <3>4. r.conditions \in Seq(ParsedConditions)
      BY <3>2, ParsedRuleType
    <3>5. ASSUME NEW i \in ConditionLines(k)
          PROVE  Faithful(o.conditions[Place(k, i)], source[i].condition)
      <4>1. Place(k, i) \in DOMAIN r.conditions
        BY <1>1, <3>2, <3>4, PlaceType DEF Says, Inv, TypeInv
      <4>2. PICK c : c = r.conditions[Place(k, i)]
        OBVIOUS
      <4>3. c = source[i].condition
        BY <3>2, <4>2 DEF Says
      <4>4. Parsed(c) /\ Lowers(c) /\ o.conditions[Place(k, i)] = Lowered(c)
        BY <3>2, <3>3, <3>4, <4>1, <4>2 DEF ParsedConditions
      <4>5. ShortCondition(Lowered(c))
        BY <3>2, <3>3, <4>1, <4>4 DEF ShortRule
      <4>6. QED
        BY <4>3, <4>4, <4>5, LoweringFaithful
    <3>6. /\ Len(o.conditions) = Cardinality(ConditionLines(k))
          /\ MessageLines(k) = {} => o.message = NoText
          /\ Statements(k, "CASE") = {} => ~o.sensitive
          /\ \A m \in MetaKinds : Statements(k, m) = {} => o.meta[m] = NoText
          /\ \A i \in LinesOf(k) :
                /\ source[i].kind = "RULE" => o.id = source[i].id
                /\ Last(i, Statements(k, "THEN")) => o.action = source[i].action
                /\ Last(i, Statements(k, "CASE")) => o.sensitive = source[i].sensitive
                /\ \A m \in MetaKinds : Last(i, Statements(k, m)) => o.meta[m] = source[i].text
                /\ Last(i, MessageLines(k)) => o.message = source[i].message
      BY <3>2, <3>3 DEF Says
    <3>7. QED
      BY <3>5, <3>6 DEF o
  <2>6. QED
    BY <2>3, <2>4, <2>5 DEF SourceKept, ConditionLines, MessageLines, Statements, Place, Last
<1>2. QED
  BY <1>1, InvHolds, SourceHolds, PTL
=============================================================================
