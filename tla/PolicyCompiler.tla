--------------------------- MODULE PolicyCompiler ---------------------------
(***************************************************************************)
(* policy_compiler.py: the lines of an ARSQuery source become rules        *)
(* (parse_policy), the conditions of the rules are lowered to operators of *)
(* the runtime (compile_rule), and validate_policy (policy_ir.py), which   *)
(* has tables and limits of its own, checks the result.                    *)
(*                                                                         *)
(* A line is what the keyword, the regular expression of conditions and    *)
(* ast.literal_eval make of it; what they do not accept is of kind "other".*)
(* Comments, blank lines and the limit on the bytes of the source are left *)
(* out.                                                                    *)
(***************************************************************************)
EXTENDS Naturals, Sequences, FiniteSets

CONSTANTS
    Texts,         \* values of conditions, messages, titles, ...
    NoText,        \* no message, or a title etc. by default
    TooLong,       \* texts of more than MAX_LITERAL_LENGTH characters
    LongCategories,\* texts that are longer than the validator wants a category
    BadRegex,      \* texts that re.compile rejects
    Containing,    \* per text, the texts of which it is a part
    Matching,      \* per text, the texts in which it is found as a pattern
    Escape,        \* re.escape
    Ids,           \* what RULE_ID accepts
    ScalarFields, ListFields,
    InputFields,   \* tool.input.*, whose values have any shape
    LongFields,    \* those of more than 128 characters
    Gates,         \* per threat field, the field of its gate
    Vocabularies,  \* bound: sets of lines that a source may be made of
    MaxLines,      \* bound: length of a source
    MaxRules, MaxConditions, MaxListValues

Fields == ScalarFields \cup ListFields \cup InputFields
ThreatFields == DOMAIN Gates
ScalarOperators ==
    {"==", "!=", "IN", "NOT_IN", "CONTAINS", "STARTS_WITH", "ENDS_WITH", "MATCHES"}
ListOperators == {"HAS_ANY", "HAS_ALL", "HAS_NONE"}
UnaryOperators == {"EXISTS", "NOT_EXISTS"}
OnLists == {"IN", "NOT_IN"} \cup ListOperators  \* those that take a list
Operators == ScalarOperators \cup ListOperators \cup UnaryOperators \cup {"ANY_MATCHES"}
Actions == {"allow", "deny", "audit"}

\* The literal after an operator: none, a string, or a list (order is left out).
Values == [shape : {"none", "string", "list"}, texts : SUBSET Texts]
IsLiteral(v) ==
    /\ v.shape = "none" => v.texts = {}
    /\ v.shape = "string" => \E t \in Texts : v.texts = {t}
    /\ IsFiniteSet(v.texts)
Conditions == [field : Fields, operator : Operators \cup {"IS"}, value : Values]

\* Statements whose text is only copied.
MetaKinds == {"TITLE", "DESCRIPTION", "VERSION", "CATEGORY", "SEVERITY"}

\* `long`: the literal of the condition, as it is written, has more than
\* MAX_LITERAL_LENGTH characters, be it for one text or for many.
SourceLines ==
    [kind : {"DEFAULT"}, action : {"allow", "deny"}]
    \cup [kind : {"RULE"}, id : Ids]
    \cup [kind : {"CONDITION"}, first : BOOLEAN, condition : Conditions, long : BOOLEAN]
    \cup [kind : {"THEN"}, action : Actions, message : Texts \cup {NoText}]
    \cup [kind : {"MESSAGE"}, message : Texts]
    \cup [kind : {"CASE"}, sensitive : BOOLEAN]
    \cup [kind : MetaKinds, text : Texts]
    \cup [kind : {"END", "other"}]

NoAction == "none"
Rules == [id : Ids, action : Actions \cup {NoAction}, message : Texts \cup {NoText},
          sensitive : BOOLEAN, meta : [MetaKinds -> Texts \cup {NoText}],
          conditions : Seq(Conditions)]

ASSUME TextsAssumption ==
    /\ NoText \notin Texts /\ TooLong \subseteq Texts /\ BadRegex \subseteq Texts
    /\ LongCategories \subseteq Texts
    /\ Containing \in [Texts -> SUBSET Texts] /\ Matching \in [Texts -> SUBSET Texts]
    /\ Escape \in [Texts -> Texts]
    \* What re.escape is for.
    /\ \A t \in Texts : Escape[t] \notin BadRegex
    /\ \A t \in Texts : Escape[t] \notin TooLong => Matching[Escape[t]] = Containing[t]
ASSUME FieldsAssumption ==
    /\ ScalarFields \cap ListFields = {} /\ ScalarFields \cap InputFields = {}
    /\ ListFields \cap InputFields = {} /\ LongFields \subseteq InputFields
    /\ ThreatFields \subseteq ListFields /\ \A f \in ThreatFields : Gates[f] \in ListFields
ASSUME LinesAssumption ==
    /\ \A lines \in Vocabularies : lines \subseteq SourceLines
    \* ast.literal_eval gives a string one text, and no text is longer than
    \* the literal it is written in.
    /\ \A l \in UNION Vocabularies :
          l.kind = "CONDITION" =>
              /\ IsLiteral(l.condition.value)
              /\ l.condition.value.texts \cap TooLong # {} => l.long
ASSUME BoundsAssumption ==
    MaxLines \in Nat /\ MaxRules \in Nat /\ MaxConditions \in Nat /\ MaxListValues \in Nat \ {0}

VARIABLES
    vocabulary,   \* the lines of this source
    settings,     \* the runtime settings: "fine", "reserved" (a reserved key) or "invalid"
    longName,     \* whether source_name is longer than MAX_PATH_LENGTH
    status,       \* "start", "parsing", "lowering", "compiled", "error" or "invalid"
    default,      \* default_action
    defaultSeen,
    rules,        \* the rules so far; the last one is current when `open`
    open,
    output        \* the rules compiled so far

VARIABLE source   \* history: the lines accepted

vars == <<vocabulary, settings, longName, status, default, defaultSeen, rules, open, output, source>>
parsed == <<default, defaultSeen, rules, open>>
input == <<vocabulary, settings, longName>>

TypeOK ==
    /\ vocabulary \in Vocabularies /\ settings \in {"fine", "reserved", "invalid"}
    /\ longName \in BOOLEAN
    /\ status \in {"start", "parsing", "lowering", "compiled", "error", "invalid"}
    /\ default \in {"allow", "deny"} /\ defaultSeen \in BOOLEAN
    /\ rules \in Seq(Rules) /\ open \in BOOLEAN
    /\ output \in Seq(Rules)
    /\ source \in Seq(SourceLines)

Init ==
    /\ vocabulary \in Vocabularies /\ settings \in {"fine", "reserved", "invalid"}
    /\ longName \in BOOLEAN
    /\ status = "start"
    /\ default = "allow" /\ defaultSeen = FALSE
    /\ rules = <<>> /\ open = FALSE
    /\ output = <<>> /\ source = <<>>

\* compile_policy looks at the settings first.
Start ==
    /\ status = "start"
    /\ status' = IF settings = "reserved" THEN "error" ELSE "parsing"
    /\ UNCHANGED <<input, parsed, output, source>>

-----------------------------------------------------------------------------
(* parse_policy *)

Current == rules[Len(rules)]

NewRule(id) == [id |-> id, action |-> NoAction, message |-> NoText,
                sensitive |-> FALSE, meta |-> [m \in MetaKinds |-> NoText],
                conditions |-> <<>>]

\* _condition_value
ValueFits(o, v) ==
    \/ o \in UnaryOperators /\ v.shape = "none"
    \/ /\ o \in OnLists \cup {"IS"} /\ v.shape = "list"
       /\ v.texts # {} /\ Cardinality(v.texts) \leq MaxListValues
    \/ o \notin UnaryOperators \cup OnLists /\ v.shape = "string"

\* What END asks of the current rule.
Finished(r) ==
    /\ r.action # NoAction /\ r.conditions # <<>>
    /\ r.action = "deny" => r.message # NoText

\* The statements that are accepted; all others raise a CompileError.
Accepts(l) ==
    \/ ~open /\ l.kind = "DEFAULT" /\ ~defaultSeen /\ rules = <<>>
    \/ ~open /\ l.kind = "RULE" /\ Len(rules) < MaxRules
    \/ open /\ l.kind = "END" /\ Finished(Current)
    \/ /\ open /\ l.kind = "CONDITION"
       /\ l.first = (Current.conditions = <<>>)
       /\ Len(Current.conditions) < MaxConditions
       /\ ~l.long /\ ValueFits(l.condition.operator, l.condition.value)
    \/ /\ open /\ l.kind = "THEN"
       /\ l.message # NoText => l.action = "deny" /\ Current.message = NoText
    \/ open /\ l.kind \in {"MESSAGE", "CASE"} \cup MetaKinds

\* Mutant: a second THEN starts over.
AmendedAnew(r, l) ==
    CASE l.kind = "CONDITION" -> [r EXCEPT !.conditions = Append(@, l.condition)]
      [] l.kind = "THEN" ->
           [r EXCEPT !.action = l.action, !.message = l.message]
      [] l.kind = "MESSAGE" -> [r EXCEPT !.message = l.message]
      [] l.kind = "CASE" -> [r EXCEPT !.sensitive = l.sensitive]
      [] l.kind \in MetaKinds -> [r EXCEPT !.meta[l.kind] = l.text]
      [] OTHER -> r

\* The current rule after a statement: the last one of each kind counts.
Amended(r, l) ==
    CASE l.kind = "CONDITION" -> [r EXCEPT !.conditions = Append(@, l.condition)]
      [] l.kind = "THEN" ->
           [r EXCEPT !.action = l.action,
                     !.message = IF l.message = NoText THEN @ ELSE l.message]
      [] l.kind = "MESSAGE" -> [r EXCEPT !.message = l.message]
      [] l.kind = "CASE" -> [r EXCEPT !.sensitive = l.sensitive]
      [] l.kind \in MetaKinds -> [r EXCEPT !.meta[l.kind] = l.text]
      [] OTHER -> r

Reading(l) ==
    /\ status = "parsing" /\ Len(source) < MaxLines
    /\ Accepts(l)
    /\ source' = Append(source, l)

Default(l) ==
    /\ Reading(l) /\ l.kind = "DEFAULT"
    /\ default' = l.action /\ defaultSeen' = TRUE
    /\ UNCHANGED <<input, status, rules, open, output>>

OpenRule(l) ==
    /\ Reading(l) /\ l.kind = "RULE"
    /\ rules' = Append(rules, NewRule(l.id))
    /\ open' = TRUE
    /\ UNCHANGED <<input, status, default, defaultSeen, output>>

CloseRule(l) ==
    /\ Reading(l) /\ l.kind = "END"
    /\ open' = FALSE
    /\ UNCHANGED <<input, status, default, defaultSeen, rules, output>>

Statement(l) ==
    /\ Reading(l) /\ l.kind \notin {"DEFAULT", "RULE", "END"}
    /\ rules' = [rules EXCEPT ![Len(rules)] = Amended(@, l)]
    /\ UNCHANGED <<input, status, default, defaultSeen, open, output>>

Refuse(l) ==
    /\ status = "parsing" /\ Len(source) < MaxLines
    /\ ~Accepts(l)
    /\ status' = "error"
    /\ UNCHANGED <<input, parsed, output, source>>

DistinctIds(rs) == \A i, j \in DOMAIN rs : rs[i].id = rs[j].id => i = j

EndOfSource ==
    /\ status = "parsing"
    /\ status' = IF open \/ rules = <<>> \/ ~DistinctIds(rules) THEN "error" ELSE "lowering"
    /\ UNCHANGED <<input, parsed, output, source>>

-----------------------------------------------------------------------------
(* compile_rule *)

\* A pattern for the text of a CONTAINS.
Literal(texts) == {Escape[t] : t \in texts}

\* The simple operators become those that fit the field.
Lowered(c) ==
    LET list == c.field \in ListFields
        inInput == c.field \in InputFields
    IN  CASE c.operator = "IS" /\ (list \/ (inInput /\ c.value.shape = "list")) ->
               [c EXCEPT !.operator = "HAS_ANY", !.value.shape = "list"]
          [] c.operator = "IS" /\ ~list /\ ~inInput /\ c.value.shape = "list" ->
               [c EXCEPT !.operator = "IN"]
          [] c.operator = "IS" /\ ~list /\ c.value.shape # "list" ->
               [c EXCEPT !.operator = "=="]
          [] c.operator = "MATCHES" /\ list -> [c EXCEPT !.operator = "ANY_MATCHES"]
          [] c.operator = "CONTAINS" /\ list ->
               [c EXCEPT !.operator = "ANY_MATCHES", !.value.texts = Literal(@)]
          [] OTHER -> c

\* Mutant: the operators for lists are allowed on all fields.
CompilerAllowsLists(f) ==
    CASE f \in InputFields -> ScalarOperators \cup ListOperators \cup UnaryOperators
      [] f \in ListFields -> ListOperators \cup {"ANY_MATCHES"} \cup UnaryOperators
      [] OTHER -> ScalarOperators \cup ListOperators \cup UnaryOperators

\* The operators that compile_rule allows on a field.
CompilerAllows(f) ==
    CASE f \in InputFields -> ScalarOperators \cup ListOperators \cup UnaryOperators
      [] f \in ListFields -> ListOperators \cup {"ANY_MATCHES"} \cup UnaryOperators
      [] OTHER -> ScalarOperators \cup UnaryOperators

Patterns == {"MATCHES", "ANY_MATCHES"}

Lowers(c) ==
    /\ Lowered(c).operator \in CompilerAllows(c.field)
    /\ Lowered(c).operator \in Patterns => Lowered(c).value.texts \cap BadRegex = {}

CompiledRule(r) ==
    [r EXCEPT !.conditions = [j \in DOMAIN r.conditions |-> Lowered(r.conditions[j])]]

\* One turn of the loop over the rules.
CompileRule ==
    /\ status = "lowering" /\ Len(output) < Len(rules)
    /\ LET r == rules[Len(output) + 1]
       IN  IF \A j \in DOMAIN r.conditions : Lowers(r.conditions[j])
           THEN output' = Append(output, CompiledRule(r)) /\ UNCHANGED status
           ELSE status' = "error" /\ UNCHANGED output
    /\ UNCHANGED <<input, parsed, source>>

-----------------------------------------------------------------------------
(* validate_policy *)

\* The operators that _validate_condition allows on a field.
RuntimeAllows(f) ==
    CASE f \in ListFields -> ListOperators \cup {"ANY_MATCHES"} \cup UnaryOperators
      [] f \in InputFields -> Operators
      [] OTHER -> ScalarOperators \cup UnaryOperators

ValidCondition(c) ==
    /\ c.field \in Fields
    /\ c.operator \in RuntimeAllows(c.field)
    /\ c.operator \in UnaryOperators <=> c.value.shape = "none"
    /\ c.operator \in OnLists <=> c.value.shape = "list"
    /\ c.operator \in OnLists => c.value.texts # {} /\ Cardinality(c.value.texts) \leq MaxListValues
    /\ c.operator \in Patterns => c.value.texts \cap BadRegex = {}

ShortCondition(c) == c.field \notin LongFields /\ c.value.texts \cap TooLong = {}

\* A rule on threat fields has exactly one gate for their lookups.
Gated(r) ==
    \A j \in DOMAIN r.conditions :
        r.conditions[j].field \in ThreatFields =>
            \E g \in DOMAIN r.conditions :
                \A i \in DOMAIN r.conditions :
                    (/\ r.conditions[i].field = Gates[r.conditions[j].field]
                     /\ r.conditions[i].operator = "ANY_MATCHES") <=> i = g

ValidRule(r) ==
    /\ r.id \in Ids /\ r.action \in Actions
    /\ r.action = "deny" => r.message # NoText
    /\ r.conditions # <<>> /\ Len(r.conditions) \leq MaxConditions
    /\ \A j \in DOMAIN r.conditions : ValidCondition(r.conditions[j])

\* The texts that are too long for a statement; a severity is one of five words.
LongAs(m) ==
    CASE m = "CATEGORY" -> LongCategories
      [] m = "SEVERITY" -> {}
      [] OTHER -> TooLong

ShortRule(r) ==
    /\ r.message \notin TooLong
    /\ \A m \in MetaKinds : r.meta[m] \notin LongAs(m)
    /\ \A j \in DOMAIN r.conditions : ShortCondition(r.conditions[j])

Validates(rs) ==
    /\ ~longName /\ settings # "invalid"
    /\ rs # <<>> /\ Len(rs) \leq MaxRules /\ DistinctIds(rs)
    /\ \A k \in DOMAIN rs : ValidRule(rs[k]) /\ ShortRule(rs[k]) /\ Gated(rs[k])

Validate ==
    /\ status = "lowering" /\ Len(output) = Len(rules)
    /\ status' = IF Validates(output) THEN "compiled" ELSE "invalid"
    /\ UNCHANGED <<input, parsed, output, source>>

Next ==
    \/ Start
    \/ \E l \in vocabulary :
          Default(l) \/ OpenRule(l) \/ CloseRule(l) \/ Statement(l) \/ Refuse(l)
    \/ EndOfSource \/ CompileRule \/ Validate

Spec == Init /\ [][Next]_vars

-----------------------------------------------------------------------------
(* The meaning of conditions *)

\* Values that an event or an invocation may have in a field.
ActualShapes(f) ==
    CASE f \in ScalarFields -> {"string"}
      [] f \in ListFields -> {"list"}
      [] OTHER -> {"string", "list"}

Actuals(f) ==
    {v \in [shape : ActualShapes(f), texts : SUBSET Texts] :
        v.shape = "string" => \E t \in Texts : v.texts = {t}}

\* _predicate_matches, for the operators that lowering yields.
RuntimeHolds(c, v) ==
    CASE c.operator \in {"==", "IN"} -> v.shape = "string" /\ v.texts \subseteq c.value.texts
      [] c.operator = "HAS_ANY" -> v.shape = "list" /\ v.texts \cap c.value.texts # {}
      [] c.operator = "CONTAINS" ->
           v.shape = "string" /\ \E p \in c.value.texts : v.texts \subseteq Containing[p]
      [] c.operator = "MATCHES" ->
           v.shape = "string" /\ \E p \in c.value.texts : v.texts \subseteq Matching[p]
      [] c.operator = "ANY_MATCHES" ->
           v.shape = "list" /\ \E p \in c.value.texts : v.texts \cap Matching[p] # {}

\* docs/policy-compiler.md, "Simple matching": the same words for a field
\* that is one string and for a field that is a list.
Meant(c, v) ==
    CASE c.operator = "IS" -> v.texts \cap c.value.texts # {}
      [] c.operator = "CONTAINS" -> \E p \in c.value.texts, t \in v.texts : t \in Containing[p]
      [] c.operator = "MATCHES" -> \E p \in c.value.texts, t \in v.texts : t \in Matching[p]

\* The shapes of tool.input.* that the lowering of a condition is made for.
Foreseen(c, v) ==
    c.field \in InputFields =>
        (v.shape = "list" <=> c.operator = "IS" /\ c.value.shape = "list")

\* d says at runtime what c says in the source.
Faithful(d, c) ==
    /\ d.field = c.field
    /\ IF c.operator \in {"IS", "CONTAINS", "MATCHES"}
       THEN \A v \in Actuals(c.field) : Foreseen(c, v) => (RuntimeHolds(d, v) <=> Meant(c, v))
       ELSE d = c

-----------------------------------------------------------------------------
(* Properties *)

Before(kinds, i) == {j \in DOMAIN source : j \leq i /\ source[j].kind \in kinds}

\* The rule that line i belongs to, and the lines of rule k.
RuleOf(i) == Cardinality(Before({"RULE"}, i))
LinesOf(k) == {i \in DOMAIN source : RuleOf(i) = k}

\* A compiled policy says all that the source says, and nothing else: its
\* rules in their order, each with its conditions, in order and with the
\* meaning the documentation gives them, and of repeated statements the last;
\* what the source does not say has its default.  Nothing of a source is
\* dropped or lands in another rule.
SourceKept ==
    status = "compiled" =>
        /\ Len(output) = Cardinality(Before({"RULE"}, Len(source)))
        /\ LET defaults == {source[i] : i \in Before({"DEFAULT"}, Len(source))}
           IN  /\ \A l \in defaults : default = l.action
               /\ defaults = {} => default = "allow"
        /\ \A k \in DOMAIN output :
              LET Statements(kind) == {i \in LinesOf(k) : source[i].kind = kind}
                  conditions == Statements("CONDITION")
                  messages == {i \in LinesOf(k) : /\ source[i].kind \in {"THEN", "MESSAGE"}
                                                  /\ source[i].message # NoText}
                  IsLast(i, of) == i \in of /\ \A j \in of : j \leq i
              IN  /\ Len(output[k].conditions) = Cardinality(conditions)
                  /\ \A i \in conditions :
                        Faithful(output[k].conditions[Cardinality({j \in conditions : j \leq i})],
                                 source[i].condition)
                  /\ messages = {} => output[k].message = NoText
                  /\ Statements("CASE") = {} => ~output[k].sensitive
                  /\ \A m \in MetaKinds : Statements(m) = {} => output[k].meta[m] = NoText
                  /\ \A i \in LinesOf(k) :
                        /\ source[i].kind = "RULE" => output[k].id = source[i].id
                        /\ IsLast(i, Statements("THEN")) => output[k].action = source[i].action
                        /\ IsLast(i, Statements("CASE")) =>
                              output[k].sensitive = source[i].sensitive
                        /\ \A m \in MetaKinds :
                              IsLast(i, Statements(m)) => output[k].meta[m] = source[i].text
                        /\ IsLast(i, messages) => output[k].message = source[i].message

\* The compiler and the validator of the runtime each have their own tables
\* of fields, operators and limits.  On what a rule may say they agree: what
\* the compiler has accepted is rejected later only for the settings, which it
\* does not look into, for a missing or doubled gate, or for a length that it
\* does not limit: of the name of the source, of a message, title,
\* description, version or category, of a field of tool.input.*, or of the
\* text of a CONTAINS once it is escaped.
LateRejectionsKnown ==
    status = "invalid" =>
        \/ settings = "invalid" \/ longName
        \/ \E k \in DOMAIN output :
              \/ ~Gated(output[k])
              \/ rules[k].message \in TooLong
              \/ \E m \in MetaKinds : rules[k].meta[m] \in LongAs(m)
              \/ \E j \in DOMAIN rules[k].conditions :
                    LET c == rules[k].conditions[j]
                    IN  \/ c.field \in LongFields
                        \/ /\ c.operator = "CONTAINS" /\ c.field \in ListFields
                           /\ Literal(c.value.texts) \cap TooLong # {}
=============================================================================
