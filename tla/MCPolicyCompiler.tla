-------------------------- MODULE MCPolicyCompiler --------------------------
(***************************************************************************)
(* Small instances of PolicyCompiler for TLC.                              *)
(***************************************************************************)
EXTENDS PolicyCompiler, TLC

CONSTANTS r1, r2, dot, escapedDot, brackets, long, name, inputKey, longKey, dest, threat

MCTexts == {dot, escapedDot, brackets, long}

\* As a pattern, dot finds all texts, as a literal only itself and its escaped
\* form.  The brackets are no pattern, and too long when they are escaped.
MCContaining == [t \in Texts |-> IF t = dot THEN {dot, escapedDot} ELSE {t}]
MCMatching == [t \in Texts |-> CASE t = dot -> Texts [] t = escapedDot -> {dot, escapedDot}
                                 [] OTHER -> {t}]
MCEscape == [t \in Texts |-> IF t = dot THEN escapedDot ELSE long]

MCGates == [f \in {threat} |-> dest]

Is(field, shape, texts) ==
    [field |-> field, operator |-> "IS", value |-> [shape |-> shape, texts |-> texts]]
Has(field, operator, shape, texts) ==
    [field |-> field, operator |-> operator, value |-> [shape |-> shape, texts |-> texts]]
When(c) == [kind |-> "CONDITION", first |-> TRUE, condition |-> c, long |-> long \in c.value.texts]
And(c) == [When(c) EXCEPT !.first = FALSE]
Wordy(line) == [line EXCEPT !.long = TRUE]
Meta(kind, text) == [kind |-> kind, text |-> text]
Then(action, message) == [kind |-> "THEN", action |-> action, message |-> message]

Plain == When(Is(name, "list", {dot, brackets}))
Rule1 == [kind |-> "RULE", id |-> r1]
Rule2 == [kind |-> "RULE", id |-> r2]
End == [kind |-> "END"]

\* The order of rules and defaults, of the statements of a rule, and of its
\* conditions: their kinds, their errors, threat fields with their gates, and
\* what is only copied, with the lengths that the validator limits.
MCVocabularies ==
    {{[kind |-> "DEFAULT", action |-> "deny"], Rule1, Rule2, Plain, And(Is(name, "string", {dot})),
      Then("deny", dot), Then("audit", NoText), End},
     {Rule1, Plain, Then("deny", NoText), Then("deny", dot), Then("allow", NoText),
      [kind |-> "MESSAGE", message |-> long], [kind |-> "CASE", sensitive |-> TRUE],
      End, [kind |-> "other"]},
     {Rule1, Then("allow", NoText), End,
      When(Is(inputKey, "list", {dot})), And(Is(inputKey, "string", {dot})),
      When(Is(dest, "string", {dot})), And(Has(dest, "HAS_NONE", "list", {dot})),
      When(Has(dest, "CONTAINS", "string", {brackets})),
      When(Has(name, "CONTAINS", "string", {brackets})),
      And(Has(name, "MATCHES", "string", {dot})), And(Has(name, "MATCHES", "string", {brackets})),
      And(Has(name, "HAS_ANY", "list", {dot})), And(Has(name, "NOT_EXISTS", "none", {})),
      When(Has(name, "IN", "list", {})), And(Has(name, "==", "string", {long}))},
     {Rule1, Then("audit", NoText), End,
      When(Has(dest, "CONTAINS", "string", {dot})), And(Has(dest, "MATCHES", "string", {dot})),
      When(Has(threat, "HAS_ANY", "list", {dot})), And(Has(threat, "HAS_ANY", "list", {dot}))},
     {Rule1, Rule2, Plain, Wordy(Plain), When(Has(longKey, "==", "string", {dot})),
      Then("audit", NoText), Meta("TITLE", dot), Meta("TITLE", long),
      Meta("CATEGORY", brackets), End}}
=============================================================================
