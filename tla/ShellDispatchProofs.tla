------------------------- MODULE ShellDispatchProofs -------------------------
(***************************************************************************)
(* Theorems about ShellDispatch for all command lines, texts, options and  *)
(* limits, and their TLAPS proofs.                                         *)
(***************************************************************************)
EXTENDS ShellDispatch, SequenceTheorems, WellFoundedInduction, TLAPS

(* Loops *)

\* Induction up to a number, for a set of numbers.
LEMMA LessWellFounded == IsWellFoundedOn({ss \in Nat \X Nat : ss[1] < ss[2]}, Nat)
BY NatLessThanWellFounded, Zenon DEF OpToRel

LEMMA UpTo ==
    ASSUME NEW N \in Nat, NEW P, 0 \in P,
           \A n \in 0..N : n + 1 \leq N /\ n \in P => n + 1 \in P
    PROVE  0..N \subseteq P
<1> DEFINE T == (0..N) \ P
           R == {ss \in Nat \X Nat : ss[1] < ss[2]}
<1>1. SUFFICES ASSUME T # {} PROVE FALSE
  OBVIOUS
<1>2. PICK m \in T : \A n \in T : ~(<<n, m>> \in R)
  <2>1. T \subseteq Nat
    OBVIOUS
  <2>2. IsWellFoundedOn(R, Nat)
    BY LessWellFounded
  <2> HIDE DEF T, R
  <2>3. QED
    BY <1>1, <2>1, <2>2, WFMin
<1>3. m - 1 \in 0..N /\ m - 1 < m /\ m - 1 \in Nat /\ m \in Nat /\ (m - 1) + 1 = m
  BY <1>2
<1>4. <<m - 1, m>> \in R
  BY <1>3
<1>5. m - 1 \notin T
  BY <1>2, <1>4
<1>6. QED
  BY <1>2, <1>3, <1>5

\* The turns of a loop over states S, and a run of it.
Turns(T, N, S) == T \in [1..N -> [S -> S]]
Loops(g, T, N, S, s) ==
    /\ g \in [0..N -> S]
    /\ g[0] = s
    /\ \A n \in 1..N : g[n] = T[n][g[n - 1]]

LEMMA Iterates ==
    ASSUME NEW N \in Nat, NEW S, NEW s \in S, NEW T, Turns(T, N, S)
    PROVE  \E g : Loops(g, T, N, S, s)
<1> DEFINE Def(g, i) == g[0] = s /\ \A k \in 1..i : g[k] = T[k][g[k - 1]]
           P == {i \in 0..N : \E g \in [0..i -> S] : Def(g, i)}
<1>0. T \in [1..N -> [S -> S]]
  BY DEF Turns
<1>1. 0 \in P
  <2>1. [k \in 0..0 |-> s] \in [0..0 -> S] /\ Def([k \in 0..0 |-> s], 0)
    OBVIOUS
  <2> HIDE DEF Def
  <2>2. QED
    BY <2>1
<1>2. ASSUME NEW n \in 0..N, n + 1 \leq N, n \in P
      PROVE  n + 1 \in P
  <2>1. PICK g \in [0..n -> S] : Def(g, n)
    BY <1>2
  <2>2. n \in Nat /\ n \in 0..n /\ n + 1 \in 1..N /\ n + 1 \in 0..N
    BY <1>2
  <2> DEFINE h == [k \in 0..(n + 1) |-> IF k \leq n THEN g[k] ELSE T[n + 1][g[n]]]
  <2>3. T[n + 1][g[n]] \in S
    BY <1>0, <2>2
  <2>4. \A k \in 0..(n + 1) : h[k] \in S
    <3>1. \A k \in 0..(n + 1) : k \leq n => k \in 0..n
      BY <2>2
    <3>2. QED
      BY <2>3, <3>1
  <2>5. h \in [0..(n + 1) -> S]
    BY <2>4
  <2>6. \A k \in 0..(n + 1) : h[k] = IF k \leq n THEN g[k] ELSE T[n + 1][g[n]]
    OBVIOUS
  <2> HIDE DEF h
  <2>7. h[0] = s
    BY <2>1, <2>2, <2>6
  <2>8. ASSUME NEW k \in 1..(n + 1)
        PROVE  h[k] = T[k][h[k - 1]]
    <3>1. k - 1 \in 0..(n + 1) /\ k - 1 \leq n /\ k \in 0..(n + 1) /\ h[k - 1] = g[k - 1]
      BY <2>2, <2>6
    <3>2. CASE k \leq n
      <4>1. k \in 1..n
        BY <3>2, <2>2
      <4>2. g[k] = T[k][g[k - 1]]
        BY <2>1, <4>1
      <4>3. QED
        BY <3>1, <3>2, <4>2, <2>6
    <3>3. CASE ~(k \leq n)
      <4>1. k = n + 1 /\ k - 1 = n
        BY <3>3, <2>2
      <4>2. QED
        BY <3>1, <3>3, <4>1, <2>6
    <3>4. QED
      BY <3>2, <3>3
  <2>9. Def(h, n + 1)
    BY <2>7, <2>8
  <2> HIDE DEF Def
  <2>10. QED
    BY <2>2, <2>5, <2>9
<1>3. N \in P
  <2>1. N \in 0..N
    OBVIOUS
  <2> HIDE DEF P
  <2>2. QED
    BY <1>1, <1>2, <2>1, UpTo
<1>4. QED
  BY <1>3 DEF Loops

-----------------------------------------------------------------------------
(* Programs in programs *)

LEMMA NestedIs ==
    ASSUME NEW tokens
    PROVE  Nested(tokens) = [k \in 0..(MaxNesting + 1) |->
                                IF k = 0 THEN {tokens} ELSE Inside(Nested(tokens)[k - 1])]
<1> DEFINE N == MaxNesting + 1
           Def(g, i) == g = [k \in 0..i |-> IF k = 0 THEN {tokens} ELSE Inside(g[k - 1])]
           P == {i \in 0..N : \E g : Def(g, i)}
<1>1. N \in Nat /\ 0 \in 0..N /\ N \in 0..N
  BY BoundsAssumption
<1> HIDE DEF N
<1>2. 0 \in P
  <2> DEFINE h == [k \in 0..0 |-> {tokens}]
  <2>1. h = [k \in 0..0 |-> IF k = 0 THEN {tokens} ELSE Inside(h[k - 1])]
    OBVIOUS
  <2>2. Def(h, 0)
    BY <2>1
  <2> HIDE DEF Def
  <2>3. QED
    BY <1>1, <2>2
<1>3. ASSUME NEW n \in 0..N, n + 1 \leq N, n \in P
      PROVE  n + 1 \in P
  <2>1. PICK g : Def(g, n)
    BY <1>3
  <2> DEFINE h == [k \in 0..(n + 1) |-> IF k \leq n THEN g[k] ELSE Inside(g[n])]
  <2>2. n \in Nat /\ n + 1 \in 0..N
    BY <1>1, <1>3
  <2>3. \A k \in 0..n : g[k] = IF k = 0 THEN {tokens} ELSE Inside(g[k - 1])
    BY <2>1
  <2>4. \A k \in 0..(n + 1) : h[k] = IF k \leq n THEN g[k] ELSE Inside(g[n])
    OBVIOUS
  <2>5. h = [k \in 0..(n + 1) |-> h[k]]
    OBVIOUS
  <2> HIDE DEF h
  <2>6. ASSUME NEW k \in 0..(n + 1)
        PROVE  h[k] = IF k = 0 THEN {tokens} ELSE Inside(h[k - 1])
    <3>1. CASE k = 0
      <4>1. 0 \in 0..n /\ 0 \in 0..(n + 1) /\ 0 \leq n
        BY <2>2
      <4>2. QED
        BY <3>1, <4>1, <2>3, <2>4
    <3>2. CASE k # 0 /\ k \leq n
      <4>1. k - 1 \in 0..(n + 1) /\ k - 1 \leq n /\ k \in 0..n
        BY <3>2, <2>2
      <4>2. QED
        BY <3>2, <4>1, <2>3, <2>4
    <3>3. CASE k = n + 1
      <4>1. k - 1 = n /\ n \in 0..(n + 1) /\ n \leq n /\ ~(k \leq n) /\ k # 0
        BY <3>3, <2>2
      <4>2. QED
        BY <4>1, <2>4
    <3>4. QED
      BY <3>1, <3>2, <3>3, <2>2
  <2>7. Def(h, n + 1)
    BY <2>5, <2>6
  <2> HIDE DEF Def
  <2>8. QED
    BY <2>2, <2>7
<1>4. \E g : Def(g, N)
  <2> HIDE DEF P
  <2>1. N \in P
    BY <1>1, <1>2, <1>3, UpTo
  <2> USE DEF P
  <2>2. QED
    BY <2>1
<1> DEFINE Is(g) == Def(g, N)
<1>5. Nested(tokens) = CHOOSE g : Is(g)
  BY DEF Nested, N
<1> HIDE DEF Is
<1>6. Is(Nested(tokens))
  <2>1. \E g : Is(g)
    BY <1>4 DEF Is
  <2>2. QED
    BY <1>5, <2>1
<1>7. QED
  BY <1>6 DEF Is, N

LEMMA NestedFirst ==
    ASSUME NEW tokens
    PROVE  Nested(tokens)[0] = {tokens} /\ tokens \in Programs(tokens)
<1>1. 0 \in 0..(MaxNesting + 1)
  BY BoundsAssumption
<1>2. Nested(tokens)[0] = {tokens}
  BY <1>1, NestedIs
<1>3. QED
  BY <1>1, <1>2 DEF Programs

LEMMA NestedNext ==
    ASSUME NEW tokens, NEW k \in 0..MaxNesting
    PROVE  Nested(tokens)[k + 1] = Inside(Nested(tokens)[k])
<1>1. k + 1 \in 0..(MaxNesting + 1) /\ k + 1 # 0 /\ (k + 1) - 1 = k
  BY BoundsAssumption
<1>2. \A i \in 0..(MaxNesting + 1) :
         Nested(tokens)[i] = IF i = 0 THEN {tokens} ELSE Inside(Nested(tokens)[i - 1])
  BY NestedIs, Zenon
<1>3. Nested(tokens)[k + 1] = Inside(Nested(tokens)[(k + 1) - 1])
  BY <1>1, <1>2, Zenon
<1>4. QED
  BY <1>1, <1>3

\* What is in a program, one level down, is what is in its substitutions.
LEMMA NestedUnfolds ==
    ASSUME NEW tokens
    PROVE  \A k \in 0..MaxNesting :
              Nested(tokens)[k + 1] = UNION {Nested(q)[k] : q \in Substituted(tokens)}
<1> DEFINE Under(k) == UNION {Nested(q)[k] : q \in Substituted(tokens)}
           P == {k \in 0..MaxNesting : Nested(tokens)[k + 1] = Under(k)}
<1>1. MaxNesting \in Nat /\ 0 \in 0..MaxNesting
  BY BoundsAssumption
<1>2. 0 \in P
  <2>1. Nested(tokens)[0 + 1] = Inside({tokens})
    BY <1>1, NestedNext, NestedFirst
  <2>2. Inside({tokens}) = Substituted(tokens)
    BY DEF Inside
  <2>3. \A q \in Substituted(tokens) : Nested(q)[0] = {q}
    BY NestedFirst
  <2>4. Under(0) = Substituted(tokens)
    BY <2>3
  <2>5. QED
    BY <1>1, <2>1, <2>2, <2>4
<1>3. ASSUME NEW k \in 0..MaxNesting, k + 1 \leq MaxNesting, k \in P
      PROVE  k + 1 \in P
  <2>1. k + 1 \in 0..MaxNesting
    BY <1>3, <1>1
  <2>2. Nested(tokens)[(k + 1) + 1] = Inside(Under(k))
    BY <1>3, <2>1, NestedNext
  <2>3. \A q \in Substituted(tokens) : Nested(q)[k + 1] = Inside(Nested(q)[k])
    BY NestedNext
  <2>4. Inside(Under(k)) = Under(k + 1)
    BY <2>3 DEF Inside
  <2>5. QED
    BY <2>1, <2>2, <2>4
<1>4. 0..MaxNesting \subseteq P
  <2> HIDE DEF P
  <2>1. QED
    BY <1>1, <1>2, <1>3, UpTo
<1>5. QED
  BY <1>4

\* A program, and all that is in it, that parse_shell has accepted.
Fine(tokens) ==
    /\ Nested(tokens)[MaxNesting + 1] = {}
    /\ \A program \in Programs(tokens) : IsText(program) /\ ParseTokens(program).ok

LEMMA ParsesFine ==
    ASSUME NEW tokens, NEW depth \in Nat, Parses(tokens, depth),
           \A program \in Programs(tokens) : IsText(program)
    PROVE  Fine(tokens)
<1>1. ASSUME NEW p \in Nested(tokens)[MaxNesting + 1]
      PROVE  FALSE
  <2>1. MaxNesting + 1 \in 0..(MaxNesting + 1) /\ MaxNesting \in Nat
    BY BoundsAssumption
  <2>2. depth + (MaxNesting + 1) \leq MaxNesting
    BY <1>1, <2>1 DEF Parses
  <2>3. QED
    BY <2>1, <2>2
<1>2. \A program \in Programs(tokens) : ParseTokens(program).ok
  BY DEF Programs, Parses
<1>3. QED
  BY <1>1, <1>2 DEF Fine

LEMMA ProgramsUnfold ==
    ASSUME NEW tokens, Fine(tokens)
    PROVE  /\ Programs(tokens) = {tokens} \cup UNION {Programs(q) : q \in Substituted(tokens)}
           /\ \A q \in Substituted(tokens) : Fine(q)
<1>1. MaxNesting \in Nat
  BY BoundsAssumption
<1>2. ASSUME NEW q \in Substituted(tokens)
      PROVE  /\ Nested(q)[MaxNesting + 1] = {}
             /\ Programs(q) \subseteq Programs(tokens)
  <2>1. ASSUME NEW k \in 0..MaxNesting
        PROVE  Nested(q)[k] \subseteq Nested(tokens)[k + 1] /\ k + 1 \in 0..(MaxNesting + 1)
    BY <1>1, NestedUnfolds
  <2>2. Nested(q)[MaxNesting] = {}
    <3>1. MaxNesting \in 0..MaxNesting
      BY <1>1
    <3>2. QED
      BY <2>1, <3>1 DEF Fine
  <2>3. Nested(q)[MaxNesting + 1] = {}
    <3>1. MaxNesting \in 0..MaxNesting
      BY <1>1
    <3>2. Nested(q)[MaxNesting + 1] = Inside({})
      BY <2>2, <3>1, NestedNext
    <3>3. QED
      BY <3>2 DEF Inside
  <2>4. ASSUME NEW k \in 0..(MaxNesting + 1)
        PROVE  Nested(q)[k] \subseteq Programs(tokens)
    <3>1. CASE k = MaxNesting + 1
      BY <3>1, <2>3
    <3>2. CASE k # MaxNesting + 1
      <4>1. k \in 0..MaxNesting
        BY <3>2, <1>1
      <4>2. QED
        BY <2>1, <4>1 DEF Programs
    <3>3. QED
      BY <3>1, <3>2
  <2>5. QED
    BY <2>3, <2>4 DEF Programs
<1>3. ASSUME NEW p \in Programs(tokens), p # tokens
      PROVE  \E q \in Substituted(tokens) : p \in Programs(q)
  <2>1. PICK k \in 0..(MaxNesting + 1) : p \in Nested(tokens)[k]
    BY DEF Programs
  <2>2. k # 0
    BY <1>3, <2>1, NestedFirst
  <2>3. k - 1 \in 0..MaxNesting /\ (k - 1) + 1 = k /\ k - 1 \in 0..(MaxNesting + 1)
    BY <1>1, <2>2
  <2>4. Nested(tokens)[k] = UNION {Nested(q)[k - 1] : q \in Substituted(tokens)}
    BY <2>3, NestedUnfolds
  <2>5. PICK q \in Substituted(tokens) : p \in Nested(q)[k - 1]
    BY <2>1, <2>4
  <2>6. QED
    BY <2>3, <2>5 DEF Programs
<1>4. tokens \in Programs(tokens)
  BY NestedFirst
<1>5. \A q \in Substituted(tokens) : Fine(q)
  BY <1>2 DEF Fine
<1>6. QED
  BY <1>2, <1>3, <1>4, <1>5

-----------------------------------------------------------------------------
(* Parsing *)

Targets(c) == {r.target : r \in Range(c.redirections)}

\* The operators and the redirections of a text, and its commands.
OperatorsOf(tokens) == {NoOperator} \cup {tokens[n].operator : n \in DOMAIN tokens}
RedirectionsOf(tokens) == [operator : OperatorsOf(tokens), target : WordsOf(tokens)]
CommandsOf(tokens) == [words : Seq(WordsOf(tokens)), redirections : Seq(RedirectionsOf(tokens))]
ParserStates(tokens) ==
    [commands : Seq(CommandsOf(tokens)), words : Seq(WordsOf(tokens)),
     redirections : Seq(RedirectionsOf(tokens)), pending : OperatorsOf(tokens),
     groups : Int, ok : BOOLEAN]

\* The words that the parser has put into commands, or has at hand for the next.
Held(p) ==
    (UNION {Range(c.words) \cup Targets(c) : c \in Range(p.commands)})
    \cup Range(p.words) \cup {r.target : r \in Range(p.redirections)}

LEMMA RangeAppend ==
    ASSUME NEW S, NEW s \in Seq(S), NEW e \in S
    PROVE  Range(Append(s, e)) = Range(s) \cup {e}
<1>1. Append(s, e) = s \o <<e>> /\ <<e>> \in Seq(S)
  BY AppendIsConcat
<1>2. Range(s \o <<e>>) = Range(s) \cup Range(<<e>>)
  BY <1>1, RangeConcatenation
<1>3. Range(<<e>>) = {e}
  BY DEF Range
<1>4. QED
  BY <1>1, <1>2, <1>3

LEMMA RangeEmpty == Range(<<>>) = {}
BY DEF Range

LEMMA FlushKeeps ==
    ASSUME NEW tokens, NEW p \in ParserStates(tokens)
    PROVE  /\ Flush(p) \in ParserStates(tokens)
           /\ Held(Flush(p)) = Held(p)
           /\ Flush(p).words = <<>> /\ Flush(p).redirections = <<>>
           /\ Flush(p).pending = p.pending /\ Flush(p).groups = p.groups
<1>1. CASE p.words = <<>> /\ p.redirections = <<>>
  BY <1>1 DEF Flush
<1>2. CASE ~(p.words = <<>> /\ p.redirections = <<>>)
  <2> DEFINE c == [words |-> p.words, redirections |-> p.redirections]
             q == [p EXCEPT !.commands = Append(p.commands, c), !.words = <<>>,
                            !.redirections = <<>>, !.ok = Len(p.commands) < MaxCommands]
  <2>1. Flush(p) = q
    BY <1>2 DEF Flush
  <2>2. c \in CommandsOf(tokens) /\ p.commands \in Seq(CommandsOf(tokens))
    BY DEF ParserStates, CommandsOf
  <2>3. /\ q.commands = Append(p.commands, c) /\ q.words = <<>> /\ q.redirections = <<>>
        /\ q.pending = p.pending /\ q.groups = p.groups
    BY DEF ParserStates
  <2>4. q \in ParserStates(tokens)
    <3>1. Append(p.commands, c) \in Seq(CommandsOf(tokens))
      BY <2>2, AppendProperties
    <3>2. <<>> \in Seq(WordsOf(tokens)) /\ <<>> \in Seq(RedirectionsOf(tokens))
      BY EmptySeq
    <3>3. (Len(p.commands) < MaxCommands) \in BOOLEAN
      OBVIOUS
    <3> HIDE DEF c
    <3>4. QED
      BY <3>1, <3>2, <3>3 DEF ParserStates
  <2>5. Held(q) = Held(p)
    <3>1. Range(q.commands) = Range(p.commands) \cup {c}
      BY <2>2, <2>3, RangeAppend
    <3>2. Range(c.words) = Range(p.words) /\ Targets(c) = {r.target : r \in Range(p.redirections)}
      BY DEF Targets
    <3>3. Range(q.words) = {} /\ Range(q.redirections) = {}
      BY <2>3, RangeEmpty
    <3> HIDE DEF c, q
    <3>4. QED
      BY <3>1, <3>2, <3>3 DEF Held
  <2> HIDE DEF c, q
  <2>6. QED
    BY <2>1, <2>3, <2>4, <2>5
<1>3. QED
  BY <1>1, <1>2

LEMMA Regrouped ==
    ASSUME NEW tokens, NEW p \in ParserStates(tokens), NEW s,
           s.groups \in Int, s.ok \in BOOLEAN,
           s = [p EXCEPT !.groups = s.groups, !.ok = s.ok]
    PROVE  s \in ParserStates(tokens) /\ Held(s) = Held(p)
<1>1. s \in ParserStates(tokens)
  BY DEF ParserStates
<1>2. s.commands = p.commands /\ s.words = p.words /\ s.redirections = p.redirections
  BY DEF ParserStates
<1>3. Held(s) = Held(p)
  BY <1>2 DEF Held
<1>4. QED
  BY <1>1, <1>2, <1>3

\* A token does not take away a word, and a word stays.
LEMMA TokenKept ==
    ASSUME NEW tokens, tokens \in Seq(Range(tokens)), NEW n \in DOMAIN tokens,
           NEW p \in ParserStates(tokens)
    PROVE  LET t == tokens[n]
               q == ParseToken(p, t)
           IN  /\ q \in ParserStates(tokens)
               /\ q.ok => /\ p.ok
                          /\ Held(q) = Held(p) \cup (IF t.kind = "word" THEN {t.word} ELSE {})
<1> DEFINE t == tokens[n]
           q == ParseToken(p, t)
           Good(r) == /\ r \in ParserStates(tokens)
                      /\ r.ok => /\ p.ok
                                 /\ Held(r) = Held(p) \cup (IF t.kind = "word" THEN {t.word} ELSE {})
<1>0. t \in Range(tokens) /\ (t.kind = "word" => t.word \in WordsOf(tokens))
  BY DEF Range, WordsOf
<1>1. /\ p.commands \in Seq(CommandsOf(tokens)) /\ p.words \in Seq(WordsOf(tokens))
      /\ p.redirections \in Seq(RedirectionsOf(tokens)) /\ p.pending \in OperatorsOf(tokens)
      /\ p.groups \in Int /\ p.ok \in BOOLEAN
  BY DEF ParserStates
<1>2. Good(Failed(p))
  BY <1>1 DEF Failed, ParserStates
<1>3. CASE ~p.ok
  BY <1>3, <1>1 DEF ParseToken
<1>4. CASE p.ok /\ p.pending # NoOperator
  <2>1. CASE t.kind = "word" /\ p.pending \notin {"<<", "<<-"}
    <3> DEFINE r == [operator |-> p.pending, target |-> t.word]
               s == [p EXCEPT !.pending = NoOperator, !.redirections = Append(p.redirections, r)]
    <3>1. q = s
      BY <1>4, <2>1 DEF ParseToken
    <3>2. r \in RedirectionsOf(tokens) /\ NoOperator \in OperatorsOf(tokens)
      BY <1>0, <1>1, <2>1 DEF RedirectionsOf, OperatorsOf
    <3>3. Append(p.redirections, r) \in Seq(RedirectionsOf(tokens))
      BY <1>1, <3>2, AppendProperties
    <3>4. s \in ParserStates(tokens)
      BY <3>2, <3>3 DEF ParserStates
    <3>5. s.commands = p.commands /\ s.words = p.words /\ s.redirections = Append(p.redirections, r)
      BY DEF ParserStates
    <3>6. Range(s.redirections) = Range(p.redirections) \cup {r}
      BY <1>1, <3>2, <3>5, RangeAppend
    <3>7. Held(s) = Held(p) \cup {t.word}
      <4>1. {x.target : x \in Range(s.redirections)}
            = {x.target : x \in Range(p.redirections)} \cup {t.word}
        <5>1. r.target = t.word
          OBVIOUS
        <5> HIDE DEF r, s
        <5>2. QED
          BY <3>6, <5>1
      <4> HIDE DEF s
      <4>2. QED
        BY <3>5, <4>1 DEF Held
    <3>8. QED
      BY <1>4, <2>1, <3>1, <3>4, <3>7
  <2>2. CASE ~(t.kind = "word" /\ p.pending \notin {"<<", "<<-"})
    <3>1. q = Failed(p)
      BY <1>4, <2>2 DEF ParseToken
    <3>2. QED
      BY <1>2, <3>1
  <2>3. QED
    BY <2>1, <2>2
<1>5. CASE p.ok /\ p.pending = NoOperator
  <2>1. CASE t.kind = "redirection"
    <3>1. q = [p EXCEPT !.pending = t.operator]
      BY <1>5, <2>1 DEF ParseToken
    <3>2. t.operator \in OperatorsOf(tokens)
      BY DEF OperatorsOf
    <3>3. /\ q \in ParserStates(tokens) /\ q.commands = p.commands /\ q.words = p.words
          /\ q.redirections = p.redirections
      BY <3>1, <3>2 DEF ParserStates
    <3>4. Held(q) = Held(p)
      BY <3>3 DEF Held
    <3>5. QED
      BY <1>5, <2>1, <3>3, <3>4
  <2>2. CASE t.kind = "word"
    <3>1. q = [p EXCEPT !.words = Append(p.words, t.word)]
      BY <1>5, <2>2 DEF ParseToken
    <3>2. Append(p.words, t.word) \in Seq(WordsOf(tokens))
      BY <1>0, <1>1, <2>2, AppendProperties
    <3>3. /\ q \in ParserStates(tokens) /\ q.commands = p.commands
          /\ q.words = Append(p.words, t.word) /\ q.redirections = p.redirections
      BY <3>1, <3>2 DEF ParserStates
    <3>4. Range(q.words) = Range(p.words) \cup {t.word}
      BY <1>0, <1>1, <2>2, <3>3, RangeAppend
    <3>5. Held(q) = Held(p) \cup {t.word}
      BY <3>3, <3>4 DEF Held
    <3>6. QED
      BY <1>5, <2>2, <3>3, <3>5
  <2>3. CASE t.kind = "operator" /\ t.operator = "("
    <3>1. q = [p EXCEPT !.groups = p.groups + 1, !.ok = p.words = <<>> /\ p.redirections = <<>>]
      BY <1>5, <2>3 DEF ParseToken
    <3> DEFINE groups == p.groups + 1
               ok == p.words = <<>> /\ p.redirections = <<>>
    <3>2. groups \in Int /\ ok \in BOOLEAN /\ q = [p EXCEPT !.groups = groups, !.ok = ok]
      BY <1>1, <3>1
    <3> HIDE DEF groups, ok
    <3>3. q.groups = groups /\ q.ok = ok
      BY <3>2 DEF ParserStates
    <3> HIDE DEF q
    <3>4. q \in ParserStates(tokens) /\ Held(q) = Held(p)
      BY <3>2, <3>3, Regrouped
    <3>5. QED
      BY <1>5, <2>3, <3>4 DEF q
  <2>4. CASE t.kind = "operator" /\ t.operator = ")"
    <3> DEFINE f == Flush(p)
    <3>1. q = [f EXCEPT !.groups = f.groups - 1, !.ok = f.ok /\ p.groups > 0]
      BY <1>5, <2>4 DEF ParseToken
    <3>2. f \in ParserStates(tokens) /\ Held(f) = Held(p)
      BY FlushKeeps
    <3> HIDE DEF f
    <3> DEFINE groups == f.groups - 1
               ok == f.ok /\ p.groups > 0
    <3>3. groups \in Int /\ ok \in BOOLEAN /\ q = [f EXCEPT !.groups = groups, !.ok = ok]
      BY <3>1, <3>2 DEF ParserStates
    <3> HIDE DEF groups, ok
    <3>4. q.groups = groups /\ q.ok = ok
      BY <3>2, <3>3 DEF ParserStates
    <3> HIDE DEF q
    <3>5. q \in ParserStates(tokens) /\ Held(q) = Held(f)
      BY <3>2, <3>3, <3>4, Regrouped
    <3>6. QED
      BY <1>5, <2>4, <3>2, <3>5 DEF q
  <2>5. CASE t.kind = "operator" /\ t.operator \in {";", "&&", "||", "|", "|&", "&", "newline"}
    <3>1. q = Flush(p)
      BY <1>5, <2>5 DEF ParseToken
    <3>2. QED
      BY <1>5, <2>5, <3>1, FlushKeeps
  <2>6. CASE /\ t.kind \notin {"redirection", "word"}
             /\ ~(t.kind = "operator" /\ t.operator \in {"(", ")"})
             /\ ~(t.kind = "operator"
                  /\ t.operator \in {";", "&&", "||", "|", "|&", "&", "newline"})
    <3>1. q = Failed(p)
      BY <1>5, <2>6 DEF ParseToken
    <3>2. QED
      BY <1>2, <3>1
  <2>7. QED
    BY <2>1, <2>2, <2>3, <2>4, <2>5, <2>6
<1>6. QED
  BY <1>1, <1>3, <1>4, <1>5

\* parsed in ParseTokens passes through parser states, and loses no word.
LEMMA ParsedStates ==
    ASSUME NEW tokens, tokens \in Seq(Range(tokens)), ParseTokens(tokens).ok
    PROVE  \E p \in ParserStates(tokens) :
              /\ p.ok /\ Held(p) = WordsOf(tokens)
              /\ ParseTokens(tokens).commands = Flush(p).commands
<1> DEFINE N == Len(tokens)
           Is(g) == g = [n \in 0..N |-> IF n = 0 THEN Fresh ELSE ParseToken(g[n - 1], tokens[n])]
           T == [n \in 1..N |-> [p \in ParserStates(tokens) |-> ParseToken(p, tokens[n])]]
           f == CHOOSE g : Is(g)
<1>1. N \in Nat /\ DOMAIN tokens = 1..N
  BY LenProperties
<1>2. Fresh \in ParserStates(tokens) /\ Held(Fresh) = {}
  <2>1. /\ <<>> \in Seq(CommandsOf(tokens)) /\ <<>> \in Seq(WordsOf(tokens))
        /\ <<>> \in Seq(RedirectionsOf(tokens)) /\ NoOperator \in OperatorsOf(tokens)
    BY EmptySeq DEF OperatorsOf
  <2>2. QED
    BY <2>1, RangeEmpty DEF Fresh, ParserStates, Held
<1>3. ASSUME NEW n \in 1..N, NEW p \in ParserStates(tokens)
      PROVE  /\ ParseToken(p, tokens[n]) \in ParserStates(tokens)
             /\ ParseToken(p, tokens[n]).ok =>
                   p.ok /\ Held(ParseToken(p, tokens[n]))
                           = Held(p) \cup (IF tokens[n].kind = "word" THEN {tokens[n].word} ELSE {})
  BY <1>1, TokenKept
<1>4. T \in [1..N -> [ParserStates(tokens) -> ParserStates(tokens)]]
  BY <1>3
<1>5. PICK g : Loops(g, T, N, ParserStates(tokens), Fresh)
  <2>1. Turns(T, N, ParserStates(tokens))
    BY <1>4 DEF Turns
  <2> HIDE DEF N, T
  <2>2. QED
    BY <1>1, <1>2, <2>1, Iterates
<1>6. Is(g)
  <2>1. \A n \in 1..N : n - 1 \in 0..N /\ g[n - 1] \in ParserStates(tokens)
    BY <1>1, <1>5 DEF Loops
  <2>2. \A n \in 1..N : g[n] = ParseToken(g[n - 1], tokens[n])
    BY <1>5, <2>1 DEF Loops
  <2>3. \A n \in 0..N : g[n] = IF n = 0 THEN Fresh ELSE ParseToken(g[n - 1], tokens[n])
    BY <1>1, <1>5, <2>2 DEF Loops
  <2>4. QED
    BY <1>5, <2>3 DEF Loops
<1>7. Is(f)
  <2> HIDE DEF Is
  <2>1. QED
    BY <1>6
<1>8. f[0] = Fresh /\ \A n \in 1..N : f[n] = ParseToken(f[n - 1], tokens[n])
  <2> HIDE DEF f
  <2>1. \A n \in 0..N : f[n] = IF n = 0 THEN Fresh ELSE ParseToken(f[n - 1], tokens[n])
    BY <1>7
  <2>2. 0 \in 0..N /\ \A n \in 1..N : n \in 0..N /\ n # 0
    BY <1>1
  <2>3. QED
    BY <2>1, <2>2
<1>9. ParseTokens(tokens) = [Flush(f[N]) EXCEPT
          !.ok = /\ f[N].ok /\ Flush(f[N]).ok /\ f[N].pending = NoOperator /\ f[N].groups = 0
                 /\ ~\E c \in Range(Flush(f[N]).commands) : IsControl(c)]
  BY DEF ParseTokens
<1> HIDE DEF f
<1> DEFINE Before(n) == {tokens[i].word : i \in {i \in 1..n : tokens[i].kind = "word"}}
           P == {n \in 0..N : /\ f[n] \in ParserStates(tokens)
                              /\ f[n].ok => Held(f[n]) = Before(n)}
<1>10. 0 \in P
  <2>1. Before(0) = {} /\ 0 \in 0..N
    BY <1>1
  <2>2. QED
    BY <1>2, <1>8, <2>1
<1>11. ASSUME NEW n \in 0..N, n + 1 \leq N, n \in P
       PROVE  n + 1 \in P
  <2>1. n + 1 \in 1..N /\ n + 1 \in 0..N /\ (n + 1) - 1 = n /\ n \in Nat
    BY <1>1, <1>11
  <2>2. f[n + 1] = ParseToken(f[n], tokens[n + 1])
    BY <1>8, <2>1
  <2>3. f[n] \in ParserStates(tokens) /\ (f[n].ok => Held(f[n]) = Before(n))
    BY <1>11
  <2>4. Before(n + 1)
        = Before(n) \cup (IF tokens[n + 1].kind = "word" THEN {tokens[n + 1].word} ELSE {})
    <3>1. 1..(n + 1) = (1..n) \cup {n + 1}
      BY <2>1
    <3>2. QED
      BY <3>1
  <2> HIDE DEF Before
  <2>5. f[n + 1] \in ParserStates(tokens)
    BY <1>3, <2>1, <2>2, <2>3
  <2> DEFINE word == IF tokens[n + 1].kind = "word" THEN {tokens[n + 1].word} ELSE {}
  <2>6. f[n + 1].ok => f[n].ok /\ Held(f[n + 1]) = Held(f[n]) \cup word
    BY <1>3, <2>1, <2>2, <2>3
  <2>7. f[n + 1].ok => Held(f[n + 1]) = Before(n + 1)
    <3> HIDE DEF word
    <3>1. Before(n + 1) = Before(n) \cup word
      BY <2>4 DEF word
    <3>2. QED
      BY <2>3, <2>6, <3>1
  <2>8. QED
    BY <2>1, <2>5, <2>7
<1>12. N \in P
  <2>1. N \in 0..N
    BY <1>1
  <2> HIDE DEF P
  <2>2. QED
    BY <1>1, <1>10, <1>11, <2>1, UpTo
<1>13. Before(N) = WordsOf(tokens)
  BY <1>1 DEF WordsOf, Range
<1>14. f[N] \in ParserStates(tokens) /\ Flush(f[N]) \in ParserStates(tokens)
  BY <1>12, FlushKeeps
<1>15. f[N].ok /\ ParseTokens(tokens).commands = Flush(f[N]).commands
  BY <1>9, <1>14 DEF ParserStates
<1>16. QED
  BY <1>12, <1>13, <1>14, <1>15

\* A text that the parser accepts is its commands.
LEMMA ParseKeeps ==
    ASSUME NEW tokens, IsText(tokens), ParseTokens(tokens).ok
    PROVE  LET commands == ParseTokens(tokens).commands
           IN  /\ commands \in Seq(CommandsOf(tokens))
               /\ WordsOf(tokens)
                  = UNION {Range(c.words) \cup Targets(c) : c \in Range(commands)}
<1>1. PICK p \in ParserStates(tokens) :
         /\ p.ok /\ Held(p) = WordsOf(tokens)
         /\ ParseTokens(tokens).commands = Flush(p).commands
  BY ParsedStates DEF IsText
<1> DEFINE q == Flush(p)
<1>2. /\ q \in ParserStates(tokens) /\ Held(q) = WordsOf(tokens)
      /\ q.words = <<>> /\ q.redirections = <<>>
  BY <1>1, FlushKeeps
<1> HIDE DEF q
<1>3. Held(q) = UNION {Range(c.words) \cup Targets(c) : c \in Range(q.commands)}
  BY <1>2, RangeEmpty DEF Held
<1>4. q.commands \in Seq(CommandsOf(tokens))
  BY <1>2 DEF ParserStates
<1>5. QED
  BY <1>1, <1>2, <1>3, <1>4 DEF q

\* The words of a command whose substitutions are walked.
LEMMA ExpansionWordsAre ==
    ASSUME NEW tokens, NEW c \in CommandsOf(tokens)
    PROVE  /\ ExpansionWords(c) \in Seq(WordsOf(tokens))
           /\ Range(ExpansionWords(c)) = Range(c.words) \cup Targets(c)
<1> DEFINE targets == [i \in DOMAIN c.redirections |-> c.redirections[i].target]
<1>1. c.words \in Seq(WordsOf(tokens)) /\ c.redirections \in Seq(RedirectionsOf(tokens))
  BY DEF CommandsOf
<1>2. Len(c.redirections) \in Nat /\ DOMAIN c.redirections = 1..Len(c.redirections)
  BY <1>1, LenProperties
<1>3. \A i \in 1..Len(c.redirections) : c.redirections[i].target \in WordsOf(tokens)
  <2>1. \A i \in 1..Len(c.redirections) : c.redirections[i] \in RedirectionsOf(tokens)
    BY <1>1, ElementOfSeq
  <2>2. QED
    BY <2>1 DEF RedirectionsOf
<1>4. targets \in Seq(WordsOf(tokens))
  <2>1. targets \in [1..Len(c.redirections) -> WordsOf(tokens)]
    BY <1>2, <1>3
  <2>2. QED
    BY <1>2, <2>1, SeqDef
<1>5. Range(targets) = Targets(c)
  BY DEF Range, Targets
<1>6. ExpansionWords(c) = c.words \o targets
  BY DEF ExpansionWords
<1> HIDE DEF targets
<1>7. QED
  BY <1>1, <1>4, <1>5, <1>6, ConcatProperties, RangeConcatenation

-----------------------------------------------------------------------------
(* Options and prefixes *)

Listed(s) == s \in Seq(Range(s))

\* The words of sequences are what is in W.
OptionStates(W) ==
    [ok : BOOLEAN, rest : Seq(W), seen : SUBSET {w.value : w \in W}, end : BOOLEAN]

LEMMA TailType ==
    ASSUME NEW W, NEW s \in Seq(W), s # <<>>
    PROVE  Tail(s) \in Seq(W) /\ Head(s) \in W
BY HeadTailProperties

LEMMA OptionType ==
    ASSUME NEW W, NEW reading, reading.strict \in BOOLEAN, NEW s \in OptionStates(W)
    PROVE  Option(s, reading) \in OptionStates(W)
<1> DEFINE value == Head(s.rest).value
           rest == Tail(s.rest)
           More(r) == [s EXCEPT !.rest = r, !.seen = @ \cup {value}]
<1>1. CASE s.end \/ s.rest = <<>>
  BY <1>1 DEF Option
<1>2. CASE ~(s.end \/ s.rest = <<>>)
  <2>1. s.rest \in Seq(W) /\ s.seen \in SUBSET {w.value : w \in W}
    BY DEF OptionStates
  <2>2. rest \in Seq(W) /\ Head(s.rest) \in W
    BY <1>2, <2>1, TailType
  <2>3. value \in {w.value : w \in W}
    BY <2>2
  <2>4. <<>> \in Seq(W)
    BY EmptySeq
  <2>5. \A r \in Seq(W) : [s EXCEPT !.rest = r] \in OptionStates(W)
    BY DEF OptionStates
  <2>6. \A r \in Seq(W) : [s EXCEPT !.rest = r, !.end = TRUE] \in OptionStates(W)
    BY DEF OptionStates
  <2>7. [s EXCEPT !.end = TRUE] \in OptionStates(W)
    BY DEF OptionStates
  <2>8. ASSUME NEW r \in Seq(W)
        PROVE  More(r) \in OptionStates(W)
    <3>1. s.seen \cup {value} \in SUBSET {w.value : w \in W}
      BY <2>1, <2>3
    <3> HIDE DEF value
    <3>2. QED
      BY <3>1 DEF OptionStates
  <2>9. [More(rest) EXCEPT !.ok = ~reading.strict] \in OptionStates(W)
    <3>1. More(rest) \in OptionStates(W)
      BY <2>2, <2>8
    <3>2. (~reading.strict) \in BOOLEAN
      OBVIOUS
    <3> HIDE DEF More, rest
    <3>3. QED
      BY <3>1, <3>2 DEF OptionStates
  <2>10. Refused \in OptionStates(W)
    BY <2>4 DEF Refused, OptionStates
  <2>11. rest # <<>> => Tail(rest) \in Seq(W)
    BY <2>2, TailType
  <2>12. \/ Option(s, reading) = [s EXCEPT !.rest = rest]
         \/ Option(s, reading) = [s EXCEPT !.end = TRUE]
         \/ Option(s, reading) = [s EXCEPT !.rest = rest, !.end = TRUE]
         \/ Option(s, reading) = Refused
         \/ rest # <<>> /\ Option(s, reading) = More(Tail(rest))
         \/ Option(s, reading) = [More(rest) EXCEPT !.ok = ~reading.strict]
         \/ Option(s, reading) = More(rest)
    BY <1>2 DEF Option
  <2> HIDE DEF More, rest, value
  <2>13. QED
    BY <2>2, <2>5, <2>6, <2>7, <2>8, <2>9, <2>10, <2>11, <2>12
<1>3. QED
  BY <1>1, <1>2

\* f has the states of AfterOptions.
ReadsOptions(f, W, words, reading) ==
    /\ f[0] = [ok |-> TRUE, rest |-> words, seen |-> {}, end |-> FALSE]
    /\ \A n \in 1..Len(words) : f[n] = Option(f[n - 1], reading)
    /\ \A n \in 0..Len(words) : f[n] \in OptionStates(W)
    /\ f[Len(words)] = AfterOptions(words, reading)

LEMMA OptionsRead ==
    ASSUME NEW W, NEW words \in Seq(W), NEW reading, reading.strict \in BOOLEAN
    PROVE  \E f : ReadsOptions(f, W, words, reading)
<1> DEFINE N == Len(words)
           S == OptionStates(W)
           start == [ok |-> TRUE, rest |-> words, seen |-> {}, end |-> FALSE]
           Is(g) == g = [n \in 0..N |-> IF n = 0 THEN start ELSE Option(g[n - 1], reading)]
           T == [n \in 1..N |-> [s \in S |-> Option(s, reading)]]
           f == CHOOSE g : Is(g)
<1>1. N \in Nat
  BY LenProperties
<1>2. start \in S
  BY DEF OptionStates
<1>3. \A s \in S : Option(s, reading) \in S
  BY OptionType
<1>4. AfterOptions(words, reading) = f[N]
  BY DEF AfterOptions
<1> HIDE DEF S, start, N
<1>5. PICK g : Loops(g, T, N, S, start)
  <2>1. Turns(T, N, S)
    BY <1>3 DEF Turns
  <2> HIDE DEF T
  <2>2. QED
    BY <1>1, <1>2, <2>1, Iterates
<1>6. Is(g)
  <2>1. \A n \in 1..N : n - 1 \in 0..N /\ g[n - 1] \in S
    BY <1>1, <1>5 DEF Loops
  <2>2. \A n \in 1..N : g[n] = Option(g[n - 1], reading)
    BY <1>5, <2>1 DEF Loops
  <2>3. \A n \in 0..N : g[n] = IF n = 0 THEN start ELSE Option(g[n - 1], reading)
    BY <1>1, <1>5, <2>2 DEF Loops
  <2>4. QED
    BY <1>5, <2>3 DEF Loops
<1>7. Is(f)
  <2> HIDE DEF Is
  <2>1. QED
    BY <1>6
<1> HIDE DEF f
<1> DEFINE P == {n \in 0..N : f[n] \in S}
<1>8. \A n \in 0..N : f[n] = IF n = 0 THEN start ELSE Option(f[n - 1], reading)
  BY <1>7
<1>9. 0 \in P
  BY <1>1, <1>2, <1>8
<1>10. ASSUME NEW n \in 0..N, n + 1 \leq N, n \in P
       PROVE  n + 1 \in P
  <2>1. n + 1 \in 0..N /\ n + 1 # 0 /\ (n + 1) - 1 = n
    BY <1>1, <1>10
  <2>2. f[n + 1] = Option(f[n], reading)
    BY <1>8, <2>1
  <2>3. QED
    BY <1>3, <1>10, <2>1, <2>2
<1>11. 0..N \subseteq P
  <2> HIDE DEF P
  <2>1. QED
    BY <1>1, <1>9, <1>10, UpTo
<1>12. \A n \in 1..N : f[n] = Option(f[n - 1], reading)
  BY <1>1, <1>8
<1>13. ReadsOptions(f, W, words, reading)
  <2>1. f[0] = start
    BY <1>1, <1>8
  <2> HIDE DEF f, Is
  <2>2. QED
    BY <1>4, <1>11, <1>12, <2>1 DEF ReadsOptions, S, N, start
<1>14. QED
  BY <1>13

LEMMA AfterOptionsType ==
    ASSUME NEW W, NEW words \in Seq(W), NEW reading, reading.strict \in BOOLEAN
    PROVE  AfterOptions(words, reading) \in OptionStates(W)
<1>1. PICK f : ReadsOptions(f, W, words, reading)
  BY OptionsRead
<1>2. Len(words) \in 0..Len(words)
  BY LenProperties
<1>3. QED
  BY <1>1, <1>2 DEF ReadsOptions

\* What _strip_prefixes has at hand.
StripStates(W) == [ok : BOOLEAN, words : Seq(W), removed : Seq(DOMAIN Wrappers)]

Typed(reading) == reading.strict \in BOOLEAN /\ reading.operands \in Nat

LEMMA WrappersType == \A name \in DOMAIN Wrappers : Typed(Wrappers[name])
<1>1. \A strict \in BOOLEAN, n \in Nat : \A valued, plain : Typed(Reading(strict, valued, plain, n))
  BY DEF Reading, Typed
<1>2. \A v : Typed(Lax(v))
  BY <1>1 DEF Lax
<1>3. \A v, a, b : Typed([Lax(v) EXCEPT !.refused = a, !.skipped = b])
  BY DEF Lax, Reading, Typed
<1>4. DOMAIN Wrappers = {"command", "builtin", "nohup", "exec", "time", "env", "sudo", "timeout",
                         "nice", "setsid", "stdbuf", "chroot"}
  BY DEF Wrappers
<1>5. /\ Typed(Wrappers["command"]) /\ Typed(Wrappers["builtin"]) /\ Typed(Wrappers["nohup"])
      /\ Typed(Wrappers["exec"]) /\ Typed(Wrappers["time"]) /\ Typed(Wrappers["sudo"])
  BY <1>2 DEF Wrappers
<1>6. Typed(Wrappers["env"])
  BY <1>3 DEF Wrappers
<1>7. Typed(Wrappers["timeout"]) /\ Typed(Wrappers["nice"]) /\ Typed(Wrappers["setsid"])
  BY <1>1 DEF Wrappers
<1>8. Typed(Wrappers["stdbuf"]) /\ Typed(Wrappers["chroot"])
  BY <1>1 DEF Wrappers
<1>9. QED
  BY <1>4, <1>5, <1>6, <1>7, <1>8

LEMMA StripType ==
    ASSUME NEW W, NEW s \in StripStates(W)
    PROVE  Strip(s) \in StripStates(W)
<1> DEFINE first == Head(s.words).value
           name == Basename(first)
           options == AfterOptions(Tail(s.words), Wrappers[name])
           operands == Wrappers[name].operands
           enough == options.ok /\ Len(options.rest) \geq operands
           left == IF enough THEN SubSeq(options.rest, operands + 1, Len(options.rest)) ELSE <<>>
<1>1. s.words \in Seq(W) /\ s.removed \in Seq(DOMAIN Wrappers)
  BY DEF StripStates
<1>2. CASE ~s.ok \/ s.words = <<>>
  BY <1>2 DEF Strip
<1>3. CASE s.ok /\ s.words # <<>> /\ first \in Assignments
  <2>1. Strip(s) = [s EXCEPT !.words = Tail(s.words)]
    BY <1>3 DEF Strip
  <2>2. Tail(s.words) \in Seq(W)
    BY <1>1, <1>3, TailType
  <2>3. QED
    BY <2>1, <2>2 DEF StripStates
<1>4. CASE s.ok /\ s.words # <<>> /\ first \notin Assignments /\ name \notin DOMAIN Wrappers
  BY <1>4 DEF Strip
<1>5. CASE s.ok /\ s.words # <<>> /\ first \notin Assignments /\ name \in DOMAIN Wrappers
  <2>1. Strip(s) = [ok |-> enough, words |-> left, removed |-> Append(s.removed, name)]
    BY <1>5 DEF Strip
  <2>2. Tail(s.words) \in Seq(W)
    BY <1>1, <1>5, TailType
  <2>3. Wrappers[name].strict \in BOOLEAN /\ operands \in Nat
    BY <1>5, WrappersType DEF Typed
  <2>4. options \in OptionStates(W)
    <3> DEFINE reading == Wrappers[name]
               words == Tail(s.words)
    <3>1. reading.strict \in BOOLEAN /\ words \in Seq(W)
      BY <2>2, <2>3
    <3> HIDE DEF reading, words
    <3>2. AfterOptions(words, reading) \in OptionStates(W)
      BY <3>1, AfterOptionsType
    <3>3. QED
      BY <3>2 DEF reading, words
  <2>5. Append(s.removed, name) \in Seq(DOMAIN Wrappers)
    BY <1>1, <1>5, AppendProperties
  <2> HIDE DEF options, operands, name
  <2>6. options.ok \in BOOLEAN /\ options.rest \in Seq(W)
    BY <2>4 DEF OptionStates
  <2>7. Len(options.rest) \in Nat
    BY <2>6, LenProperties
  <2>8. left \in Seq(W)
    <3>1. <<>> \in Seq(W)
      BY EmptySeq
    <3>2. \A i \in (operands + 1)..Len(options.rest) : options.rest[i] \in W
      <4>1. \A i \in (operands + 1)..Len(options.rest) : i \in 1..Len(options.rest)
        BY <2>3, <2>7
      <4>2. QED
        BY <2>6, <4>1, ElementOfSeq
    <3>3. SubSeq(options.rest, operands + 1, Len(options.rest)) \in Seq(W)
      BY <2>3, <2>6, <2>7, <3>2, SubSeqProperties
    <3>4. QED
      BY <3>1, <3>3
  <2>9. enough \in BOOLEAN
    OBVIOUS
  <2> HIDE DEF enough, left
  <2>10. QED
    BY <2>1, <2>5, <2>8, <2>9 DEF StripStates
<1>6. QED
  BY <1>2, <1>3, <1>4, <1>5

\* f has the states of StripPrefixes.
StripsPrefixes(f, W, words) ==
    /\ f[0] = [ok |-> TRUE, words |-> words, removed |-> <<>>]
    /\ \A n \in 1..Len(words) : f[n] = Strip(f[n - 1])
    /\ \A n \in 0..Len(words) : f[n] \in StripStates(W)
    /\ f[Len(words)] = StripPrefixes(words)

LEMMA PrefixesStripped ==
    ASSUME NEW W, NEW words \in Seq(W)
    PROVE  \E f : StripsPrefixes(f, W, words)
<1> DEFINE N == Len(words)
           S == StripStates(W)
           start == [ok |-> TRUE, words |-> words, removed |-> <<>>]
           Is(g) == g = [n \in 0..N |-> IF n = 0 THEN start ELSE Strip(g[n - 1])]
           T == [n \in 1..N |-> [s \in S |-> Strip(s)]]
           f == CHOOSE g : Is(g)
<1>1. N \in Nat
  BY LenProperties
<1>2. start \in S
  <2>1. <<>> \in Seq(DOMAIN Wrappers)
    BY EmptySeq
  <2>2. QED
    BY <2>1 DEF StripStates
<1>3. \A s \in S : Strip(s) \in S
  BY StripType
<1>4. StripPrefixes(words) = f[N]
  BY DEF StripPrefixes
<1> HIDE DEF S, start, N
<1>5. PICK g : Loops(g, T, N, S, start)
  <2>1. Turns(T, N, S)
    BY <1>3 DEF Turns
  <2> HIDE DEF T
  <2>2. QED
    BY <1>1, <1>2, <2>1, Iterates
<1>6. Is(g)
  <2>1. \A n \in 1..N : n - 1 \in 0..N /\ g[n - 1] \in S
    BY <1>1, <1>5 DEF Loops
  <2>2. \A n \in 1..N : g[n] = Strip(g[n - 1])
    BY <1>5, <2>1 DEF Loops
  <2>3. \A n \in 0..N : g[n] = IF n = 0 THEN start ELSE Strip(g[n - 1])
    BY <1>1, <1>5, <2>2 DEF Loops
  <2>4. QED
    BY <1>5, <2>3 DEF Loops
<1>7. Is(f)
  <2> HIDE DEF Is
  <2>1. QED
    BY <1>6
<1> HIDE DEF f
<1> DEFINE P == {n \in 0..N : f[n] \in S}
<1>8. \A n \in 0..N : f[n] = IF n = 0 THEN start ELSE Strip(f[n - 1])
  BY <1>7
<1>9. 0 \in P
  BY <1>1, <1>2, <1>8
<1>10. ASSUME NEW n \in 0..N, n + 1 \leq N, n \in P
       PROVE  n + 1 \in P
  <2>1. n + 1 \in 0..N /\ n + 1 # 0 /\ (n + 1) - 1 = n
    BY <1>1, <1>10
  <2>2. f[n + 1] = Strip(f[n])
    BY <1>8, <2>1
  <2>3. QED
    BY <1>3, <1>10, <2>1, <2>2
<1>11. 0..N \subseteq P
  <2> HIDE DEF P
  <2>1. QED
    BY <1>1, <1>9, <1>10, UpTo
<1>12. \A n \in 1..N : f[n] = Strip(f[n - 1])
  BY <1>1, <1>8
<1>13. StripsPrefixes(f, W, words)
  <2>1. f[0] = start
    BY <1>1, <1>8
  <2> HIDE DEF f, Is
  <2>2. QED
    BY <1>4, <1>11, <1>12, <2>1 DEF StripsPrefixes, S, N, start
<1>14. QED
  BY <1>13

LEMMA StripPrefixesType ==
    ASSUME NEW W, NEW words \in Seq(W)
    PROVE  StripPrefixes(words) \in StripStates(W)
<1>1. PICK f : StripsPrefixes(f, W, words)
  BY PrefixesStripped
<1>2. Len(words) \in 0..Len(words)
  BY LenProperties
<1>3. QED
  BY <1>1, <1>2 DEF StripsPrefixes

-----------------------------------------------------------------------------
(* What is run, and what the code takes for it *)

\* What a program has at hand as it reads its options.
ReadStates(W) ==
    [rest : Seq(W), options : SUBSET {w.value : w \in W}, past : BOOLEAN, clear : BOOLEAN]

LEMMA ReadType ==
    ASSUME NEW W, NEW p, NEW r \in ReadStates(W)
    PROVE  Read(r, p) \in ReadStates(W) /\ (Read(r, p).clear => r.clear)
<1> DEFINE value == Head(r.rest).value
           rest == Tail(r.rest)
           next == [r EXCEPT !.clear = @ /\ ~Misread(p, value)]
           left == IF Kind(p, value) = "valued" /\ rest # <<>> THEN Tail(rest) ELSE rest
           more == [next EXCEPT !.options = @ \cup {value}, !.rest = left]
<1>1. CASE r.past \/ r.rest = <<>>
  BY <1>1 DEF Read
<1>2. CASE ~(r.past \/ r.rest = <<>>)
  <2>1. r.rest \in Seq(W) /\ r.options \in SUBSET {w.value : w \in W} /\ r.clear \in BOOLEAN
    BY DEF ReadStates
  <2>2. rest \in Seq(W) /\ Head(r.rest) \in W
    BY <1>2, <2>1, TailType
  <2>3. value \in {w.value : w \in W}
    BY <2>2
  <2>4. left \in Seq(W)
    <3>1. rest # <<>> => Tail(rest) \in Seq(W)
      BY <2>2, TailType
    <3>2. QED
      BY <2>2, <3>1
  <2>5. next \in ReadStates(W) /\ (next.clear => r.clear) /\ next.options = r.options
    <3>1. (r.clear /\ ~Misread(p, value)) \in BOOLEAN
      OBVIOUS
    <3> HIDE DEF value
    <3>2. QED
      BY <3>1 DEF ReadStates
  <2>6. \/ Read(r, p) = [r EXCEPT !.rest = rest]
        \/ Read(r, p) = [r EXCEPT !.rest = rest, !.past = TRUE]
        \/ Read(r, p) = [next EXCEPT !.past = TRUE]
        \/ Read(r, p) = more
    BY <1>2 DEF Read
  <2>7. \A q \in Seq(W) : /\ [r EXCEPT !.rest = q] \in ReadStates(W)
                          /\ [r EXCEPT !.rest = q, !.past = TRUE] \in ReadStates(W)
                          /\ [r EXCEPT !.rest = q].clear = r.clear
                          /\ [r EXCEPT !.rest = q, !.past = TRUE].clear = r.clear
    BY DEF ReadStates
  <2>8. /\ [next EXCEPT !.past = TRUE] \in ReadStates(W)
        /\ [next EXCEPT !.past = TRUE].clear = next.clear
    <3> HIDE DEF next
    <3>1. QED
      BY <2>5 DEF ReadStates
  <2>9. more \in ReadStates(W) /\ more.clear = next.clear
    <3>1. next.options \cup {value} \in SUBSET {w.value : w \in W}
      BY <2>1, <2>3, <2>5
    <3> HIDE DEF next, value, left
    <3>2. QED
      BY <2>4, <2>5, <3>1 DEF ReadStates
  <2> HIDE DEF next, rest, value, more, left
  <2>10. QED
    BY <2>2, <2>5, <2>6, <2>7, <2>8, <2>9
<1>3. QED
  BY <1>1, <1>2

\* f has the states of Operands.
ReadsOperands(f, W, words, p) ==
    /\ f[0] = [rest |-> words, options |-> {}, past |-> FALSE, clear |-> TRUE]
    /\ \A n \in 1..Len(words) : f[n] = Read(f[n - 1], p)
    /\ \A n \in 0..Len(words) : f[n] \in ReadStates(W)
    /\ f[Len(words)] = Operands(words, p)

LEMMA OperandsRead ==
    ASSUME NEW W, NEW words \in Seq(W), NEW p
    PROVE  \E f : ReadsOperands(f, W, words, p)
<1> DEFINE N == Len(words)
           S == ReadStates(W)
           start == [rest |-> words, options |-> {}, past |-> FALSE, clear |-> TRUE]
           Is(g) == g = [n \in 0..N |-> IF n = 0 THEN start ELSE Read(g[n - 1], p)]
           T == [n \in 1..N |-> [s \in S |-> Read(s, p)]]
           f == CHOOSE g : Is(g)
<1>1. N \in Nat
  BY LenProperties
<1>2. start \in S
  BY DEF ReadStates
<1>3. \A s \in S : Read(s, p) \in S
  BY ReadType
<1>4. Operands(words, p) = f[N]
  BY DEF Operands
<1> HIDE DEF S, start, N
<1>5. PICK g : Loops(g, T, N, S, start)
  <2>1. Turns(T, N, S)
    BY <1>3 DEF Turns
  <2> HIDE DEF T
  <2>2. QED
    BY <1>1, <1>2, <2>1, Iterates
<1>6. Is(g)
  <2>1. \A n \in 1..N : n - 1 \in 0..N /\ g[n - 1] \in S
    BY <1>1, <1>5 DEF Loops
  <2>2. \A n \in 1..N : g[n] = Read(g[n - 1], p)
    BY <1>5, <2>1 DEF Loops
  <2>3. \A n \in 0..N : g[n] = IF n = 0 THEN start ELSE Read(g[n - 1], p)
    BY <1>1, <1>5, <2>2 DEF Loops
  <2>4. QED
    BY <1>5, <2>3 DEF Loops
<1>7. Is(f)
  <2> HIDE DEF Is
  <2>1. QED
    BY <1>6
<1> HIDE DEF f
<1> DEFINE P == {n \in 0..N : f[n] \in S}
<1>8. \A n \in 0..N : f[n] = IF n = 0 THEN start ELSE Read(f[n - 1], p)
  BY <1>7
<1>9. 0 \in P
  BY <1>1, <1>2, <1>8
<1>10. ASSUME NEW n \in 0..N, n + 1 \leq N, n \in P
       PROVE  n + 1 \in P
  <2>1. n + 1 \in 0..N /\ n + 1 # 0 /\ (n + 1) - 1 = n
    BY <1>1, <1>10
  <2>2. f[n + 1] = Read(f[n], p)
    BY <1>8, <2>1
  <2>3. QED
    BY <1>3, <1>10, <2>1, <2>2
<1>11. 0..N \subseteq P
  <2> HIDE DEF P
  <2>1. QED
    BY <1>1, <1>9, <1>10, UpTo
<1>12. \A n \in 1..N : f[n] = Read(f[n - 1], p)
  BY <1>1, <1>8
<1>13. ReadsOperands(f, W, words, p)
  <2>1. f[0] = start
    BY <1>1, <1>8
  <2> HIDE DEF f, Is
  <2>2. QED
    BY <1>4, <1>11, <1>12, <2>1 DEF ReadsOperands, S, N, start
<1>14. QED
  BY <1>13

\* The code is where the program is.
SameOptions(s, r) == s.rest = r.rest /\ s.seen = r.options /\ s.end = r.past

\* How the code is to read the options of p.
Suits(reading, p) ==
    /\ reading = ReadingOf(p)
    /\ reading.skipped = IF p = "env" THEN Assignments ELSE {}

\* t is what Option makes of s where TakenFor says what an option is.
Taken(s, reading, t) ==
    LET value == Head(s.rest).value
        rest == Tail(s.rest)
        plain == [s EXCEPT !.rest = rest, !.seen = @ \cup {value}]
        isOption == IsOption(value, reading)
        taken == TakenFor(value, reading)
    IN  /\ ~isOption => t = [s EXCEPT !.end = TRUE]
        /\ isOption /\ value = "--" => t = [s EXCEPT !.rest = rest, !.end = TRUE]
        /\ isOption /\ value # "--" /\ taken = "refused" => t = Refused
        /\ isOption /\ value # "--" /\ taken # "refused" =>
              /\ taken = IF value \in reading.valued THEN "valued" ELSE "alone"
              /\ t = IF value \notin reading.valued THEN plain
                     ELSE IF rest # <<>> THEN [plain EXCEPT !.rest = Tail(rest)]
                     ELSE [plain EXCEPT !.ok = ~reading.strict]

LEMMA OptionTaken ==
    ASSUME NEW W, NEW reading, NEW s \in OptionStates(W),
           ~(s.end \/ s.rest = <<>>), Head(s.rest).value \notin reading.skipped
    PROVE  Taken(s, reading, Option(s, reading))
<1> DEFINE value == Head(s.rest).value
           rest == Tail(s.rest)
           plain == [s EXCEPT !.rest = rest, !.seen = @ \cup {value}]
           t == Option(s, reading)
<1>0. ~s.end /\ s.rest # <<>> /\ value \notin reading.skipped
  OBVIOUS
<1>1. ~IsOption(value, reading) => t = [s EXCEPT !.end = TRUE]
  BY <1>0 DEF Option
<1>2. IsOption(value, reading) /\ value = "--" => t = [s EXCEPT !.rest = rest, !.end = TRUE]
  BY <1>0 DEF Option
<1>3. ASSUME IsOption(value, reading), value # "--"
      PROVE  /\ value \in reading.refused => t = Refused
             /\ value \notin reading.refused /\ value \in reading.valued =>
                   t = IF rest # <<>> THEN [plain EXCEPT !.rest = Tail(rest)]
                       ELSE [plain EXCEPT !.ok = ~reading.strict]
             /\ value \notin reading.refused /\ value \notin reading.valued =>
                   t = IF value \in reading.plain \/ ~reading.strict THEN plain ELSE Refused
  <2>1. plain = [[s EXCEPT !.rest = rest] EXCEPT !.seen = s.seen \cup {value}]
    BY DEF OptionStates
  <2>2. rest # <<>> => [plain EXCEPT !.rest = Tail(rest)]
                       = [[s EXCEPT !.rest = Tail(rest)] EXCEPT !.seen = s.seen \cup {value}]
    BY DEF OptionStates
  <2> HIDE DEF value, rest, plain
  <2>3. QED
    BY <1>0, <1>3, <2>1, <2>2 DEF Option, value, rest
<1> HIDE DEF t, value, rest, plain
<1>4. Taken(s, reading, t)
  BY <1>1, <1>2, <1>3 DEF Taken, TakenFor, value, rest, plain
<1>5. QED
  BY <1>4 DEF t

LEMMA OptionReadAlike ==
    ASSUME NEW W, NEW p, NEW reading, Suits(reading, p),
           NEW s \in OptionStates(W), NEW r \in ReadStates(W), SameOptions(s, r),
           Option(s, reading).ok, Read(r, p).clear
    PROVE  SameOptions(Option(s, reading), Read(r, p))
<1> DEFINE value == Head(s.rest).value
           rest == Tail(s.rest)
           next == [r EXCEPT !.clear = @ /\ ~Misread(p, value)]
           read == [next EXCEPT !.options = @ \cup {value},
                                !.rest = IF Kind(p, value) = "valued" /\ rest # <<>> THEN Tail(rest)
                                         ELSE rest]
           t == Option(s, reading)
<1> SUFFICES SameOptions(t, Read(r, p))
  OBVIOUS
<1>0. /\ t.ok
      /\ ~(s.end \/ s.rest = <<>>) /\ value \notin reading.skipped => Taken(s, reading, t)
  BY OptionTaken
<1>1. value = Head(r.rest).value /\ rest = Tail(r.rest)
  BY DEF SameOptions
<1>2. CASE s.end \/ s.rest = <<>>
  BY <1>2 DEF Option, Read, SameOptions
<1>3. CASE ~(s.end \/ s.rest = <<>>) /\ value \in reading.skipped
  <2>1. p = "env" /\ value \in Assignments
    BY <1>3 DEF Suits
  <2>2. t = [s EXCEPT !.rest = rest]
    BY <1>3 DEF Option
  <2>3. Read(r, p) = [r EXCEPT !.rest = rest]
    BY <1>1, <1>3, <2>1 DEF Read, SameOptions
  <2> HIDE DEF t
  <2>4. QED
    BY <2>2, <2>3 DEF SameOptions, OptionStates, ReadStates
<1> HIDE DEF t
<1>4. CASE ~(s.end \/ s.rest = <<>>) /\ value \notin reading.skipped
  <2>0. Taken(s, reading, t)
    BY <1>0, <1>4
  <2>1. ~(p = "env" /\ value \in Assignments) /\ ~(r.past \/ r.rest = <<>>)
    BY <1>4 DEF Suits, SameOptions
  <2>2. CASE value = "--"
    <3>1. IsOption(value, reading)
      BY <2>2, OptionsAssumption DEF IsOption
    <3>2. t = [s EXCEPT !.rest = rest, !.end = TRUE]
      BY <2>0, <2>2, <3>1 DEF Taken
    <3>3. Read(r, p) = [r EXCEPT !.rest = rest, !.past = TRUE]
      BY <1>1, <2>1, <2>2 DEF Read
    <3>4. QED
      BY <3>2, <3>3 DEF SameOptions, OptionStates, ReadStates
  <2>3. CASE value # "--"
    <3>1. Read(r, p) = IF Kind(p, value) \in {"operand", "carries"}
                       THEN [next EXCEPT !.past = TRUE] ELSE read
      BY <1>1, <2>1, <2>3 DEF Read
    <3>2. ~Misread(p, value)
      <4>1. Read(r, p).clear = next.clear
        BY <3>1 DEF ReadStates
      <4>2. QED
        BY <4>1 DEF ReadStates
    <3>3. TakenFor(value, reading) \in {"refused", Kind(p, value)}
      BY <3>2 DEF Misread, Suits
    <3>4. CASE ~IsOption(value, reading)
      <4>1. t = [s EXCEPT !.end = TRUE]
        BY <2>0, <3>4 DEF Taken
      <4>2. Kind(p, value) = "operand"
        BY <3>3, <3>4 DEF TakenFor
      <4>3. Read(r, p) = [next EXCEPT !.past = TRUE]
        BY <3>1, <4>2
      <4>4. QED
        BY <4>1, <4>3 DEF SameOptions, OptionStates, ReadStates
    <3>5. CASE IsOption(value, reading)
      <4>1. TakenFor(value, reading) # "refused"
        BY <1>0, <2>0, <2>3, <3>5 DEF Taken, Refused
      <4>2. Kind(p, value) = IF value \in reading.valued THEN "valued" ELSE "alone"
        BY <2>0, <2>3, <3>3, <3>5, <4>1 DEF Taken
      <4> DEFINE plain == [s EXCEPT !.rest = rest, !.seen = @ \cup {value}]
      <4>3. t = IF value \notin reading.valued THEN plain
                ELSE IF rest # <<>> THEN [plain EXCEPT !.rest = Tail(rest)]
                ELSE [plain EXCEPT !.ok = ~reading.strict]
        BY <2>0, <2>3, <3>5, <4>1 DEF Taken
      <4>4. Read(r, p) = read
        BY <3>1, <4>2
      <4> HIDE DEF value, rest
      <4>5. read.rest = t.rest
        BY <4>2, <4>3 DEF OptionStates, ReadStates
      <4>6. read.options = t.seen
        BY <4>3 DEF OptionStates, ReadStates, SameOptions
      <4>7. read.past = t.end
        BY <4>3 DEF OptionStates, ReadStates, SameOptions
      <4> HIDE DEF read
      <4>8. QED
        BY <4>4, <4>5, <4>6, <4>7 DEF SameOptions
    <3>6. QED
      BY <3>4, <3>5
  <2>4. QED
    BY <2>2, <2>3
<1>5. QED
  BY <1>2, <1>3, <1>4

\* A reading that is refused stays where it is.
Stuck(s) == s.end \/ s.rest = <<>>

LEMMA OptionRefused ==
    ASSUME NEW W, NEW reading, NEW s \in OptionStates(W), ~s.ok => Stuck(s)
    PROVE  ~Option(s, reading).ok => Stuck(Option(s, reading))
<1> DEFINE value == Head(s.rest).value
           rest == Tail(s.rest)
           t == Option(s, reading)
<1>1. CASE Stuck(s)
  <2>1. t = s
    BY <1>1 DEF Option, Stuck
  <2>2. QED
    BY <1>1, <2>1
<1>2. CASE ~Stuck(s) /\ value \in reading.skipped
  <2>1. t = [s EXCEPT !.rest = rest]
    BY <1>2 DEF Option, Stuck
  <2>2. t.ok = s.ok
    BY <2>1 DEF OptionStates
  <2> HIDE DEF t
  <2>3. QED
    BY <1>2, <2>2 DEF t
<1>3. CASE ~Stuck(s) /\ value \notin reading.skipped
  <2>1. Taken(s, reading, t)
    <3>1. ~(s.end \/ s.rest = <<>>) /\ Head(s.rest).value \notin reading.skipped
      BY <1>3 DEF Stuck
    <3>2. Taken(s, reading, Option(s, reading))
      BY <3>1, OptionTaken
    <3>3. QED
      BY <3>2
  <2>2. s.ok
    BY <1>3
  <2> HIDE DEF t, value, rest
  <2> DEFINE plain == [s EXCEPT !.rest = rest, !.seen = @ \cup {value}]
  <2>3. \/ t = [s EXCEPT !.end = TRUE]
        \/ t = [s EXCEPT !.rest = rest, !.end = TRUE]
        \/ t = Refused
        \/ t = plain
        \/ t = [plain EXCEPT !.rest = Tail(rest)]
        \/ rest = <<>> /\ t = [plain EXCEPT !.ok = ~reading.strict]
    BY <2>1 DEF Taken, value, rest
  <2>4. plain.ok = s.ok /\ plain.rest = rest
    BY DEF OptionStates
  <2>5. [plain EXCEPT !.rest = Tail(rest)].ok = s.ok
    BY DEF OptionStates
  <2>6. [plain EXCEPT !.ok = ~reading.strict].rest = rest
    BY DEF OptionStates
  <2> HIDE DEF plain
  <2>7. t.ok \/ Stuck(t)
    <3>1. t = [s EXCEPT !.end = TRUE] \/ t = [s EXCEPT !.rest = rest, !.end = TRUE] => t.end
      BY DEF OptionStates
    <3>2. t = Refused => t.end
      BY DEF Refused
    <3>3. t = plain \/ t = [plain EXCEPT !.rest = Tail(rest)] => t.ok
      BY <2>2, <2>4, <2>5
    <3>4. rest = <<>> /\ t = [plain EXCEPT !.ok = ~reading.strict] => t.rest = <<>>
      BY <2>6
    <3>5. QED
      BY <2>3, <3>1, <3>2, <3>3, <3>4, Zenon DEF Stuck
  <2>8. QED
    BY <2>7 DEF t
<1>4. QED
  BY <1>1, <1>2, <1>3

\* Where the code does not refuse an option, and misreads none, it finds the
\* operands of a program.
LEMMA OperandsFound ==
    ASSUME NEW W, NEW words \in Seq(W), NEW p, NEW reading, Suits(reading, p),
           reading.strict \in BOOLEAN,
           AfterOptions(words, reading).ok, Operands(words, p).clear
    PROVE  SameOptions(AfterOptions(words, reading), Operands(words, p))
<1> DEFINE N == Len(words)
<1>1. N \in Nat /\ N \in 0..N
  BY LenProperties
<1>2. PICK f : ReadsOptions(f, W, words, reading)
  BY OptionsRead
<1>3. PICK g : ReadsOperands(g, W, words, p)
  BY OperandsRead
<1> DEFINE P == {n \in 0..N : /\ ~f[n].ok => Stuck(f[n])
                              /\ f[n].ok /\ g[n].clear => SameOptions(f[n], g[n])}
<1>4. 0 \in P
  <2>1. /\ f[0] = [ok |-> TRUE, rest |-> words, seen |-> {}, end |-> FALSE]
        /\ g[0] = [rest |-> words, options |-> {}, past |-> FALSE, clear |-> TRUE]
    BY <1>2, <1>3 DEF ReadsOptions, ReadsOperands
  <2>2. f[0].ok /\ SameOptions(f[0], g[0])
    BY <2>1 DEF SameOptions
  <2>3. 0 \in 0..N
    BY <1>1
  <2>4. QED
    BY <2>2, <2>3
<1>5. ASSUME NEW n \in 0..N, n + 1 \leq N, n \in P
      PROVE  n + 1 \in P
  <2> DEFINE s == f[n]
             r == g[n]
             t == f[n + 1]
             u == g[n + 1]
  <2>1. n + 1 \in 1..N /\ n + 1 \in 0..N /\ (n + 1) - 1 = n
    BY <1>1, <1>5
  <2>2. s \in OptionStates(W) /\ t = Option(s, reading)
    BY <1>2, <2>1 DEF ReadsOptions
  <2>3. r \in ReadStates(W) /\ u = Read(r, p)
    BY <1>3, <2>1 DEF ReadsOperands
  <2>4. (~s.ok => Stuck(s)) /\ (s.ok /\ r.clear => SameOptions(s, r))
    BY <1>5
  <2> HIDE DEF s, r, t, u
  <2>5. ~t.ok => Stuck(t)
    BY <2>2, <2>4, OptionRefused
  <2>6. ASSUME t.ok, u.clear
        PROVE  SameOptions(t, u)
    <3>1. r.clear
      BY <2>3, <2>6, ReadType
    <3>2. s.ok
      <4>1. CASE Stuck(s)
        <5>1. t = s
          BY <2>2, <4>1 DEF Option, Stuck
        <5>2. QED
          BY <2>6, <5>1
      <4>2. QED
        BY <2>4, <4>1
    <3>3. QED
      BY <2>2, <2>3, <2>4, <2>6, <3>1, <3>2, OptionReadAlike
  <2>7. QED
    BY <2>1, <2>5, <2>6 DEF t, u
<1>6. 0..N \subseteq P
  <2> HIDE DEF P, N
  <2>1. QED
    BY <1>1, <1>4, <1>5, UpTo
<1>7. f[N] = AfterOptions(words, reading) /\ g[N] = Operands(words, p)
  BY <1>2, <1>3 DEF ReadsOptions, ReadsOperands
<1>8. QED
  BY <1>1, <1>6, <1>7

\* What the shell and the wrappers have at hand.
EnterStates(W) == [words : Seq(W), wrappers : Seq(DOMAIN Wrappers), clear : BOOLEAN]

LEMMA OperandsType ==
    ASSUME NEW W, NEW words \in Seq(W), NEW p
    PROVE  Operands(words, p) \in ReadStates(W)
<1>1. PICK f : ReadsOperands(f, W, words, p)
  BY OperandsRead
<1>2. Len(words) \in 0..Len(words)
  BY LenProperties
<1>3. QED
  BY <1>1, <1>2 DEF ReadsOperands

LEMMA EnterType ==
    ASSUME NEW W, NEW s \in EnterStates(W)
    PROVE  Enter(s) \in EnterStates(W) /\ (Enter(s).clear => s.clear)
<1> DEFINE first == Head(s.words).value
           name == Basename(first)
           r == Operands(Tail(s.words), name)
           left == SubSeq(r.rest, OperandsOf(name) + 1, Len(r.rest))
<1>1. s.words \in Seq(W) /\ s.wrappers \in Seq(DOMAIN Wrappers) /\ s.clear \in BOOLEAN
  BY DEF EnterStates
<1>2. CASE s.words = <<>>
  BY <1>2 DEF Enter
<1>3. CASE s.words # <<>> /\ first \in Assignments
  <2>1. Enter(s) = [s EXCEPT !.words = Tail(s.words)]
    BY <1>3 DEF Enter
  <2>2. Tail(s.words) \in Seq(W)
    BY <1>1, <1>3, TailType
  <2>3. QED
    BY <2>1, <2>2 DEF EnterStates
<1>4. CASE s.words # <<>> /\ first \notin Assignments /\ name \notin DOMAIN Wrappers
  BY <1>4 DEF Enter
<1>5. CASE s.words # <<>> /\ first \notin Assignments /\ name \in DOMAIN Wrappers
  <2>1. Enter(s) = [words |-> left, wrappers |-> Append(s.wrappers, name),
                    clear |-> s.clear /\ r.clear]
    BY <1>5 DEF Enter
  <2>2. r \in ReadStates(W)
    <3> DEFINE rest == Tail(s.words)
    <3>1. rest \in Seq(W)
      BY <1>1, <1>5, TailType
    <3> HIDE DEF rest, name
    <3>2. Operands(rest, name) \in ReadStates(W)
      BY <3>1, OperandsType
    <3>3. QED
      BY <3>2 DEF rest
  <2>3. Append(s.wrappers, name) \in Seq(DOMAIN Wrappers)
    BY <1>1, <1>5, AppendProperties
  <2>4. OperandsOf(name) \in Nat
    BY DEF OperandsOf
  <2> HIDE DEF r, name
  <2>5. r.rest \in Seq(W) /\ r.clear \in BOOLEAN
    BY <2>2 DEF ReadStates
  <2>6. Len(r.rest) \in Nat
    BY <2>5, LenProperties
  <2>7. left \in Seq(W)
    <3>1. \A i \in (OperandsOf(name) + 1)..Len(r.rest) : r.rest[i] \in W
      <4>1. \A i \in (OperandsOf(name) + 1)..Len(r.rest) : i \in 1..Len(r.rest)
        BY <2>4, <2>6
      <4>2. QED
        BY <2>5, <4>1, ElementOfSeq
    <3>2. QED
      BY <2>4, <2>5, <2>6, <3>1, SubSeqProperties
  <2> HIDE DEF left
  <2>8. QED
    BY <1>1, <2>1, <2>3, <2>5, <2>7 DEF EnterStates
<1>6. QED
  BY <1>2, <1>3, <1>4, <1>5

\* f has the states of Effective.
Enters(f, W, words) ==
    /\ f[0] = [words |-> words, wrappers |-> <<>>, clear |-> TRUE]
    /\ \A n \in 1..Len(words) : f[n] = Enter(f[n - 1])
    /\ \A n \in 0..Len(words) : f[n] \in EnterStates(W)
    /\ f[Len(words)] = Effective(words)

LEMMA Entered ==
    ASSUME NEW W, NEW words \in Seq(W)
    PROVE  \E f : Enters(f, W, words)
<1> DEFINE N == Len(words)
           S == EnterStates(W)
           start == [words |-> words, wrappers |-> <<>>, clear |-> TRUE]
           Is(g) == g = [n \in 0..N |-> IF n = 0 THEN start ELSE Enter(g[n - 1])]
           T == [n \in 1..N |-> [s \in S |-> Enter(s)]]
           f == CHOOSE g : Is(g)
<1>1. N \in Nat
  BY LenProperties
<1>2. start \in S
  <2>1. <<>> \in Seq(DOMAIN Wrappers)
    BY EmptySeq
  <2>2. QED
    BY <2>1 DEF EnterStates
<1>3. \A s \in S : Enter(s) \in S
  BY EnterType
<1>4. Effective(words) = f[N]
  BY DEF Effective
<1> HIDE DEF S, start, N
<1>5. PICK g : Loops(g, T, N, S, start)
  <2>1. Turns(T, N, S)
    BY <1>3 DEF Turns
  <2> HIDE DEF T
  <2>2. QED
    BY <1>1, <1>2, <2>1, Iterates
<1>6. Is(g)
  <2>1. \A n \in 1..N : n - 1 \in 0..N /\ g[n - 1] \in S
    BY <1>1, <1>5 DEF Loops
  <2>2. \A n \in 1..N : g[n] = Enter(g[n - 1])
    BY <1>5, <2>1 DEF Loops
  <2>3. \A n \in 0..N : g[n] = IF n = 0 THEN start ELSE Enter(g[n - 1])
    BY <1>1, <1>5, <2>2 DEF Loops
  <2>4. QED
    BY <1>5, <2>3 DEF Loops
<1>7. Is(f)
  <2> HIDE DEF Is
  <2>1. QED
    BY <1>6
<1> HIDE DEF f
<1> DEFINE P == {n \in 0..N : f[n] \in S}
<1>8. \A n \in 0..N : f[n] = IF n = 0 THEN start ELSE Enter(f[n - 1])
  BY <1>7
<1>9. 0 \in P
  BY <1>1, <1>2, <1>8
<1>10. ASSUME NEW n \in 0..N, n + 1 \leq N, n \in P
       PROVE  n + 1 \in P
  <2>1. n + 1 \in 0..N /\ n + 1 # 0 /\ (n + 1) - 1 = n
    BY <1>1, <1>10
  <2>2. f[n + 1] = Enter(f[n])
    BY <1>8, <2>1
  <2>3. QED
    BY <1>3, <1>10, <2>1, <2>2
<1>11. 0..N \subseteq P
  <2> HIDE DEF P
  <2>1. QED
    BY <1>1, <1>9, <1>10, UpTo
<1>12. \A n \in 1..N : f[n] = Enter(f[n - 1])
  BY <1>1, <1>8
<1>13. Enters(f, W, words)
  <2>1. f[0] = start
    BY <1>1, <1>8
  <2> HIDE DEF f, Is
  <2>2. QED
    BY <1>4, <1>11, <1>12, <2>1 DEF Enters, S, N, start
<1>14. QED
  BY <1>13

PassesOver(reading, skipped, operands) == reading.skipped = skipped /\ reading.operands = operands

LEMMA WrappersSuit ==
    \A name \in DOMAIN Wrappers :
        Suits(Wrappers[name], name) /\ Wrappers[name].operands = OperandsOf(name)
<1>1. DOMAIN Wrappers = {"command", "builtin", "nohup", "exec", "time", "env", "sudo", "timeout",
                         "nice", "setsid", "stdbuf", "chroot"}
  BY DEF Wrappers
<1>2. \A name \in DOMAIN Wrappers : ReadingOf(name) = Wrappers[name]
  BY <1>1 DEF ReadingOf
<1>3. \A strict, valued, plain, n : PassesOver(Reading(strict, valued, plain, n), {}, n)
  BY DEF Reading, PassesOver
<1>4. \A v : PassesOver(Lax(v), {}, 0)
  BY <1>3 DEF Lax
<1>5. \A v, a, b : PassesOver([Lax(v) EXCEPT !.refused = a, !.skipped = b], b, 0)
  BY DEF Lax, Reading, PassesOver
<1>6. /\ PassesOver(Wrappers["command"], {}, 0) /\ PassesOver(Wrappers["builtin"], {}, 0)
      /\ PassesOver(Wrappers["nohup"], {}, 0) /\ PassesOver(Wrappers["exec"], {}, 0)
      /\ PassesOver(Wrappers["time"], {}, 0) /\ PassesOver(Wrappers["sudo"], {}, 0)
  BY <1>4 DEF Wrappers
<1>7. PassesOver(Wrappers["env"], Assignments, 0)
  BY <1>5 DEF Wrappers
<1>8. /\ PassesOver(Wrappers["nice"], {}, 0) /\ PassesOver(Wrappers["setsid"], {}, 0)
      /\ PassesOver(Wrappers["stdbuf"], {}, 0)
  BY <1>3 DEF Wrappers
<1>9. PassesOver(Wrappers["timeout"], {}, 1) /\ PassesOver(Wrappers["chroot"], {}, 1)
  BY <1>3 DEF Wrappers
<1>10. \A name \in DOMAIN Wrappers :
          PassesOver(Wrappers[name], IF name = "env" THEN Assignments ELSE {}, OperandsOf(name))
  BY <1>1, <1>6, <1>7, <1>8, <1>9 DEF OperandsOf
<1>11. QED
  BY <1>2, <1>10 DEF Suits, PassesOver

\* The code is where the shell is.
SameCommand(s, r) == s.words = r.words /\ s.removed = r.wrappers

LEMMA EnterAlike ==
    ASSUME NEW W, NEW s \in StripStates(W), NEW r \in EnterStates(W), s.ok, SameCommand(s, r),
           Strip(s).ok, Enter(r).clear
    PROVE  SameCommand(Strip(s), Enter(r))
<1> DEFINE first == Head(s.words).value
           name == Basename(first)
           rest == Tail(s.words)
           reading == Wrappers[name]
           options == AfterOptions(rest, reading)
           x == Operands(rest, name)
           enough == options.ok /\ Len(options.rest) \geq reading.operands
           t == Strip(s)
           u == Enter(r)
<1> SUFFICES SameCommand(t, u)
  OBVIOUS
<1>0. t.ok /\ u.clear
  OBVIOUS
<1>1. s.words = r.words /\ s.removed = r.wrappers /\ s.words \in Seq(W)
  BY DEF SameCommand, StripStates
<1>2. CASE s.words = <<>>
  BY <1>1, <1>2 DEF Strip, Enter, SameCommand
<1>3. CASE s.words # <<>> /\ first \in Assignments
  <2>1. t = [s EXCEPT !.words = rest]
    BY <1>3 DEF Strip
  <2>2. u = [r EXCEPT !.words = rest]
    BY <1>1, <1>3 DEF Enter
  <2> HIDE DEF t, u
  <2>3. QED
    BY <1>1, <2>1, <2>2 DEF SameCommand, StripStates, EnterStates
<1>4. CASE s.words # <<>> /\ first \notin Assignments /\ name \notin DOMAIN Wrappers
  <2>1. t = s
    BY <1>4 DEF Strip
  <2>2. u = r
    BY <1>1, <1>4 DEF Enter
  <2> HIDE DEF t, u
  <2>3. QED
    BY <1>1, <2>1, <2>2 DEF SameCommand
<1>5. CASE s.words # <<>> /\ first \notin Assignments /\ name \in DOMAIN Wrappers
  <2>1. t = [ok |-> enough,
             words |-> IF enough THEN SubSeq(options.rest, reading.operands + 1, Len(options.rest))
                       ELSE <<>>,
             removed |-> Append(s.removed, name)]
    BY <1>5 DEF Strip
  <2>2. u = [words |-> SubSeq(x.rest, OperandsOf(name) + 1, Len(x.rest)),
             wrappers |-> Append(r.wrappers, name), clear |-> r.clear /\ x.clear]
    BY <1>1, <1>5 DEF Enter
  <2>3. rest \in Seq(W)
    BY <1>1, <1>5, TailType
  <2>4. /\ Suits(reading, name) /\ reading.operands = OperandsOf(name)
        /\ reading.strict \in BOOLEAN
    BY <1>5, WrappersSuit, WrappersType DEF Typed
  <2> HIDE DEF t, u
  <2>5. options.ok /\ enough
    BY <1>0, <2>1
  <2>6. x.clear
    BY <1>0, <2>2
  <2>7. SameOptions(options, x)
    <3> HIDE DEF rest, reading, name
    <3>1. QED
      BY <2>3, <2>4, <2>5, <2>6, OperandsFound
  <2>8. options.rest = x.rest
    BY <2>7 DEF SameOptions
  <2> HIDE DEF options, x, reading, enough, name
  <2>9. QED
    BY <1>1, <2>1, <2>2, <2>4, <2>5, <2>8 DEF SameCommand
<1>6. QED
  BY <1>2, <1>3, <1>4, <1>5

\* Where the code refuses none of the wrappers, and misreads no option, it finds
\* the command that words run.
LEMMA CommandFound ==
    ASSUME NEW W, NEW words \in Seq(W), StripPrefixes(words).ok, Effective(words).clear
    PROVE  SameCommand(StripPrefixes(words), Effective(words))
<1> DEFINE N == Len(words)
<1>1. N \in Nat /\ N \in 0..N
  BY LenProperties
<1>2. PICK f : StripsPrefixes(f, W, words)
  BY PrefixesStripped
<1>3. PICK g : Enters(g, W, words)
  BY Entered
<1> DEFINE P == {n \in 0..N : f[n].ok /\ g[n].clear => SameCommand(f[n], g[n])}
<1>4. 0 \in P
  <2>1. /\ f[0] = [ok |-> TRUE, words |-> words, removed |-> <<>>]
        /\ g[0] = [words |-> words, wrappers |-> <<>>, clear |-> TRUE]
    BY <1>2, <1>3 DEF StripsPrefixes, Enters
  <2>2. SameCommand(f[0], g[0])
    BY <2>1 DEF SameCommand
  <2>3. QED
    BY <1>1, <2>2
<1>5. ASSUME NEW n \in 0..N, n + 1 \leq N, n \in P
      PROVE  n + 1 \in P
  <2> DEFINE s == f[n]
             r == g[n]
             t == f[n + 1]
             u == g[n + 1]
  <2>1. n + 1 \in 1..N /\ n + 1 \in 0..N /\ (n + 1) - 1 = n
    BY <1>1, <1>5
  <2>2. s \in StripStates(W) /\ t = Strip(s)
    BY <1>2, <2>1 DEF StripsPrefixes
  <2>3. r \in EnterStates(W) /\ u = Enter(r)
    BY <1>3, <2>1 DEF Enters
  <2>4. s.ok /\ r.clear => SameCommand(s, r)
    BY <1>5
  <2> HIDE DEF s, r, t, u
  <2>5. ASSUME t.ok, u.clear
        PROVE  SameCommand(t, u)
    <3>1. r.clear
      BY <2>3, <2>5, EnterType
    <3>2. s.ok
      <4>1. CASE ~s.ok
        <5>1. t = s
          BY <2>2, <4>1 DEF Strip
        <5>2. QED
          BY <2>5, <4>1, <5>1
      <4>2. QED
        BY <4>1
    <3>3. QED
      BY <2>2, <2>3, <2>4, <2>5, <3>1, <3>2, EnterAlike
  <2>6. QED
    BY <2>1, <2>5 DEF t, u
<1>6. 0..N \subseteq P
  <2> HIDE DEF P, N
  <2>1. QED
    BY <1>1, <1>4, <1>5, UpTo
<1>7. f[N] = StripPrefixes(words) /\ g[N] = Effective(words)
  BY <1>2, <1>3 DEF StripsPrefixes, Enters
<1>8. QED
  BY <1>1, <1>6, <1>7

-----------------------------------------------------------------------------
(* Actions of find *)

\* What _find_exec_commands has at hand.
FindStates(W) == [ok : BOOLEAN, commands : Seq(Seq(W)), command : Seq(W), inside : BOOLEAN]

LEMMA FindWordType ==
    ASSUME NEW W, NEW s \in FindStates(W), NEW word \in W
    PROVE  FindWord(s, word) \in FindStates(W)
<1>1. s.command \in Seq(W) /\ s.commands \in Seq(Seq(W)) /\ s.ok \in BOOLEAN
  BY DEF FindStates
<1>2. Append(s.commands, s.command) \in Seq(Seq(W))
  BY <1>1, AppendProperties
<1>3. Append(s.command, word) \in Seq(W)
  BY <1>1, AppendProperties
<1>4. <<>> \in Seq(W)
  BY EmptySeq
<1> DEFINE ok == s.ok /\ s.command # <<>>
<1>5. [s EXCEPT !.commands = Append(s.commands, s.command), !.command = <<>>,
                !.inside = FALSE, !.ok = ok] \in FindStates(W)
  <2>1. ok \in BOOLEAN
    OBVIOUS
  <2> HIDE DEF ok
  <2>2. QED
    BY <1>2, <1>4, <2>1 DEF FindStates
<1>6. [s EXCEPT !.command = Append(s.command, word)] \in FindStates(W)
  BY <1>3 DEF FindStates
<1>7. [s EXCEPT !.inside = TRUE] \in FindStates(W)
  BY DEF FindStates
<1>8. QED
  BY <1>5, <1>6, <1>7 DEF FindWord

LEMMA FindCommandsType ==
    ASSUME NEW W, NEW words \in Seq(W)
    PROVE  FindCommands(words).commands \in Seq(Seq(W))
<1> DEFINE N == Len(words)
           S == FindStates(W)
           start == [ok |-> TRUE, commands |-> <<>>, command |-> <<>>, inside |-> FALSE]
           Is(g) == g = [n \in 0..N |-> IF n = 0 THEN start ELSE FindWord(g[n - 1], words[n])]
           T == [n \in 1..N |-> [s \in S |-> FindWord(s, words[n])]]
           f == CHOOSE g : Is(g)
<1>1. N \in Nat
  BY LenProperties
<1>2. start \in S
  <2>1. <<>> \in Seq(W) /\ <<>> \in Seq(Seq(W))
    BY EmptySeq
  <2>2. QED
    BY <2>1 DEF FindStates
<1>3. \A n \in 1..N : \A s \in S : FindWord(s, words[n]) \in S
  <2>1. \A n \in 1..N : words[n] \in W
    BY ElementOfSeq
  <2>2. QED
    BY <2>1, FindWordType
<1>4. FindCommands(words).commands = f[N].commands
  BY DEF FindCommands
<1> HIDE DEF S, start, N
<1>5. PICK g : Loops(g, T, N, S, start)
  <2>1. Turns(T, N, S)
    BY <1>3 DEF Turns
  <2> HIDE DEF T
  <2>2. QED
    BY <1>1, <1>2, <2>1, Iterates
<1>6. Is(g)
  <2>1. \A n \in 1..N : n - 1 \in 0..N /\ g[n - 1] \in S
    BY <1>1, <1>5 DEF Loops
  <2>2. \A n \in 1..N : g[n] = FindWord(g[n - 1], words[n])
    BY <1>5, <2>1 DEF Loops
  <2>3. \A n \in 0..N : g[n] = IF n = 0 THEN start ELSE FindWord(g[n - 1], words[n])
    BY <1>1, <1>5, <2>2 DEF Loops
  <2>4. QED
    BY <1>5, <2>3 DEF Loops
<1>7. Is(f)
  <2> HIDE DEF Is
  <2>1. QED
    BY <1>6
<1> HIDE DEF f
<1> DEFINE P == {n \in 0..N : f[n] \in S}
<1>8. \A n \in 0..N : f[n] = IF n = 0 THEN start ELSE FindWord(f[n - 1], words[n])
  BY <1>7
<1>9. 0 \in P
  BY <1>1, <1>2, <1>8
<1>10. ASSUME NEW n \in 0..N, n + 1 \leq N, n \in P
       PROVE  n + 1 \in P
  <2>1. n + 1 \in 1..N /\ n + 1 \in 0..N /\ n + 1 # 0 /\ (n + 1) - 1 = n
    BY <1>1, <1>10
  <2>2. f[n + 1] = FindWord(f[n], words[n + 1])
    BY <1>8, <2>1
  <2>3. QED
    BY <1>3, <1>10, <2>1, <2>2
<1>11. N \in P
  <2>1. N \in 0..N
    BY <1>1
  <2> HIDE DEF P
  <2>2. QED
    BY <1>1, <1>9, <1>10, <2>1, UpTo
<1>12. f[N] \in FindStates(W)
  BY <1>11 DEF S
<1>13. QED
  BY <1>4, <1>12 DEF FindStates

(* Lists *)

LEMMA ListedIn ==
    ASSUME NEW S, NEW s \in Seq(S)
    PROVE  Listed(s) /\ Range(s) \subseteq S
BY SeqOfRange, RangeOfSeq DEF Listed

\* A list from another, element by element.
LEMMA ListedOver ==
    ASSUME NEW s, Listed(s), NEW t, DOMAIN t = DOMAIN s, t = [i \in DOMAIN s |-> t[i]]
    PROVE  Listed(t)
<1>1. Len(s) \in Nat /\ DOMAIN s = 1..Len(s)
  BY LenProperties DEF Listed
<1>2. \A i \in DOMAIN s : t[i] \in Range(t)
  BY DEF Range
<1>3. t \in [1..Len(s) -> Range(t)]
  BY <1>1, <1>2
<1>4. t \in Seq(Range(t))
  BY <1>1, <1>3, SeqDef
<1>5. QED
  BY <1>4 DEF Listed

LEMMA ListedAfter ==
    ASSUME NEW s, Listed(s), NEW t, Listed(t)
    PROVE  Listed(s \o t) /\ Range(s \o t) = Range(s) \cup Range(t)
<1> DEFINE S == Range(s) \cup Range(t)
<1>1. s \in Seq(S) /\ t \in Seq(S)
  <2>1. Range(s) \subseteq S /\ Range(t) \subseteq S
    OBVIOUS
  <2> HIDE DEF S
  <2>2. QED
    BY <2>1, SeqMonotonic DEF Listed
<1>2. Range(s \o t) = S
  BY <1>1, RangeConcatenation
<1>3. s \o t \in Seq(S)
  <2> HIDE DEF S
  <2>1. QED
    BY <1>1, ConcatProperties
<1>4. QED
  BY <1>2, <1>3 DEF Listed

LEMMA ListedOne ==
    ASSUME NEW e
    PROVE  Listed(<<e>>) /\ Range(<<e>>) = {e}
<1>1. Range(<<e>>) = {e}
  BY DEF Range
<1>2. QED
  BY <1>1 DEF Listed

LEMMA ListedNone == Listed(<<>>) /\ Range(<<>>) = {}
BY RangeEmpty DEF Listed

LEMMA ListedHead ==
    ASSUME NEW s, Listed(s), s # <<>>
    PROVE  /\ Head(s) \in Range(s)
           /\ Listed(Tail(s))
           /\ Range(s) = {Head(s)} \cup Range(Tail(s))
<1>1. s \in Seq(Range(s))
  BY DEF Listed
<1>2. /\ Head(s) \in Range(s) /\ Tail(s) \in Seq(Range(s)) /\ Len(Tail(s)) = Len(s) - 1
      /\ \A i \in 1..Len(Tail(s)) : Tail(s)[i] = s[i + 1]
  BY <1>1, HeadTailProperties
<1>3. Listed(Tail(s)) /\ Range(Tail(s)) \subseteq Range(s)
  BY <1>2, ListedIn
<1>4. Len(s) \in Nat /\ DOMAIN s = 1..Len(s)
  BY <1>1, LenProperties
<1>5. DOMAIN Tail(s) = 1..Len(Tail(s))
  BY <1>2, LenProperties
<1>6. Head(s) = s[1]
  BY <1>1
<1>7. ASSUME NEW i \in DOMAIN s
      PROVE  s[i] \in {Head(s)} \cup Range(Tail(s))
  <2>1. CASE i = 1
    BY <2>1, <1>6
  <2>2. CASE i # 1
    <3>1. i - 1 \in 1..Len(Tail(s)) /\ (i - 1) + 1 = i
      BY <2>2, <1>2, <1>4
    <3>2. Tail(s)[i - 1] = s[i]
      BY <1>2, <3>1
    <3>3. QED
      BY <1>5, <3>1, <3>2 DEF Range
  <2>3. QED
    BY <2>1, <2>2
<1>8. Range(s) \subseteq {Head(s)} \cup Range(Tail(s))
  BY <1>7 DEF Range
<1>9. QED
  BY <1>2, <1>3, <1>8

-----------------------------------------------------------------------------
(* What an executable leads to *)

\* A task that is put on the stack for an executable.
Led(task, depth, chain) ==
    /\ task.depth = depth /\ task.chain = chain
    /\ \/ /\ task.kind = "text"
          /\ task.tokens = Unlexed \/ \A p \in Programs(task.tokens) : IsText(p)
       \/ task.kind = "words" /\ Listed(task.words)

LEMMA TokensOfText ==
    ASSUME NEW text
    PROVE  TokensOf(text) = Unlexed \/ \A p \in Programs(TokensOf(text)) : IsText(p)
<1>1. CASE text \in DOMAIN Tokens
  <2>1. TokensOf(text) \in Range(Tokens)
    BY <1>1 DEF TokensOf, Range
  <2>2. QED
    BY <2>1, TextsAssumption
<1>2. CASE text \notin DOMAIN Tokens
  BY <1>2 DEF TokensOf
<1>3. QED
  BY <1>1, <1>2

LEMMA RestListed ==
    ASSUME NEW words, Listed(words), NEW reading, reading.strict \in BOOLEAN
    PROVE  Listed(AfterOptions(words, reading).rest)
<1> DEFINE r == AfterOptions(words, reading)
           W == Range(words)
<1>1. r \in OptionStates(W)
  <2>1. words \in Seq(W)
    BY DEF Listed
  <2> HIDE DEF W
  <2>2. QED
    BY <2>1, AfterOptionsType
<1> HIDE DEF r, W
<1>2. r.rest \in Seq(W)
  BY <1>1 DEF OptionStates
<1>3. Listed(r.rest)
  BY <1>2, ListedIn
<1>4. QED
  BY <1>3 DEF r

LEMMA DispatchedType ==
    ASSUME NEW executable, NEW words, Listed(words), words # <<>>, NEW depth, NEW chain
    PROVE  LET tasks == Dispatched(executable, words, depth, chain).tasks
           IN  /\ Listed(tasks)
               /\ \A task \in Range(tasks) : Led(task, depth, chain)
               /\ Range(tasks) # {} => executable \in Dispatchers
<1> DEFINE tasks == Dispatched(executable, words, depth, chain).tasks
           Good(ts) == Listed(ts) /\ \A task \in Range(ts) : Led(task, depth, chain)
<1>1. \A tokens : tokens = Unlexed \/ (\A p \in Programs(tokens) : IsText(p))
                  => Good(<<TextTask(tokens, depth, chain)>>)
  BY ListedOne DEF TextTask, Led
<1>2. \A ws, redirections, force : Listed(ws)
                  => Good(<<WordsTask(ws, redirections, force, depth, chain)>>)
  BY ListedOne DEF WordsTask, Led
<1>3. Good(<<>>)
  BY ListedNone
<1>4. Listed(Tail(words))
  BY ListedHead
<1>5. ASSUME executable \in Shells
      PROVE  Good(tasks)
  <2>1. tasks = OfShell(words, depth, chain).tasks
    BY <1>5, DispatchersAssumption DEF Dispatched
  <2>2. tasks = <<>> \/ \E text : tasks = <<TextTask(TokensOf(text), depth, chain)>>
    BY <2>1 DEF OfShell, Leads, NoLead
  <2> HIDE DEF Good, tasks
  <2>3. QED
    BY <1>1, <1>3, <2>2, TokensOfText
<1>6. ASSUME executable \notin Shells, executable = "xargs"
      PROVE  Good(tasks)
  <2> DEFINE r == AfterOptions(Tail(words), Xargs)
  <2>1. tasks = OfXargs(words, depth, chain).tasks
    BY <1>6 DEF Dispatched
  <2>2. tasks = <<>> \/ tasks = <<WordsTask(r.rest, <<>>, TRUE, depth, chain)>>
    BY <2>1 DEF OfXargs, Leads, NoLead
  <2>3. Xargs.strict \in BOOLEAN
    BY DEF Xargs, Reading
  <2>4. Listed(r.rest)
    BY <1>4, <2>3, RestListed
  <2> HIDE DEF Good, tasks, r
  <2>5. QED
    BY <1>2, <1>3, <2>2, <2>4
<1>7. ASSUME executable \notin Shells, executable = "find"
      PROVE  Good(tasks)
  <2> DEFINE r == FindCommands(Tail(words))
             ts == [i \in DOMAIN r.commands |->
                       WordsTask(Expanded(r.commands[i]), <<>>, FALSE, depth, chain)]
  <2>1. tasks = OfFind(words, depth, chain).tasks
    BY <1>7 DEF Dispatched
  <2>2. tasks = <<>> \/ tasks = ts
    BY <2>1 DEF OfFind, Leads, NoLead
  <2> DEFINE W == Range(Tail(words))
  <2>3. r.commands \in Seq(Seq(W))
    BY <1>4, FindCommandsType DEF Listed
  <2> HIDE DEF W
  <2>4. Listed(ts)
    <3>1. Listed(r.commands)
      BY <2>3, ListedIn
    <3>2. DOMAIN ts = DOMAIN r.commands /\ ts = [i \in DOMAIN r.commands |-> ts[i]]
      OBVIOUS
    <3> HIDE DEF r, ts
    <3>3. QED
      BY <3>1, <3>2, ListedOver
  <2>5. ASSUME NEW i \in DOMAIN r.commands
        PROVE  Led(ts[i], depth, chain)
    <3> DEFINE ws == r.commands[i]
    <3>1. i \in 1..Len(r.commands)
      BY <2>3, LenProperties
    <3>2. ws \in Seq(W)
      <4> HIDE DEF r
      <4>1. QED
        BY <2>3, <3>1, ElementOfSeq
    <3>3. Listed(Expanded(ws))
      <4>1. Listed(ws)
        BY <3>2, ListedIn
      <4> HIDE DEF ws
      <4>2. DOMAIN Expanded(ws) = DOMAIN ws
            /\ Expanded(ws) = [j \in DOMAIN ws |-> Expanded(ws)[j]]
        BY DEF Expanded
      <4>3. QED
        BY <4>1, <4>2, ListedOver
    <3>4. ts[i] = WordsTask(Expanded(ws), <<>>, FALSE, depth, chain)
      OBVIOUS
    <3> HIDE DEF ws, ts
    <3>5. QED
      BY <3>3, <3>4 DEF WordsTask, Led
  <2>6. Good(ts)
    BY <2>4, <2>5 DEF Range
  <2> HIDE DEF Good, tasks, ts
  <2>7. QED
    BY <1>3, <2>2, <2>6
<1>8. ASSUME executable \notin Shells, executable = "watch"
      PROVE  Good(tasks)
  <2> DEFINE r == AfterOptions(Tail(words), Watch)
  <2>1. tasks = OfWatch(words, depth, chain).tasks
    BY <1>8 DEF Dispatched
  <2>2. \/ tasks = <<>>
        \/ tasks = <<WordsTask(r.rest, <<>>, FALSE, depth, chain)>>
        \/ tasks = <<TextTask(TokensOf(Texts(r.rest)), depth, chain)>>
    BY <2>1 DEF OfWatch, Leads, NoLead
  <2>3. Watch.strict \in BOOLEAN
    BY DEF Watch, Reading
  <2>4. Listed(r.rest)
    BY <1>4, <2>3, RestListed
  <2> HIDE DEF Good, tasks, r
  <2>5. QED
    BY <1>1, <1>2, <1>3, <2>2, <2>4, TokensOfText
<1>9. ASSUME executable \notin Shells, executable = "eval"
      PROVE  Good(tasks)
  <2>1. tasks = OfEval(words, depth, chain).tasks
    BY <1>9 DEF Dispatched
  <2>2. tasks = <<>> \/ tasks = <<TextTask(TokensOf(Texts(Tail(words))), depth, chain)>>
    BY <2>1 DEF OfEval, Leads, NoLead
  <2> HIDE DEF Good, tasks
  <2>3. QED
    BY <1>1, <1>3, <2>2, TokensOfText
<1>10. ASSUME executable \notin Dispatchers
       PROVE  Good(tasks) /\ Range(tasks) = {}
  <2>1. tasks = <<>>
    BY <1>10 DEF Dispatched, Dispatchers, Leads, NoLead
  <2>2. QED
    BY <2>1, <1>3, RangeEmpty
<1> HIDE DEF Good
<1>11. Good(tasks)
  BY <1>5, <1>6, <1>7, <1>8, <1>9, <1>10 DEF Dispatchers
<1>12. QED
  BY <1>10, <1>11 DEF Good

\* What an executable leads to does not depend on the depth.
LEMMA DispatchedAnyDepth ==
    ASSUME NEW executable, NEW words, NEW depth, NEW other, NEW chain
    PROVE  \A task \in Range(Dispatched(executable, words, other, chain).tasks) :
              \E t \in Range(Dispatched(executable, words, depth, chain).tasks) :
                 /\ t.kind = task.kind
                 /\ t.kind = "text" => t.tokens = task.tokens
                 /\ t.kind = "words" => t.words = task.words
<1> DEFINE at == Dispatched(executable, words, depth, chain).tasks
           there == Dispatched(executable, words, other, chain).tasks
           Same(u, t) == /\ t.kind = u.kind
                         /\ t.kind = "text" => t.tokens = u.tokens
                         /\ t.kind = "words" => t.words = u.words
           Alike == \A task \in Range(there) : \E t \in Range(at) : Same(task, t)
<1> SUFFICES Alike
  OBVIOUS
<1>1. \A tokens : there = <<TextTask(tokens, other, chain)>>
                  /\ at = <<TextTask(tokens, depth, chain)>> => Alike
  BY ListedOne DEF TextTask
<1>2. \A ws, rs, f : there = <<WordsTask(ws, rs, f, other, chain)>>
                     /\ at = <<WordsTask(ws, rs, f, depth, chain)>> => Alike
  BY ListedOne DEF WordsTask
<1>3. there = <<>> => Alike
  BY RangeEmpty
<1> HIDE DEF Alike
<1>4. CASE executable = "find" /\ executable \notin Shells
  <2> DEFINE r == FindCommands(Tail(words))
             Ts(d) == [i \in DOMAIN r.commands |->
                          WordsTask(Expanded(r.commands[i]), <<>>, FALSE, d, chain)]
  <2>1. there = <<>> \/ (there = Ts(other) /\ at = Ts(depth))
    BY <1>4 DEF Dispatched, OfFind, Leads, NoLead
  <2>2. \A i \in DOMAIN r.commands : Same(Ts(other)[i], Ts(depth)[i])
    BY DEF WordsTask
  <2>3. (DOMAIN Ts(other)) = (DOMAIN Ts(depth)) /\ (DOMAIN Ts(other)) = (DOMAIN r.commands)
    OBVIOUS
  <2>4. QED
    <3> HIDE DEF Ts, Same, at, there
    <3>1. there = Ts(other) /\ at = Ts(depth) => Alike
      BY <2>2, <2>3 DEF Range, Alike
    <3>2. QED
      BY <1>3, <2>1, <3>1
<1>5. CASE executable \in Shells
  <2>1. \/ there = <<>>
        \/ \E tokens : there = <<TextTask(tokens, other, chain)>>
                       /\ at = <<TextTask(tokens, depth, chain)>>
    BY <1>5, DispatchersAssumption DEF Dispatched, OfShell, Leads, NoLead
  <2> HIDE DEF at, there
  <2>2. QED
    BY <1>1, <1>3, <2>1
<1>6. CASE executable = "xargs" /\ executable \notin Shells
  <2>1. \/ there = <<>>
        \/ \E ws, rs, f : there = <<WordsTask(ws, rs, f, other, chain)>>
                          /\ at = <<WordsTask(ws, rs, f, depth, chain)>>
    BY <1>6 DEF Dispatched, OfXargs, Leads, NoLead
  <2> HIDE DEF at, there
  <2>2. QED
    BY <1>2, <1>3, <2>1
<1>7. CASE executable = "watch" /\ executable \notin Shells
  <2>1. \/ there = <<>>
        \/ \E tokens : there = <<TextTask(tokens, other, chain)>>
                       /\ at = <<TextTask(tokens, depth, chain)>>
        \/ \E ws, rs, f : there = <<WordsTask(ws, rs, f, other, chain)>>
                          /\ at = <<WordsTask(ws, rs, f, depth, chain)>>
    BY <1>7 DEF Dispatched, OfWatch, Leads, NoLead
  <2> HIDE DEF at, there
  <2>2. QED
    BY <1>1, <1>2, <1>3, <2>1
<1>8. CASE executable = "eval" /\ executable \notin Shells
  <2>1. \/ there = <<>>
        \/ \E tokens : there = <<TextTask(tokens, other, chain)>>
                       /\ at = <<TextTask(tokens, depth, chain)>>
    BY <1>8 DEF Dispatched, OfEval, Leads, NoLead
  <2> HIDE DEF at, there
  <2>2. QED
    BY <1>1, <1>3, <2>1
<1>9. CASE executable \notin Dispatchers
  <2>1. there = <<>>
    BY <1>9 DEF Dispatched, Dispatchers, Leads, NoLead
  <2>2. QED
    BY <1>3, <2>1
<1>10. QED
  BY <1>4, <1>5, <1>6, <1>7, <1>8, <1>9 DEF Dispatchers
\* Nor does whether it is refused.
LEMMA DispatchedOk ==
    ASSUME NEW executable, NEW words, NEW depth, NEW other, NEW chain
    PROVE  Dispatched(executable, words, depth, chain).ok
           = Dispatched(executable, words, other, chain).ok
<1> DEFINE at == Dispatched(executable, words, depth, chain)
           there == Dispatched(executable, words, other, chain)
<1>1. \A t, u : Leads(t).ok = Leads(u).ok
  BY DEF Leads
<1>2. CASE executable \in Shells
  <2>1. at = OfShell(words, depth, chain) /\ there = OfShell(words, other, chain)
    BY <1>2, DispatchersAssumption DEF Dispatched
  <2>2. \/ at = NoLead /\ there = NoLead
        \/ \E t, u : at = Leads(t) /\ there = Leads(u)
    BY <2>1 DEF OfShell
  <2>3. QED
    BY <1>1, <2>2
<1>3. CASE executable = "xargs" /\ executable \notin Shells
  <2>1. \/ at = NoLead /\ there = NoLead
        \/ \E t, u : at = Leads(t) /\ there = Leads(u)
    BY <1>3 DEF Dispatched, OfXargs
  <2>2. QED
    BY <1>1, <2>1
<1>4. CASE executable = "find" /\ executable \notin Shells
  <2>1. \/ at = NoLead /\ there = NoLead
        \/ \E t, u : at = Leads(t) /\ there = Leads(u)
    BY <1>4 DEF Dispatched, OfFind
  <2>2. QED
    BY <1>1, <2>1
<1>5. CASE executable = "watch" /\ executable \notin Shells
  <2>1. \/ at = NoLead /\ there = NoLead
        \/ \E t, u : at = Leads(t) /\ there = Leads(u)
    BY <1>5 DEF Dispatched, OfWatch
  <2>2. QED
    BY <1>1, <2>1
<1>6. CASE executable = "eval" /\ executable \notin Shells
  <2>1. \/ at = NoLead /\ there = NoLead
        \/ \E t, u : at = Leads(t) /\ there = Leads(u)
    BY <1>6 DEF Dispatched, OfEval
  <2>2. QED
    BY <1>1, <2>1
<1>7. CASE executable \notin Shells \cup {"xargs", "find", "watch", "eval"}
  BY <1>7 DEF Dispatched
<1>8. QED
  BY <1>2, <1>3, <1>4, <1>5, <1>6, <1>7

LEMMA LeastIs ==
    ASSUME NEW S \in SUBSET Nat, S # {}
    PROVE  Least(S) \in S /\ \A j \in S : Least(S) \leq j
<1> DEFINE R == {ss \in Nat \X Nat : ss[1] < ss[2]}
<1>1. PICK m \in S : \A n \in S : ~(<<n, m>> \in R)
  <2>1. IsWellFoundedOn(R, Nat)
    BY LessWellFounded
  <2> HIDE DEF R
  <2>2. QED
    BY <2>1, WFMin
<1>2. ASSUME NEW n \in S
      PROVE  m \leq n
  <2>1. m \in Nat /\ n \in Nat
    OBVIOUS
  <2>2. ~(n < m)
    BY <1>1, <2>1
  <2>3. QED
    BY <2>1, <2>2
<1>3. QED
  BY <1>1, <1>2 DEF Least

\* What an executable runs is what it leads to, unless that is refused.
LEMMA RunsFound ==
    ASSUME NEW executable, NEW words, Listed(words), words # <<>>, NEW depth, NEW chain,
           Dispatched(executable, words, depth, chain).ok
    PROVE  LET tasks == Dispatched(executable, words, depth, chain).tasks
           IN  /\ \A text \in TextsRun(executable, words) :
                     \E task \in Range(tasks) : task.kind = "text" /\ task.tokens = text
               /\ \A ws \in CommandsRun(executable, words) :
                     \E task \in Range(tasks) : task.kind = "words" /\ task.words = ws
<1> DEFINE d == Dispatched(executable, words, depth, chain)
           W == Range(words)
           rest == Tail(words)
           Has(text) == \E task \in Range(d.tasks) : task.kind = "text" /\ task.tokens = text
           Runs(ws) == \E task \in Range(d.tasks) : task.kind = "words" /\ task.words = ws
<1> SUFFICES /\ \A text \in TextsRun(executable, words) : Has(text)
             /\ \A ws \in CommandsRun(executable, words) : Runs(ws)
  OBVIOUS
<1>1. words \in Seq(W) /\ Len(words) \in Nat
  BY LenProperties DEF Listed
<1>2. rest \in Seq(W)
  BY <1>1, TailType
<1>3. \A tokens : d.tasks = <<TextTask(tokens, depth, chain)>> => Has(tokens)
  BY ListedOne DEF TextTask
<1>4. \A ws, rs, force : d.tasks = <<WordsTask(ws, rs, force, depth, chain)>> => Runs(ws)
  BY ListedOne DEF WordsTask
<1>5. d.ok /\ ~NoLead.ok
  BY DEF NoLead
<1>6. CASE executable \in Shells
  <2>1. executable \notin {"xargs", "find", "watch", "eval", "parallel"}
    BY <1>6, DispatchersAssumption
  <2>2. d = OfShell(words, depth, chain) /\ CommandsRun(executable, words) = {}
    BY <1>6, <2>1 DEF Dispatched, CommandsRun
  <2> DEFINE dashes == {k \in 2..Len(words) : words[k].value = "--"} \cup {Len(words) + 1}
             end == Least(dashes)
             flags == {k \in 2..(end - 1) : words[k].value \in CommandFlags}
             payload == Least(flags) + 1
  <2>3. d = IF flags = {} THEN Leads(<<>>)
            ELSE IF payload > Len(words) THEN Leads(<<>>)
            ELSE IF words[payload - 1].dynamic \/ words[payload].dynamic THEN NoLead
            ELSE Leads(<<TextTask(TokensOf(<<words[payload].value>>), depth, chain)>>)
    BY <2>2 DEF OfShell
  <2> HIDE DEF d
  <2>4. ASSUME NEW i \in 3..Len(words),
               words[i - 1].value \in CommandFlags,
               \A j \in 2..(i - 2) : words[j].value \notin CommandFlags,
               \A j \in 2..(i - 1) : words[j].value # "--"
        PROVE  Has(TokensOf(<<words[i].value>>))
    <3>1. dashes \in SUBSET Nat /\ dashes # {}
      BY <1>1
    <3>2. end \in dashes
      <4> HIDE DEF dashes
      <4>1. QED
        BY <3>1, LeastIs
    <3>3. end \in Nat /\ i - 1 < end
      <4>1. \A k \in 2..Len(words) : words[k].value = "--" => i - 1 < k
        BY <1>1, <2>4
      <4> HIDE DEF end
      <4>2. QED
        BY <1>1, <3>2, <4>1
    <3> HIDE DEF end
    <3>4. i - 1 \in flags /\ \A j \in flags : i - 1 \leq j
      BY <2>4, <3>3
    <3>5. flags \in SUBSET Nat
      BY <3>3
    <3> HIDE DEF flags
    <3>6. Least(flags) = i - 1
      <4>1. Least(flags) \in flags /\ Least(flags) \leq i - 1
        BY <3>4, <3>5, LeastIs
      <4>2. Least(flags) \in Nat /\ i - 1 \in Nat /\ i - 1 \leq Least(flags)
        BY <3>4, <3>5, <4>1
      <4>3. QED
        BY <4>1, <4>2
    <3>7. payload = i /\ payload \leq Len(words)
      BY <3>6
    <3> HIDE DEF payload
    <3>8. d = Leads(<<TextTask(TokensOf(<<words[i].value>>), depth, chain)>>)
      BY <1>1, <1>5, <2>3, <3>4, <3>7
    <3>9. QED
      BY <1>3, <3>8 DEF Leads
  <2>5. QED
    BY <1>6, <2>2, <2>4 DEF TextsRun
<1>7. CASE executable = "xargs" /\ executable \notin Shells
  <2> DEFINE r == AfterOptions(rest, Xargs)
             x == Operands(rest, "xargs")
  <2>1. d = OfXargs(words, depth, chain) /\ TextsRun(executable, words) = {}
    BY <1>7 DEF Dispatched, TextsRun
  <2>2. Suits(Xargs, "xargs") /\ Xargs.strict \in BOOLEAN
    BY DEF Suits, ReadingOf, Xargs, Reading
  <2>3. d = IF ~r.ok THEN NoLead ELSE IF r.rest = <<>> THEN Leads(<<>>)
            ELSE Leads(<<WordsTask(r.rest, <<>>, TRUE, depth, chain)>>)
    BY <2>1 DEF OfXargs
  <2> HIDE DEF d
  <2>4. r.ok
    BY <1>5, <2>3
  <2>5. ASSUME x.clear, x.rest # <<>>
        PROVE  Runs(x.rest)
    <3>1. SameOptions(r, x)
      <4> HIDE DEF rest
      <4>1. QED
        BY <1>2, <2>2, <2>4, <2>5, OperandsFound
    <3>2. r.rest = x.rest
      BY <3>1 DEF SameOptions
    <3> HIDE DEF r, x
    <3>3. d = Leads(<<WordsTask(x.rest, <<>>, TRUE, depth, chain)>>)
      BY <2>3, <2>4, <2>5, <3>2
    <3>4. QED
      BY <1>4, <3>3 DEF Leads
  <2>6. \A ws \in CommandsRun(executable, words) : x.clear /\ x.rest # <<>> /\ ws = x.rest
    BY <1>7 DEF CommandsRun
  <2> HIDE DEF r, x
  <2>7. QED
    BY <2>1, <2>5, <2>6
<1>8. CASE executable = "watch" /\ executable \notin Shells
  <2> DEFINE r == AfterOptions(rest, Watch)
             x == Operands(rest, "watch")
  <2>1. d = OfWatch(words, depth, chain)
    BY <1>8 DEF Dispatched
  <2>2. Suits(Watch, "watch") /\ Watch.strict \in BOOLEAN
    BY DEF Suits, ReadingOf, Watch, Reading
  <2>3. d = IF ~r.ok \/ r.rest = <<>> THEN NoLead
            ELSE IF r.seen \cap WatchDirect # {}
            THEN Leads(<<WordsTask(r.rest, <<>>, FALSE, depth, chain)>>)
            ELSE IF HasDynamic(r.rest) THEN NoLead
            ELSE Leads(<<TextTask(TokensOf(Texts(r.rest)), depth, chain)>>)
    BY <2>1 DEF OfWatch
  <2> HIDE DEF d
  <2>4. r.ok /\ r.rest # <<>>
    BY <1>5, <2>3
  <2>5. ASSUME x.clear
        PROVE  r.rest = x.rest /\ r.seen = x.options
    <3> HIDE DEF rest
    <3>1. SameOptions(r, x)
      BY <1>2, <2>2, <2>4, <2>5, OperandsFound
    <3>2. QED
      BY <3>1 DEF SameOptions
  <2>6. \A text \in TextsRun(executable, words) :
           x.clear /\ x.options \cap WatchDirect = {} /\ text = TokensOf(Texts(x.rest))
    BY <1>8 DEF TextsRun
  <2>7. \A ws \in CommandsRun(executable, words) :
           x.clear /\ x.options \cap WatchDirect # {} /\ ws = x.rest
    BY <1>8 DEF CommandsRun
  <2> HIDE DEF r, x
  <2>8. ASSUME x.clear, x.options \cap WatchDirect = {}
        PROVE  Has(TokensOf(Texts(x.rest)))
    <3>1. d = Leads(<<TextTask(TokensOf(Texts(x.rest)), depth, chain)>>)
      BY <1>5, <2>3, <2>4, <2>5, <2>8
    <3>2. QED
      BY <1>3, <3>1 DEF Leads
  <2>9. ASSUME x.clear, x.options \cap WatchDirect # {}
        PROVE  Runs(x.rest)
    <3>1. d = Leads(<<WordsTask(x.rest, <<>>, FALSE, depth, chain)>>)
      BY <1>5, <2>3, <2>4, <2>5, <2>9
    <3>2. QED
      BY <1>4, <3>1 DEF Leads
  <2>10. QED
    BY <2>6, <2>7, <2>8, <2>9
<1>9. CASE executable = "find" /\ executable \notin Shells
  <2> DEFINE r == FindCommands(rest)
             ts == [i \in DOMAIN r.commands |->
                       WordsTask(Expanded(r.commands[i]), <<>>, FALSE, depth, chain)]
  <2>1. d = OfFind(words, depth, chain) /\ TextsRun(executable, words) = {}
    BY <1>9 DEF Dispatched, TextsRun
  <2>2. d = IF ~r.ok THEN NoLead ELSE Leads(ts)
    BY <2>1 DEF OfFind
  <2> HIDE DEF d
  <2>3. d = Leads(ts)
    BY <1>5, <2>2
  <2>4. ASSUME NEW i \in DOMAIN r.commands
        PROVE  Runs(Expanded(r.commands[i]))
    <3>1. ts[i] = WordsTask(Expanded(r.commands[i]), <<>>, FALSE, depth, chain)
      OBVIOUS
    <3>2. ts[i] \in Range(ts)
      BY DEF Range
    <3> HIDE DEF ts, r
    <3>3. QED
      BY <2>3, <3>1, <3>2 DEF Leads, WordsTask
  <2>5. \A ws \in CommandsRun(executable, words) : \E i \in DOMAIN r.commands :
           ws = Expanded(r.commands[i])
    BY <1>9 DEF CommandsRun, Range
  <2> HIDE DEF r
  <2>6. QED
    BY <2>1, <2>4, <2>5
<1>10. CASE executable = "eval" /\ executable \notin Shells
  <2>1. d = OfEval(words, depth, chain) /\ CommandsRun(executable, words) = {}
    BY <1>10 DEF Dispatched, CommandsRun
  <2>2. \A text \in TextsRun(executable, words) :
           Len(words) > 1 /\ text = TokensOf(Texts(rest))
    BY <1>10 DEF TextsRun
  <2>3. ASSUME Len(words) > 1
        PROVE  Has(TokensOf(Texts(rest)))
    <3>1. d = IF HasDynamic(rest) THEN NoLead
              ELSE Leads(<<TextTask(TokensOf(Texts(rest)), depth, chain)>>)
      BY <1>1, <2>1, <2>3 DEF OfEval
    <3> HIDE DEF d, rest
    <3>2. d = Leads(<<TextTask(TokensOf(Texts(rest)), depth, chain)>>)
      BY <1>5, <3>1
    <3>3. QED
      BY <1>3, <3>2 DEF Leads
  <2>4. QED
    BY <2>1, <2>2, <2>3
<1>11. CASE executable \notin Shells \cup {"xargs", "find", "watch", "eval"}
  BY <1>11 DEF TextsRun, CommandsRun
<1>12. QED
  BY <1>6, <1>7, <1>8, <1>9, <1>10, <1>11

-----------------------------------------------------------------------------
(* The invariant *)

\* A word whose substitutions the parser has accepted.
FineWord(w) ==
    /\ Listed(w.substitutions)
    /\ \A q \in Range(w.substitutions) : Fine(q)

\* The tasks are what their actions take them for.
FineTask(task) ==
    /\ task.depth \in Nat
    /\ task.kind = "text" =>
          task.tokens = Unlexed \/ \A p \in Programs(task.tokens) : IsText(p)
    /\ task.kind = "program" => Fine(task.tokens)
    /\ task.kind = "command" =>
          /\ Listed(task.command.words)
          /\ Listed(ExpansionWords(task.command))
          /\ \A w \in Range(ExpansionWords(task.command)) : FineWord(w)
    /\ task.kind = "expansion" => FineWord(task.word)
    /\ task.kind = "words" => Listed(task.words)

\* The programs that a task leads to, by substitutions alone.
Within(w) == UNION {Programs(q) : q \in Range(w.substitutions)}
Behind(task) ==
    CASE task.kind \in {"text", "program"} -> Programs(task.tokens)
      [] task.kind = "command" -> UNION {Within(w) : w \in Range(ExpansionWords(task.command))}
      [] task.kind = "expansion" -> Within(task.word)
      [] OTHER -> {}

\* A task that will collect words.
Collects(task, words) ==
    \/ task.kind = "words" /\ task.words = words
    \/ task.kind = "command" /\ task.command.words = words

\* What the code takes words to run is among the invocations.
Kept(words, chain) ==
    LET s == StripPrefixes(words)
    IN  /\ Listed(words) /\ s.ok
        /\ s.words = <<>> \/ \E i \in DOMAIN invocations :
              invocations[i].words = s.words /\ invocations[i].chain = chain \o s.removed

\* It is, or will be.
Pending(words, chain) ==
    \/ Kept(words, chain)
    \/ \E task \in Range(stack) : task.chain = chain /\ Collects(task, words)

\* A program is behind a task, or has become its commands.
Accounted(p, chain) ==
    \/ \E task \in Range(stack) : task.chain = chain /\ p \in Behind(task)
    \/ LET commands == ParseTokens(p).commands
       IN  /\ WordsOf(p) = UNION {Range(c.words) \cup Targets(c) : c \in Range(commands)}
           /\ \A c \in Range(commands) : Pending(c.words, chain)

\* What an invocation leads to is not refused, and behind a task, or collected.
Followed(inv) ==
    LET chain == Append(inv.chain, inv.executable)
        led == Dispatched(inv.executable, inv.words, 0, chain)
    IN  /\ led.ok
        /\ \A task \in Range(led.tasks) :
              IF task.kind = "text" THEN \A p \in Programs(task.tokens) : Accounted(p, chain)
              ELSE Pending(task.words, chain)

Collected ==
    /\ \A p \in Programs(input) : Accounted(p, <<>>)
    /\ \A i \in DOMAIN invocations : Followed(invocations[i])

\* The last dispatcher in a chain is among the first n of the invocations invs.
Grounded(invs, chain, n) ==
    /\ chain \in Seq(Dispatchers \cup DOMAIN Wrappers)
    /\ \A k \in DOMAIN chain :
          chain[k] \in Dispatchers /\ (\A d \in DOMAIN chain : chain[d] \in Dispatchers => d \leq k)
          => \E j \in 1..n : invs[j].executable = chain[k] /\ invs[j].chain = SubSeq(chain, 1, k - 1)

TasksInv ==
    /\ Listed(stack)
    /\ \A task \in Range(stack) : FineTask(task)

ChainsInv ==
    /\ Listed(invocations)
    /\ \A task \in Range(stack) : Grounded(invocations, task.chain, Len(invocations))
    /\ \A i \in DOMAIN invocations : Grounded(invocations, invocations[i].chain, i - 1)

CollectedInv ==
    /\ status # "error" => Collected
    /\ status = "done" => stack = <<>>

\* What a task leads to is passed on to the tasks new, in its place.
Passes(task, new) ==
    /\ \A words : Collects(task, words) => \E t \in Range(new) : Collects(t, words)
    /\ \A p \in Behind(task) :
          \/ \E t \in Range(new) : p \in Behind(t)
          \/ LET commands == ParseTokens(p).commands
             IN  /\ WordsOf(p) = UNION {Range(c.words) \cup Targets(c) : c \in Range(commands)}
                 /\ \A c \in Range(commands) : \E t \in Range(new) : Collects(t, c.words)

Walked(task, new) ==
    /\ Listed(new)
    /\ \A t \in Range(new) : FineTask(t) /\ t.chain = task.chain
    /\ Passes(task, new)

LEMMA TextWalked ==
    ASSUME NEW task, FineTask(task), task.kind = "text", TextParses(task)
    PROVE  Walked(task, <<ProgramTask(task.tokens, task.depth, task.chain)>>)
<1> DEFINE t == ProgramTask(task.tokens, task.depth, task.chain)
<1>1. /\ t.kind = "program" /\ t.tokens = task.tokens /\ t.depth = task.depth
      /\ t.chain = task.chain
  BY DEF ProgramTask
<1>2. Fine(task.tokens) /\ task.depth \in Nat
  BY ParsesFine DEF FineTask, TextParses
<1> HIDE DEF t
<1>3. FineTask(t)
  BY <1>1, <1>2 DEF FineTask
<1>4. Behind(t) = Behind(task)
  BY <1>1 DEF Behind
<1>5. \A words : ~Collects(task, words)
  BY DEF Collects
<1>6. Listed(<<t>>) /\ Range(<<t>>) = {t}
  BY ListedOne
<1>7. Passes(task, <<t>>)
  BY <1>4, <1>5, <1>6 DEF Passes
<1>8. Walked(task, <<t>>)
  BY <1>1, <1>3, <1>6, <1>7 DEF Walked
<1>9. QED
  BY <1>8 DEF t

\* What walk_commands yields for a program.
LEMMA ProgramWalked ==
    ASSUME NEW task, FineTask(task), task.kind = "program"
    PROVE  LET commands == ParseTokens(task.tokens).commands
           IN  Walked(task, [i \in DOMAIN commands |->
                                CommandTask(commands[i], task.depth, task.chain)])
<1> DEFINE tokens == task.tokens
           commands == ParseTokens(tokens).commands
           new == [i \in DOMAIN commands |-> CommandTask(commands[i], task.depth, task.chain)]
<1>1. Fine(tokens) /\ task.depth \in Nat
  BY DEF FineTask
<1>2. IsText(tokens) /\ ParseTokens(tokens).ok
  BY <1>1, NestedFirst DEF Fine
<1>3. /\ commands \in Seq(CommandsOf(tokens))
      /\ WordsOf(tokens) = UNION {Range(c.words) \cup Targets(c) : c \in Range(commands)}
  BY <1>2, ParseKeeps
<1>4. Listed(commands) /\ \A c \in Range(commands) : c \in CommandsOf(tokens)
  BY <1>3, ListedIn
<1>5. /\ Programs(tokens) = {tokens} \cup UNION {Programs(q) : q \in Substituted(tokens)}
      /\ \A q \in Substituted(tokens) : Fine(q)
  BY <1>1, ProgramsUnfold
<1>6. ASSUME NEW w \in WordsOf(tokens)
      PROVE  FineWord(w)
  <2>1. Listed(w.substitutions)
    BY <1>2 DEF IsText, Listed
  <2>2. Range(w.substitutions) \subseteq Substituted(tokens)
    BY DEF Substituted
  <2>3. QED
    BY <1>5, <2>1, <2>2 DEF FineWord
<1>7. ASSUME NEW i \in DOMAIN commands
      PROVE  /\ new[i].kind = "command" /\ new[i].command = commands[i]
             /\ new[i].depth = task.depth /\ new[i].chain = task.chain
             /\ new[i] \in Range(new) /\ commands[i] \in Range(commands)
  BY DEF CommandTask, Range
<1>8. \A t \in Range(new) : \E i \in DOMAIN commands : t = new[i]
  BY DEF Range
<1>9. Listed(new)
  <2>1. DOMAIN new = DOMAIN commands /\ new = [i \in DOMAIN commands |-> new[i]]
    OBVIOUS
  <2> HIDE DEF new, commands
  <2>2. QED
    BY <1>4, <2>1, ListedOver
<1>10. \A c \in Range(commands) : \E t \in Range(new) : t.kind = "command" /\ t.command = c
  <2>1. \A c \in Range(commands) : \E i \in DOMAIN commands : c = commands[i]
    BY DEF Range
  <2> HIDE DEF new, commands
  <2>2. QED
    BY <1>7, <2>1
<1> HIDE DEF new, commands, tokens
<1>11. ASSUME NEW t \in Range(new)
       PROVE  FineTask(t) /\ t.chain = task.chain
  <2>1. PICK i \in DOMAIN commands : t = new[i]
    BY <1>8
  <2>2. /\ t.kind = "command" /\ t.depth = task.depth /\ t.chain = task.chain
        /\ t.command \in CommandsOf(tokens) /\ t.command \in Range(commands)
    BY <1>4, <1>7, <2>1
  <2>3. /\ ExpansionWords(t.command) \in Seq(WordsOf(tokens))
        /\ t.command.words \in Seq(WordsOf(tokens))
    BY <2>2, ExpansionWordsAre DEF CommandsOf
  <2>4. /\ Listed(ExpansionWords(t.command)) /\ Listed(t.command.words)
        /\ Range(ExpansionWords(t.command)) \subseteq WordsOf(tokens)
    BY <2>3, ListedIn
  <2>5. QED
    BY <1>1, <1>6, <2>2, <2>4 DEF FineTask
<1>12. ASSUME NEW p \in Behind(task), p # tokens
       PROVE  \E t \in Range(new) : p \in Behind(t)
  <2>1. p \in Programs(tokens)
    BY DEF Behind, tokens
  <2>2. PICK q \in Substituted(tokens) : p \in Programs(q)
    BY <1>5, <1>12, <2>1
  <2>3. PICK w \in WordsOf(tokens) : q \in Range(w.substitutions)
    BY DEF Substituted
  <2>4. PICK c \in Range(commands) : w \in Range(c.words) \cup Targets(c)
    BY <1>3
  <2>5. w \in Range(ExpansionWords(c))
    BY <1>4, <2>4, ExpansionWordsAre
  <2>6. PICK t \in Range(new) : t.kind = "command" /\ t.command = c
    BY <1>10
  <2>7. p \in Within(w)
    BY <2>2, <2>3 DEF Within
  <2>8. Behind(t) = UNION {Within(x) : x \in Range(ExpansionWords(c))}
    BY <2>6 DEF Behind
  <2>9. QED
    BY <2>5, <2>7, <2>8
<1>13. \A c \in Range(commands) : \E t \in Range(new) : Collects(t, c.words)
  BY <1>10 DEF Collects
<1>14. Passes(task, new)
  <2>1. \A words : ~Collects(task, words)
    BY DEF Collects
  <2>2. QED
    BY <1>3, <1>12, <1>13, <2>1 DEF Passes, commands
<1>15. Walked(task, new)
  BY <1>9, <1>11, <1>14 DEF Walked
<1>16. QED
  BY <1>15 DEF new, commands, tokens

LEMMA CommandWalked ==
    ASSUME NEW task, FineTask(task), task.kind = "command"
    PROVE  LET c == task.command
               ws == ExpansionWords(c)
           IN  Walked(task, <<WordsTask(c.words, c.redirections, FALSE, task.depth, task.chain)>>
                            \o [i \in DOMAIN ws |-> ExpansionTask(ws[i], task.depth, task.chain)])
<1> DEFINE c == task.command
           ws == ExpansionWords(c)
           first == WordsTask(c.words, c.redirections, FALSE, task.depth, task.chain)
           rest == [i \in DOMAIN ws |-> ExpansionTask(ws[i], task.depth, task.chain)]
           new == <<first>> \o rest
<1>1. /\ task.depth \in Nat /\ Listed(c.words) /\ Listed(ws)
      /\ \A w \in Range(ws) : FineWord(w)
  BY DEF FineTask
<1>2. /\ first.kind = "words" /\ first.words = c.words /\ first.depth = task.depth
      /\ first.chain = task.chain
  BY DEF WordsTask
<1>3. \A i \in DOMAIN ws : /\ rest[i].kind = "expansion" /\ rest[i].word = ws[i]
                           /\ rest[i].depth = task.depth /\ rest[i].chain = task.chain
  BY DEF ExpansionTask
<1>4. Listed(rest)
  <2>1. DOMAIN rest = DOMAIN ws /\ rest = [i \in DOMAIN ws |-> rest[i]]
    OBVIOUS
  <2> HIDE DEF rest, ws
  <2>2. QED
    BY <1>1, <2>1, ListedOver
<1>5. Range(rest) = {rest[i] : i \in DOMAIN ws}
  BY DEF Range
<1>6. Range(ws) = {ws[i] : i \in DOMAIN ws}
  BY DEF Range
<1> HIDE DEF first, rest
<1>7. Listed(new) /\ Range(new) = {first} \cup Range(rest)
  BY <1>4, ListedOne, ListedAfter
<1> HIDE DEF new, ws
<1>8. FineTask(first)
  BY <1>1, <1>2 DEF FineTask
<1>9. ASSUME NEW t \in Range(rest)
      PROVE  FineTask(t) /\ t.chain = task.chain
  <2>1. PICK i \in DOMAIN ws : t = rest[i]
    BY <1>5
  <2>2. FineWord(t.word) /\ t.kind = "expansion" /\ t.depth \in Nat /\ t.chain = task.chain
    BY <1>1, <1>3, <1>6, <2>1
  <2>3. QED
    BY <2>2 DEF FineTask
<1>10. ASSUME NEW p \in Behind(task)
       PROVE  \E t \in Range(new) : p \in Behind(t)
  <2>1. PICK w \in Range(ws) : p \in Within(w)
    BY DEF Behind, ws
  <2>2. PICK i \in DOMAIN ws : w = ws[i]
    BY <1>6
  <2>3. rest[i].kind = "expansion" /\ rest[i].word = w /\ rest[i] \in Range(new)
    BY <1>3, <1>5, <1>7, <2>2
  <2>4. p \in Behind(rest[i])
    BY <2>1, <2>3 DEF Behind
  <2>5. QED
    BY <2>3, <2>4
<1>11. \A words : Collects(task, words) => Collects(first, words)
  BY <1>2 DEF Collects
<1>12. Passes(task, new)
  BY <1>7, <1>10, <1>11 DEF Passes
<1>13. Walked(task, new)
  BY <1>2, <1>7, <1>8, <1>9, <1>12 DEF Walked
<1>14. QED
  BY <1>13 DEF new, first, rest, ws

LEMMA WordWalked ==
    ASSUME NEW task, FineTask(task), task.kind = "expansion"
    PROVE  LET programs == task.word.substitutions
           IN  Walked(task, [i \in DOMAIN programs |->
                                ProgramTask(programs[i], task.depth, task.chain)])
<1> DEFINE programs == task.word.substitutions
           new == [i \in DOMAIN programs |-> ProgramTask(programs[i], task.depth, task.chain)]
<1>1. task.depth \in Nat /\ Listed(programs) /\ \A q \in Range(programs) : Fine(q)
  BY DEF FineTask, FineWord
<1>2. \A i \in DOMAIN programs :
         /\ new[i].kind = "program" /\ new[i].tokens = programs[i]
         /\ new[i].depth = task.depth /\ new[i].chain = task.chain
  BY DEF ProgramTask
<1>3. Range(new) = {new[i] : i \in DOMAIN programs}
  BY DEF Range
<1>4. Range(programs) = {programs[i] : i \in DOMAIN programs}
  BY DEF Range
<1>5. Listed(new)
  <2>1. DOMAIN new = DOMAIN programs /\ new = [i \in DOMAIN programs |-> new[i]]
    OBVIOUS
  <2> HIDE DEF new, programs
  <2>2. QED
    BY <1>1, <2>1, ListedOver
<1> HIDE DEF new
<1>6. ASSUME NEW t \in Range(new)
      PROVE  FineTask(t) /\ t.chain = task.chain
  <2>1. PICK i \in DOMAIN programs : t = new[i]
    BY <1>3
  <2>2. t.kind = "program" /\ Fine(t.tokens) /\ t.depth \in Nat /\ t.chain = task.chain
    BY <1>1, <1>2, <1>4, <2>1
  <2>3. QED
    BY <2>2 DEF FineTask
<1>7. ASSUME NEW p \in Behind(task)
      PROVE  \E t \in Range(new) : p \in Behind(t)
  <2>1. PICK q \in Range(programs) : p \in Programs(q)
    BY DEF Behind, Within
  <2>2. PICK i \in DOMAIN programs : q = programs[i]
    BY <1>4
  <2>3. new[i].kind = "program" /\ new[i].tokens = q /\ new[i] \in Range(new)
    BY <1>2, <1>3, <2>2
  <2>4. p \in Behind(new[i])
    BY <2>1, <2>3 DEF Behind
  <2>5. QED
    BY <2>3, <2>4
<1>8. \A words : ~Collects(task, words)
  BY DEF Collects
<1>9. Passes(task, new)
  BY <1>7, <1>8 DEF Passes
<1>10. Walked(task, new)
  BY <1>5, <1>6, <1>9 DEF Walked
<1>11. QED
  BY <1>10 DEF new

-----------------------------------------------------------------------------
(* The tasks *)

LEMMA Replaced ==
    ASSUME TasksInv, stack # <<>>, NEW new, Listed(new), stack' = new \o Tail(stack),
           \A t \in Range(new) : FineTask(t)
    PROVE  /\ TasksInv'
           /\ Range(stack') = Range(new) \cup Range(Tail(stack))
           /\ Head(stack) \in Range(stack)
           /\ Range(stack) = {Head(stack)} \cup Range(Tail(stack))
<1>1. /\ Head(stack) \in Range(stack) /\ Listed(Tail(stack))
      /\ Range(stack) = {Head(stack)} \cup Range(Tail(stack))
  BY ListedHead DEF TasksInv
<1>2. Listed(stack') /\ Range(stack') = Range(new) \cup Range(Tail(stack))
  BY <1>1, ListedAfter
<1>3. QED
  BY <1>1, <1>2 DEF TasksInv

Walks == EnterText \/ WalkProgram \/ WalkCommand \/ WalkWord

LEMMA HeadFine ==
    ASSUME TasksInv, stack # <<>>
    PROVE  FineTask(Head(stack)) /\ Head(stack) \in Range(stack)
BY ListedHead DEF TasksInv

LEMMA WalksReplace ==
    ASSUME TasksInv, Walks
    PROVE  /\ stack # <<>> /\ status = "collecting" /\ UNCHANGED <<input, invocations, status>>
           /\ \E new : Walked(Head(stack), new) /\ stack' = new \o Tail(stack)
<1> DEFINE task == Head(stack)
           Goal == /\ stack # <<>> /\ status = "collecting"
                   /\ UNCHANGED <<input, invocations, status>>
                   /\ \E new : Walked(task, new) /\ stack' = new \o Tail(stack)
<1> SUFFICES Goal
  OBVIOUS
<1>1. FineTask(task)
  BY HeadFine DEF Walks, EnterText, WalkProgram, WalkCommand, WalkWord, Calls
<1>2. CASE EnterText
  <2>1. TextParses(task) /\ task.kind = "text"
    BY <1>2 DEF EnterText, Calls
  <2>2. Walked(task, <<ProgramTask(task.tokens, task.depth, task.chain)>>)
    BY <1>1, <2>1, TextWalked
  <2>3. QED
    BY <1>2, <2>2 DEF EnterText, Calls
<1>3. CASE WalkProgram
  <2> DEFINE commands == ParseTokens(task.tokens).commands
             new == [i \in DOMAIN commands |-> CommandTask(commands[i], task.depth, task.chain)]
  <2>1. task.kind = "program"
    BY <1>3 DEF WalkProgram, Calls
  <2>2. Walked(task, new)
    BY <1>1, <2>1, ProgramWalked
  <2>3. QED
    BY <1>3, <2>2 DEF WalkProgram, Calls
<1>4. CASE WalkCommand
  <2> DEFINE c == task.command
             ws == ExpansionWords(c)
             new == <<WordsTask(c.words, c.redirections, FALSE, task.depth, task.chain)>>
                    \o [i \in DOMAIN ws |-> ExpansionTask(ws[i], task.depth, task.chain)]
  <2>1. task.kind = "command"
    BY <1>4 DEF WalkCommand, Calls
  <2>2. Walked(task, new)
    BY <1>1, <2>1, CommandWalked
  <2>3. stack' = new \o Tail(stack)
    BY <1>4 DEF WalkCommand
  <2> HIDE DEF new
  <2>4. QED
    BY <1>4, <2>2, <2>3 DEF WalkCommand, Calls
<1>5. CASE WalkWord
  <2> DEFINE programs == task.word.substitutions
             new == [i \in DOMAIN programs |-> ProgramTask(programs[i], task.depth, task.chain)]
  <2>1. task.kind = "expansion"
    BY <1>5 DEF WalkWord, Calls
  <2>2. Walked(task, new)
    BY <1>1, <2>1, WordWalked
  <2>3. QED
    BY <1>5, <2>2 DEF WalkWord, Calls
<1>6. QED
  BY <1>2, <1>3, <1>4, <1>5 DEF Walks

\* The tasks that an invocation puts on the stack.
LedTasks ==
    LET task == Head(stack)
        s == StripPrefixes(task.words)
        executable == Basename(s.words[1].value)
    IN  Dispatched(executable, s.words, task.depth + 1, DispatchChain(task, s, executable)).tasks

LEMMA InvokeLeads ==
    ASSUME TasksInv, Invoke
    PROVE  LET task == Head(stack)
               s == StripPrefixes(task.words)
               executable == Basename(s.words[1].value)
           IN  /\ s.removed \in Seq(DOMAIN Wrappers)
               /\ stack # <<>> /\ stack' = LedTasks \o Tail(stack)
               /\ Listed(LedTasks)
               /\ \A t \in Range(LedTasks) :
                     /\ FineTask(t) /\ t.kind \in {"text", "words"}
                     /\ t.chain = Append(task.chain \o s.removed, executable)
               /\ Range(LedTasks) # {} => executable \in Dispatchers
<1> DEFINE task == Head(stack)
           s == StripPrefixes(task.words)
           executable == Basename(s.words[1].value)
           chain == Append(task.chain \o s.removed, executable)
           depth == task.depth + 1
           W == Range(task.words)
<1>1. stack # <<>> /\ task.kind = "words" /\ s.words # <<>>
  BY DEF Invoke, Calls, Executes
<1>2. Listed(task.words) /\ task.depth \in Nat
  BY <1>1, HeadFine DEF FineTask
<1>3. s \in StripStates(W)
  <2> DEFINE words == task.words
  <2>1. words \in Seq(W)
    BY <1>2 DEF Listed
  <2> HIDE DEF words, W
  <2>2. StripPrefixes(words) \in StripStates(W)
    BY <2>1, StripPrefixesType
  <2>3. QED
    BY <2>2 DEF words
<1>4. stack' = LedTasks \o Tail(stack)
  BY DEF Invoke, LedTasks
<1>5. LedTasks = Dispatched(executable, s.words, depth, chain).tasks
  BY DEF LedTasks, DispatchChain
<1>6. depth \in Nat
  BY <1>2
<1> HIDE DEF task, s, executable, chain, depth, W
<1>7. s.removed \in Seq(DOMAIN Wrappers) /\ Listed(s.words)
  BY <1>3, ListedIn DEF StripStates
<1>8. /\ Listed(LedTasks)
      /\ \A t \in Range(LedTasks) : Led(t, depth, chain)
      /\ Range(LedTasks) # {} => executable \in Dispatchers
  BY <1>1, <1>5, <1>7, DispatchedType
<1>9. \A t \in Range(LedTasks) : FineTask(t) /\ t.kind \in {"text", "words"} /\ t.chain = chain
  BY <1>6, <1>8 DEF Led, FineTask
<1>10. QED
  BY <1>1, <1>4, <1>7, <1>8, <1>9 DEF task, s, executable, chain

LEMMA VanishReplaces ==
    ASSUME TasksInv, Vanish
    PROVE  stack # <<>> /\ stack' = <<>> \o Tail(stack)
<1>1. stack # <<>> /\ stack' = Tail(stack)
  BY DEF Vanish, Calls
<1>2. Listed(Tail(stack))
  BY <1>1, ListedHead DEF TasksInv
<1>3. <<>> \o Tail(stack) = Tail(stack)
  BY <1>2, ConcatEmptySeq DEF Listed
<1>4. QED
  BY <1>1, <1>3

LEMMA TasksInit == Init => TasksInv
<1> SUFFICES ASSUME Init PROVE TasksInv
  OBVIOUS
<1> DEFINE t == TextTask(input, 0, <<>>)
<1>1. stack = <<t>> /\ input \in Inputs
  BY DEF Init
<1>2. t.kind = "text" /\ t.tokens = input /\ t.depth = 0
  BY DEF TextTask
<1>3. \A p \in Programs(input) : IsText(p)
  BY <1>1, TextsAssumption
<1> HIDE DEF t
<1>4. FineTask(t)
  BY <1>2, <1>3 DEF FineTask
<1>5. QED
  BY <1>1, <1>4, ListedOne DEF TasksInv

LEMMA TasksStep == TasksInv /\ [Next]_vars => TasksInv'
<1> SUFFICES ASSUME TasksInv, [Next]_vars PROVE TasksInv'
  OBVIOUS
<1>1. CASE Walks
  <2>1. stack # <<>> /\ \E new : Walked(Head(stack), new) /\ stack' = new \o Tail(stack)
    BY <1>1, WalksReplace
  <2>2. QED
    BY <2>1, Replaced DEF Walked
<1>2. CASE Vanish
  BY <1>2, VanishReplaces, Replaced, ListedNone
<1>3. CASE Invoke
  <2>1. /\ stack # <<>> /\ stack' = LedTasks \o Tail(stack) /\ Listed(LedTasks)
        /\ \A t \in Range(LedTasks) : FineTask(t)
    BY <1>3, InvokeLeads
  <2>2. QED
    BY <2>1, Replaced
<1>4. CASE UNCHANGED stack
  BY <1>4 DEF TasksInv
<1>5. QED
  BY <1>1, <1>2, <1>3, <1>4 DEF Next, Walks, RefuseText, RefuseWords, Finish, vars

-----------------------------------------------------------------------------
(* The chains *)

LEMMA EmptyGrounded ==
    ASSUME NEW invs, NEW n
    PROVE  Grounded(invs, <<>>, n)
<1>1. <<>> \in Seq(Dispatchers \cup DOMAIN Wrappers)
  BY EmptySeq
<1>2. DOMAIN <<>> = {}
  OBVIOUS
<1>3. QED
  BY <1>1, <1>2 DEF Grounded

\* A later invocation takes nothing from a chain.
LEMMA GroundedLater ==
    ASSUME NEW S, NEW invs \in Seq(S), NEW T, NEW inv \in T, NEW later, later = Append(invs, inv),
           NEW n \in 0..Len(invs), NEW m \in Nat, n \leq m,
           NEW chain, Grounded(invs, chain, n)
    PROVE  Grounded(later, chain, m)
<1>1. Len(invs) \in Nat
  BY LenProperties
<1>2. \A j \in 1..n : j \in 1..m /\ later[j] = invs[j]
  <2>1. invs \in Seq(S \cup T) /\ inv \in S \cup T
    <3>1. S \subseteq S \cup T
      OBVIOUS
    <3>2. QED
      BY <3>1, SeqMonotonic
  <2>2. \A j \in 1..Len(invs) : Append(invs, inv)[j] = invs[j]
    BY <2>1, AppendProperties
  <2>3. QED
    BY <1>1, <2>2
<1>3. QED
  BY <1>2 DEF Grounded

\* Prefixes are not dispatchers.
LEMMA GroundedWrapped ==
    ASSUME NEW invs, NEW n, NEW chain, Grounded(invs, chain, n), NEW removed \in Seq(DOMAIN Wrappers)
    PROVE  Grounded(invs, chain \o removed, n)
<1> DEFINE All == Dispatchers \cup DOMAIN Wrappers
           whole == chain \o removed
<1>1. chain \in Seq(All) /\ removed \in Seq(All)
  <2>1. DOMAIN Wrappers \subseteq All
    OBVIOUS
  <2> HIDE DEF All
  <2>2. removed \in Seq(All)
    BY <2>1, SeqMonotonic
  <2> USE DEF All
  <2>3. QED
    BY <2>2 DEF Grounded
<1>2. Len(chain) \in Nat /\ DOMAIN chain = 1..Len(chain) /\ Len(removed) \in Nat
  <2> HIDE DEF All
  <2>1. QED
    BY <1>1, LenProperties
<1>3. /\ whole \in Seq(All) /\ Len(whole) = Len(chain) + Len(removed)
      /\ \A i \in 1..(Len(chain) + Len(removed)) :
            whole[i] = IF i \leq Len(chain) THEN chain[i] ELSE removed[i - Len(chain)]
  <2> HIDE DEF All
  <2>1. QED
    BY <1>1, ConcatProperties
<1>4. DOMAIN whole = 1..(Len(chain) + Len(removed))
  <2> HIDE DEF All, whole
  <2>1. QED
    BY <1>3, LenProperties
<1>5. ASSUME NEW k \in DOMAIN whole, whole[k] \in Dispatchers
      PROVE  k \in DOMAIN chain /\ chain[k] = whole[k]
  <2>1. CASE k \leq Len(chain)
    <3> HIDE DEF whole
    <3>1. QED
      BY <2>1, <1>2, <1>3, <1>4
  <2>2. CASE ~(k \leq Len(chain))
    <3>1. k - Len(chain) \in 1..Len(removed) /\ whole[k] = removed[k - Len(chain)]
      <4> HIDE DEF whole
      <4>1. QED
        BY <2>2, <1>2, <1>3, <1>4
    <3>2. removed[k - Len(chain)] \in DOMAIN Wrappers
      BY <3>1, ElementOfSeq
    <3>3. QED
      BY <1>5, <3>1, <3>2, DispatchersAssumption
  <2>3. QED
    BY <2>1, <2>2
<1>6. ASSUME NEW k \in DOMAIN chain
      PROVE  /\ k \in DOMAIN whole /\ whole[k] = chain[k]
             /\ SubSeq(whole, 1, k - 1) = SubSeq(chain, 1, k - 1)
  <2> HIDE DEF whole
  <2>1. k \in DOMAIN whole /\ whole[k] = chain[k] /\ k \in Nat
    BY <1>2, <1>3, <1>4
  <2>2. \A i \in 1..(k - 1) : whole[i] = chain[i] /\ chain[i] \in All /\ whole[i] \in All
    <3>1. \A i \in 1..(k - 1) : i \in 1..Len(chain) /\ i \in 1..(Len(chain) + Len(removed))
                               /\ i \leq Len(chain)
      BY <1>2
    <3> HIDE DEF All
    <3>2. \A i \in 1..Len(chain) : chain[i] \in All
      BY <1>1, ElementOfSeq
    <3>3. QED
      BY <1>3, <3>1, <3>2
  <2>3. SubSeq(whole, 1, k - 1) = SubSeq(chain, 1, k - 1)
    <3> DEFINE a == SubSeq(whole, 1, k - 1)
               b == SubSeq(chain, 1, k - 1)
               len == IF 1 \leq k - 1 THEN (k - 1) - 1 + 1 ELSE 0
    <3>1. 1 \in Int /\ k - 1 \in Int
      BY <2>1
    <3> HIDE DEF All
    <3>2. a \in Seq(All) /\ Len(a) = len /\ \A i \in 1..((k - 1) - 1 + 1) : a[i] = whole[1 + i - 1]
      BY <2>2, <3>1, SubSeqProperties
    <3>3. b \in Seq(All) /\ Len(b) = len /\ \A i \in 1..((k - 1) - 1 + 1) : b[i] = chain[1 + i - 1]
      BY <2>2, <3>1, SubSeqProperties
    <3>4. \A i \in 1..len : /\ i \in 1..((k - 1) - 1 + 1) /\ 1 + i - 1 = i /\ i \in 1..(k - 1)
      BY <2>1
    <3> HIDE DEF a, b, len
    <3>5. \A i \in 1..Len(a) : a[i] = b[i]
      BY <2>2, <3>2, <3>3, <3>4
    <3>6. a = b
      BY <3>2, <3>3, <3>5, SeqEqual
    <3>7. QED
      BY <3>6 DEF a, b
  <2>4. QED
    BY <2>1, <2>3
<1> HIDE DEF whole
<1>7. ASSUME NEW k \in DOMAIN whole, whole[k] \in Dispatchers,
             \A d \in DOMAIN whole : whole[d] \in Dispatchers => d \leq k
      PROVE  \E j \in 1..n : invs[j].executable = whole[k] /\ invs[j].chain = SubSeq(whole, 1, k - 1)
  <2>1. k \in DOMAIN chain /\ chain[k] = whole[k]
    BY <1>5, <1>7
  <2>2. \A d \in DOMAIN chain : chain[d] \in Dispatchers => d \leq k
    BY <1>6, <1>7
  <2>3. QED
    BY <1>6, <1>7, <2>1, <2>2 DEF Grounded
<1>8. QED
  BY <1>3, <1>7 DEF Grounded, whole

\* A dispatcher is put after the chain of its own invocation.
LEMMA GroundedDispatched ==
    ASSUME NEW invs, NEW n \in Nat \ {0}, NEW chain \in Seq(Dispatchers \cup DOMAIN Wrappers),
           NEW executable \in Dispatchers,
           invs[n].executable = executable, invs[n].chain = chain
    PROVE  Grounded(invs, Append(chain, executable), n)
<1> DEFINE All == Dispatchers \cup DOMAIN Wrappers
           whole == Append(chain, executable)
<1>1. chain \in Seq(All) /\ executable \in All
  OBVIOUS
<1> HIDE DEF All
<1>2. /\ whole \in Seq(All) /\ Len(whole) = Len(chain) + 1
      /\ \A i \in 1..Len(chain) : whole[i] = chain[i]
      /\ whole[Len(chain) + 1] = executable
  BY <1>1, AppendProperties
<1>3. Len(chain) \in Nat
  BY <1>1, LenProperties
<1> HIDE DEF whole
<1>4. DOMAIN whole = 1..(Len(chain) + 1)
  BY <1>2, LenProperties
<1>5. SubSeq(whole, 1, Len(chain)) = chain
  <2> DEFINE a == SubSeq(whole, 1, Len(chain))
  <2>1. \A i \in 1..Len(chain) : whole[i] \in All /\ whole[i] = chain[i]
    <3>1. \A i \in 1..Len(chain) : chain[i] \in All
      BY <1>1, ElementOfSeq
    <3>2. QED
      BY <1>2, <3>1
  <2>2. 1 \in Int /\ Len(chain) \in Int
    BY <1>3
  <2>3. /\ a \in Seq(All) /\ Len(a) = IF 1 \leq Len(chain) THEN Len(chain) - 1 + 1 ELSE 0
        /\ \A i \in 1..(Len(chain) - 1 + 1) : a[i] = whole[1 + i - 1]
    BY <2>1, <2>2, SubSeqProperties
  <2> HIDE DEF a
  <2>4. Len(a) = Len(chain)
    BY <1>3, <2>3
  <2>5. \A i \in 1..Len(a) : /\ i \in 1..(Len(chain) - 1 + 1) /\ 1 + i - 1 = i
                             /\ i \in 1..Len(chain)
    BY <1>3, <2>4
  <2>6. \A i \in 1..Len(a) : a[i] = chain[i]
    BY <2>1, <2>3, <2>5
  <2>7. a = chain
    BY <1>1, <2>3, <2>4, <2>6, SeqEqual
  <2>8. QED
    BY <2>7 DEF a
<1>6. ASSUME NEW k \in DOMAIN whole, \A d \in DOMAIN whole : whole[d] \in Dispatchers => d \leq k
      PROVE  k = Len(chain) + 1
  <2>1. Len(chain) + 1 \in DOMAIN whole
    BY <1>3, <1>4
  <2>2. Len(chain) + 1 \leq k
    BY <1>2, <1>6, <2>1
  <2>3. QED
    BY <1>3, <1>4, <2>2
<1>7. n \in 1..n /\ (Len(chain) + 1) - 1 = Len(chain)
  BY <1>3
<1>8. whole \in Seq(Dispatchers \cup DOMAIN Wrappers)
  BY <1>2 DEF All
<1>9. Grounded(invs, whole, n)
  BY <1>2, <1>5, <1>6, <1>7, <1>8 DEF Grounded
<1>10. QED
  BY <1>9 DEF whole

LEMMA ChainsInit == Init => ChainsInv
<1> SUFFICES ASSUME Init PROVE ChainsInv
  OBVIOUS
<1> DEFINE t == TextTask(input, 0, <<>>)
<1>1. stack = <<t>> /\ invocations = <<>>
  BY DEF Init
<1>2. t.chain = <<>>
  BY DEF TextTask
<1>3. DOMAIN <<>> = {}
  OBVIOUS
<1> HIDE DEF t
<1>4. QED
  BY <1>1, <1>2, <1>3, ListedOne, ListedNone, EmptyGrounded DEF ChainsInv

LEMMA ChainsStep == TasksInv /\ ChainsInv /\ [Next]_vars => ChainsInv'
<1> SUFFICES ASSUME TasksInv, ChainsInv, [Next]_vars PROVE ChainsInv'
  OBVIOUS
<1>1. ASSUME UNCHANGED invocations, stack # <<>>,
             NEW new, Listed(new), stack' = new \o Tail(stack),
             \A t \in Range(new) : FineTask(t) /\ t.chain = Head(stack).chain
      PROVE  ChainsInv'
  <2>1. /\ Range(stack') = Range(new) \cup Range(Tail(stack))
        /\ Range(stack) = {Head(stack)} \cup Range(Tail(stack))
    BY <1>1, Replaced
  <2>2. \A t \in Range(stack') : Grounded(invocations, t.chain, Len(invocations))
    BY <1>1, <2>1 DEF ChainsInv
  <2>3. QED
    BY <1>1, <2>2 DEF ChainsInv
<1>2. CASE Walks
  <2>1. /\ stack # <<>> /\ UNCHANGED invocations
        /\ \E new : Walked(Head(stack), new) /\ stack' = new \o Tail(stack)
    BY <1>2, WalksReplace
  <2>2. QED
    BY <2>1, <1>1 DEF Walked
<1>3. CASE Vanish
  <2>1. UNCHANGED invocations
    BY <1>3 DEF Vanish
  <2>2. QED
    BY <1>3, <2>1, <1>1, VanishReplaces, ListedNone
<1>4. CASE Invoke
  <2> DEFINE task == Head(stack)
             s == StripPrefixes(task.words)
             executable == Basename(s.words[1].value)
             chain == task.chain \o s.removed
             n == Len(invocations)
             All == Dispatchers \cup DOMAIN Wrappers
             inv == Invocation(task, s, executable)
  <2>1. /\ invocations' = Append(invocations, inv)
        /\ inv.executable = executable /\ inv.chain = chain
    BY <1>4 DEF Invoke, Invocation
  <2> HIDE DEF inv
  <2>2. /\ s.removed \in Seq(DOMAIN Wrappers)
        /\ stack # <<>> /\ stack' = LedTasks \o Tail(stack) /\ Listed(LedTasks)
        /\ \A t \in Range(LedTasks) : FineTask(t) /\ t.chain = Append(chain, executable)
        /\ Range(LedTasks) # {} => executable \in Dispatchers
    BY <1>4, InvokeLeads
  <2>3. /\ Range(stack') = Range(LedTasks) \cup Range(Tail(stack)) /\ task \in Range(stack)
        /\ Range(stack) = {task} \cup Range(Tail(stack))
    BY <2>2, Replaced
  <2>4. invocations \in Seq(Range(invocations)) /\ n \in Nat /\ DOMAIN invocations = 1..n
    BY LenProperties DEF ChainsInv, Listed
  <2>5. /\ invocations' \in Seq(Range(invocations) \cup {inv}) /\ Len(invocations') = n + 1
        /\ \A i \in 1..n : invocations'[i] = invocations[i]
        /\ invocations'[n + 1] = inv
    <3> DEFINE S == Range(invocations) \cup {inv}
    <3>1. Range(invocations) \subseteq S /\ inv \in S
      OBVIOUS
    <3> HIDE DEF S
    <3>2. invocations \in Seq(S)
      BY <2>4, <3>1, SeqMonotonic
    <3>3. QED
      BY <2>1, <3>1, <3>2, AppendProperties DEF S
  <2>6. DOMAIN invocations' = 1..(n + 1) /\ Listed(invocations')
    BY <2>5, LenProperties, ListedIn
  <2>7. Grounded(invocations, task.chain, n)
    BY <2>3 DEF ChainsInv
  <2> HIDE DEF task, s, executable, n
  <2>8. Grounded(invocations, chain, n)
    BY <2>2, <2>7, GroundedWrapped
  <2>9. \A m \in 0..n : \A l \in Nat : m \leq l =>
           \A c : Grounded(invocations, c, m) => Grounded(invocations', c, l)
    BY <2>1, <2>4, GroundedLater DEF n
  <2>10. n \in 0..n /\ n + 1 \in Nat /\ n \leq n + 1 /\ n \leq n /\ n + 1 \in Nat \ {0}
    BY <2>4
  <2>11. ASSUME NEW t \in Range(stack')
         PROVE  Grounded(invocations', t.chain, Len(invocations'))
    <3>1. CASE t \in Range(LedTasks)
      <4>1. executable \in Dispatchers /\ t.chain = Append(chain, executable)
        BY <2>2, <3>1
      <4>2. chain \in Seq(Dispatchers \cup DOMAIN Wrappers)
        BY <2>8 DEF Grounded
      <4> HIDE DEF chain
      <4>3. Grounded(invocations', Append(chain, executable), n + 1)
        BY <2>1, <2>5, <2>10, <4>1, <4>2, GroundedDispatched
      <4>4. QED
        BY <2>5, <4>1, <4>3
    <3>2. CASE t \in Range(Tail(stack))
      <4>1. Grounded(invocations, t.chain, n)
        BY <2>3, <3>2 DEF ChainsInv, n
      <4>2. QED
        BY <2>5, <2>9, <2>10, <4>1
    <3>3. QED
      BY <2>3, <3>1, <3>2
  <2>12. ASSUME NEW i \in DOMAIN invocations'
         PROVE  Grounded(invocations', invocations'[i].chain, i - 1)
    <3>1. CASE i \in 1..n
      <4>1. Grounded(invocations, invocations[i].chain, i - 1)
        BY <2>4, <3>1 DEF ChainsInv
      <4>2. i - 1 \in 0..n /\ i - 1 \in Nat /\ i - 1 \leq i - 1
        BY <2>4, <3>1
      <4>3. QED
        BY <2>5, <2>9, <3>1, <4>1, <4>2
    <3>2. CASE i = n + 1
      <4>1. i - 1 = n
        BY <2>4, <3>2
      <4> HIDE DEF chain
      <4>2. Grounded(invocations', chain, n)
        BY <2>4, <2>8, <2>9, <2>10
      <4>3. QED
        BY <2>1, <2>5, <3>2, <4>1, <4>2
    <3>3. QED
      BY <2>4, <2>6, <3>1, <3>2
  <2>13. QED
    BY <2>6, <2>11, <2>12 DEF ChainsInv
<1>5. CASE UNCHANGED <<stack, invocations>>
  BY <1>5 DEF ChainsInv
<1>6. QED
  BY <1>2, <1>3, <1>4, <1>5 DEF Next, Walks, RefuseText, RefuseWords, Finish, vars

-----------------------------------------------------------------------------
(* What is collected *)

\* The invocations only grow, and what was promised is kept.
Grows == \A i \in DOMAIN invocations : i \in DOMAIN invocations' /\ invocations'[i] = invocations[i]

Keeps ==
    /\ \A words, chain : Pending(words, chain) => Pending(words, chain)'
    /\ \A p, chain : Accounted(p, chain) => Accounted(p, chain)'
    /\ \A inv : Followed(inv) => Followed(inv)'

LEMMA FollowedKept ==
    ASSUME \A words, chain : Pending(words, chain) => Pending(words, chain)',
           \A p, chain : Accounted(p, chain) => Accounted(p, chain)',
           NEW inv, Followed(inv)
    PROVE  Followed(inv)'
BY DEF Followed

LEMMA PendingKept ==
    ASSUME stack # <<>>, Grows,
           Range(stack) = {Head(stack)} \cup Range(Tail(stack)),
           Range(Tail(stack)) \subseteq Range(stack'),
           \A words, chain : chain = Head(stack).chain /\ Collects(Head(stack), words)
                                => Pending(words, chain)',
           \A p, chain : chain = Head(stack).chain /\ p \in Behind(Head(stack))
                                => Accounted(p, chain)'
    PROVE  Keeps
<1>1. ASSUME NEW words, NEW chain, Kept(words, chain)
      PROVE  Kept(words, chain)'
  BY <1>1 DEF Kept, Grows
<1>2. ASSUME NEW words, NEW chain, Pending(words, chain)
      PROVE  Pending(words, chain)'
  <2>1. CASE Kept(words, chain)
    BY <1>1, <2>1 DEF Pending
  <2>2. CASE \E task \in Range(stack) : task.chain = chain /\ Collects(task, words)
    <3>1. PICK task \in Range(stack) : task.chain = chain /\ Collects(task, words)
      BY <2>2
    <3>2. CASE task = Head(stack)
      BY <3>1, <3>2
    <3>3. CASE task # Head(stack)
      <4>1. task \in Range(stack')
        BY <3>3
      <4>2. QED
        BY <3>1, <4>1 DEF Pending
    <3>4. QED
      BY <3>2, <3>3
  <2>3. QED
    BY <1>2, <2>1, <2>2 DEF Pending
<1>3. ASSUME NEW p, NEW chain, Accounted(p, chain)
      PROVE  Accounted(p, chain)'
  <2>1. CASE \E task \in Range(stack) : task.chain = chain /\ p \in Behind(task)
    <3>1. PICK task \in Range(stack) : task.chain = chain /\ p \in Behind(task)
      BY <2>1
    <3>2. CASE task = Head(stack)
      BY <3>1, <3>2
    <3>3. CASE task # Head(stack)
      <4>1. task \in Range(stack')
        BY <3>3
      <4>2. QED
        BY <3>1, <4>1 DEF Accounted
    <3>4. QED
      BY <3>2, <3>3
  <2>2. CASE LET commands == ParseTokens(p).commands
             IN  /\ WordsOf(p) = UNION {Range(c.words) \cup Targets(c) : c \in Range(commands)}
                 /\ \A c \in Range(commands) : Pending(c.words, chain)
    BY <1>2, <2>2 DEF Accounted
  <2>3. QED
    BY <1>3, <2>1, <2>2 DEF Accounted
<1>4. QED
  BY <1>2, <1>3, FollowedKept DEF Keeps

\* Where only the stack changes, and its head passes on what it leads to.
LEMMA WalksKeep ==
    ASSUME TasksInv, Walks
    PROVE  Keeps
<1>1. PICK new : Walked(Head(stack), new) /\ stack' = new \o Tail(stack)
  BY WalksReplace
<1>2. stack # <<>> /\ UNCHANGED invocations
  BY WalksReplace
<1>3. /\ Range(stack') = Range(new) \cup Range(Tail(stack))
      /\ Range(stack) = {Head(stack)} \cup Range(Tail(stack))
  BY <1>1, <1>2, Replaced DEF Walked
<1>4. Grows
  BY <1>2 DEF Grows
<1>5. \A t \in Range(new) : t \in Range(stack') /\ t.chain = Head(stack).chain
  BY <1>1, <1>3 DEF Walked
<1>6. Passes(Head(stack), new)
  BY <1>1 DEF Walked
<1>7. ASSUME NEW words, NEW chain, chain = Head(stack).chain,
             \E t \in Range(new) : Collects(t, words)
      PROVE  Pending(words, chain)'
  BY <1>5, <1>7 DEF Pending
<1>8. ASSUME NEW words, NEW chain, chain = Head(stack).chain, Collects(Head(stack), words)
      PROVE  Pending(words, chain)'
  BY <1>6, <1>7, <1>8 DEF Passes
<1>9. ASSUME NEW p, NEW chain, chain = Head(stack).chain, p \in Behind(Head(stack))
      PROVE  Accounted(p, chain)'
  <2>1. CASE \E t \in Range(new) : p \in Behind(t)
    BY <1>5, <1>9, <2>1 DEF Accounted
  <2>2. CASE LET commands == ParseTokens(p).commands
             IN  /\ WordsOf(p) = UNION {Range(c.words) \cup Targets(c) : c \in Range(commands)}
                 /\ \A c \in Range(commands) : \E t \in Range(new) : Collects(t, c.words)
    BY <1>7, <1>9, <2>2 DEF Accounted
  <2>3. QED
    BY <1>6, <1>9, <2>1, <2>2 DEF Passes
<1>10. Range(Tail(stack)) \subseteq Range(stack')
  BY <1>3
<1>11. QED
  BY <1>2, <1>3, <1>4, <1>8, <1>9, <1>10, PendingKept

\* A task for words leads to no program, and to its own words only.
LEMMA WordsTaskLeads ==
    ASSUME NEW task, task.kind = "words"
    PROVE  Behind(task) = {} /\ \A words : Collects(task, words) => words = task.words
BY DEF Behind, Collects

LEMMA VanishKeeps ==
    ASSUME TasksInv, Vanish
    PROVE  Keeps
<1>1. /\ stack # <<>> /\ Head(stack).kind = "words" /\ UNCHANGED invocations
      /\ StripPrefixes(Head(stack).words).words = <<>> /\ StripPrefixes(Head(stack).words).ok
  BY DEF Vanish, Calls
<1>2. /\ Range(stack') = Range(<<>>) \cup Range(Tail(stack))
      /\ Range(stack) = {Head(stack)} \cup Range(Tail(stack))
  BY VanishReplaces, Replaced, ListedNone
<1>3. \A words : Collects(Head(stack), words) => words = Head(stack).words
  BY <1>1, WordsTaskLeads
<1>4. Behind(Head(stack)) = {}
  BY <1>1, WordsTaskLeads
<1>5. ASSUME NEW words, NEW chain, Collects(Head(stack), words)
      PROVE  Pending(words, chain)'
  <2>1. Listed(Head(stack).words)
    BY <1>1, HeadFine DEF FineTask
  <2>2. QED
    BY <1>1, <1>3, <1>5, <2>1 DEF Pending, Kept
<1>6. Grows
  BY <1>1 DEF Grows
<1>7. QED
  BY <1>1, <1>2, <1>4, <1>5, <1>6, PendingKept

LEMMA InvokeKeeps ==
    ASSUME TasksInv, ChainsInv, Invoke
    PROVE  /\ Keeps
           /\ DOMAIN invocations' = 1..(Len(invocations) + 1) /\ Len(invocations) \in Nat
           /\ \A i \in 1..Len(invocations) :
                 i \in DOMAIN invocations /\ invocations'[i] = invocations[i]
           /\ LET task == Head(stack)
                  s == StripPrefixes(task.words)
                  executable == Basename(s.words[1].value)
              IN  invocations'[Len(invocations) + 1] = Invocation(task, s, executable)
<1> DEFINE task == Head(stack)
           s == StripPrefixes(task.words)
           executable == Basename(s.words[1].value)
           inv == Invocation(task, s, executable)
           n == Len(invocations)
           S == Range(invocations) \cup {inv}
<1>1. stack # <<>> /\ task.kind = "words" /\ invocations' = Append(invocations, inv) /\ s.ok
  BY DEF Invoke, Calls, Executes
<1>2. inv.words = s.words /\ inv.chain = task.chain \o s.removed
  BY DEF Invocation
<1>3. stack' = LedTasks \o Tail(stack) /\ Listed(LedTasks) /\ \A t \in Range(LedTasks) : FineTask(t)
  BY InvokeLeads
<1>4. /\ Range(stack') = Range(LedTasks) \cup Range(Tail(stack))
      /\ Range(stack) = {task} \cup Range(Tail(stack))
  BY <1>1, <1>3, Replaced
<1> HIDE DEF inv
<1>5. invocations \in Seq(S) /\ inv \in S /\ n \in Nat /\ DOMAIN invocations = 1..n
  <2>1. invocations \in Seq(Range(invocations))
    BY DEF ChainsInv, Listed
  <2>2. n \in Nat /\ DOMAIN invocations = 1..n
    BY <2>1, LenProperties
  <2>3. Range(invocations) \subseteq S /\ inv \in S
    OBVIOUS
  <2> HIDE DEF S, n
  <2>4. QED
    BY <2>1, <2>2, <2>3, SeqMonotonic
<1> HIDE DEF S
<1>6. /\ Append(invocations, inv) \in Seq(S) /\ Len(Append(invocations, inv)) = n + 1
      /\ \A i \in 1..n : Append(invocations, inv)[i] = invocations[i]
      /\ Append(invocations, inv)[n + 1] = inv
  BY <1>5, AppendProperties
<1>7. /\ DOMAIN invocations' = 1..(n + 1)
      /\ \A i \in 1..n : i \in DOMAIN invocations /\ invocations'[i] = invocations[i]
      /\ invocations'[n + 1] = inv
  BY <1>1, <1>5, <1>6, LenProperties
<1>8. n + 1 \in 1..(n + 1)
  BY <1>5
<1> HIDE DEF n
<1>9. Grows
  <2>1. \A i \in 1..n : i \in 1..(n + 1)
    BY <1>5
  <2>2. QED
    BY <1>5, <1>7, <2>1 DEF Grows
<1>10. Behind(task) = {} /\ \A words : Collects(task, words) => words = task.words
  BY <1>1, WordsTaskLeads
<1>11. ASSUME NEW words, NEW chain, chain = task.chain, Collects(task, words)
       PROVE  Pending(words, chain)'
  <2>1. s = StripPrefixes(words)
    BY <1>10, <1>11
  <2>2. \E i \in DOMAIN invocations' : /\ invocations'[i].words = StripPrefixes(words).words
                                       /\ invocations'[i].chain = chain \o StripPrefixes(words).removed
    BY <1>2, <1>7, <1>8, <1>11, <2>1
  <2>3. StripPrefixes(words).ok /\ Listed(words)
    BY <1>1, <1>10, <1>11, HeadFine DEF FineTask
  <2>4. QED
    BY <2>2, <2>3 DEF Pending, Kept
<1>12. Range(Tail(stack)) \subseteq Range(stack')
  BY <1>4
<1>13. Keeps
  BY <1>1, <1>4, <1>9, <1>10, <1>11, <1>12, PendingKept
<1>14. QED
  BY <1>5, <1>7, <1>13 DEF inv, n

\* What a new invocation leads to is on the stack.
LEMMA InvokeFollows ==
    ASSUME TasksInv, Invoke, status' # "error"
    PROVE  LET task == Head(stack)
               s == StripPrefixes(task.words)
               executable == Basename(s.words[1].value)
           IN  \A inv : inv = Invocation(task, s, executable) => Followed(inv)'
<1> DEFINE task == Head(stack)
           s == StripPrefixes(task.words)
           executable == Basename(s.words[1].value)
           chain == Append(task.chain \o s.removed, executable)
<1>1. /\ stack' = LedTasks \o Tail(stack) /\ Listed(LedTasks) /\ stack # <<>>
      /\ \A t \in Range(LedTasks) : /\ FineTask(t) /\ t.kind \in {"text", "words"}
                                    /\ t.chain = chain
  BY InvokeLeads
<1>2. Range(LedTasks) \subseteq Range(stack')
  BY <1>1, Replaced
<1>3. LedTasks = Dispatched(executable, s.words, task.depth + 1, chain).tasks
  BY DEF LedTasks, DispatchChain
<1>0. Dispatched(executable, s.words, task.depth + 1, chain).ok
  BY DEF Invoke, DispatchChain
<1> SUFFICES ASSUME NEW inv, inv = Invocation(task, s, executable)
             PROVE  Followed(inv)'
  OBVIOUS
<1>4. inv.executable = executable /\ inv.words = s.words /\ Append(inv.chain, inv.executable) = chain
  BY DEF Invocation
<1> HIDE DEF chain, executable, s, task
<1>5. ASSUME NEW c, c = chain,
             NEW t \in Range(Dispatched(inv.executable, inv.words, 0, c).tasks)
      PROVE  /\ t.kind = "text" => \A p \in Programs(t.tokens) : Accounted(p, c)'
             /\ t.kind # "text" => Pending(t.words, c)'
  <2>1. PICK u \in Range(LedTasks) : /\ u.kind = t.kind
                                     /\ u.kind = "text" => u.tokens = t.tokens
                                     /\ u.kind = "words" => u.words = t.words
    <3> DEFINE ws == s.words
               d == task.depth + 1
               none == 0
    <3>1. /\ t \in Range(Dispatched(executable, ws, none, chain).tasks)
          /\ LedTasks = Dispatched(executable, ws, d, chain).tasks
      BY <1>3, <1>4, <1>5
    <3> HIDE DEF ws, d, none
    <3>2. \A x \in Range(Dispatched(executable, ws, none, chain).tasks) :
             \E u \in Range(Dispatched(executable, ws, d, chain).tasks) :
                /\ u.kind = x.kind
                /\ u.kind = "text" => u.tokens = x.tokens
                /\ u.kind = "words" => u.words = x.words
      BY DispatchedAnyDepth
    <3>3. QED
      BY <3>1, <3>2
  <2>2. u \in Range(stack') /\ u.chain = c /\ u.kind \in {"text", "words"}
    BY <1>1, <1>2, <1>5
  <2>3. CASE t.kind = "text"
    <3>1. Behind(u) = Programs(t.tokens)
      BY <2>1, <2>3 DEF Behind
    <3>2. \A p \in Programs(t.tokens) : Accounted(p, c)'
      BY <2>2, <3>1 DEF Accounted
    <3>3. QED
      BY <2>3, <3>2
  <2>4. CASE t.kind # "text"
    <3>1. Collects(u, t.words)
      BY <2>1, <2>2, <2>4 DEF Collects
    <3>2. Pending(t.words, c)'
      BY <2>2, <3>1 DEF Pending
    <3>3. QED
      BY <2>4, <3>2
  <2>5. QED
    BY <2>3, <2>4
<1>6. \A c : c = chain => Dispatched(inv.executable, inv.words, 0, c).ok
  BY <1>0, <1>4, DispatchedOk
<1>7. QED
  BY <1>4, <1>5, <1>6 DEF Followed

LEMMA CollectedInit == Init => CollectedInv
<1> SUFFICES ASSUME Init PROVE CollectedInv
  OBVIOUS
<1> DEFINE t == TextTask(input, 0, <<>>)
<1>1. stack = <<t>> /\ invocations = <<>> /\ status = "collecting"
  BY DEF Init
<1>2. t.chain = <<>> /\ t.kind = "text" /\ t.tokens = input
  BY DEF TextTask
<1>3. DOMAIN <<>> = {}
  OBVIOUS
<1> HIDE DEF t
<1>4. Behind(t) = Programs(input)
  BY <1>2 DEF Behind
<1>5. t \in Range(stack)
  BY <1>1, ListedOne
<1>6. \A p \in Programs(input) : Accounted(p, <<>>)
  BY <1>2, <1>4, <1>5 DEF Accounted
<1>7. QED
  BY <1>1, <1>3, <1>6 DEF CollectedInv, Collected

\* Nothing is lost where nothing changes.
LEMMA NothingLost ==
    ASSUME UNCHANGED <<input, stack, invocations>>
    PROVE  Collected => Collected'
<1>1. Keeps
  <2>1. \A words, chain : Pending(words, chain) => Pending(words, chain)'
    BY DEF Pending, Kept
  <2>2. \A p, chain : Accounted(p, chain) => Accounted(p, chain)'
    BY <2>1 DEF Accounted
  <2>3. \A inv : Followed(inv) => Followed(inv)'
    BY <2>1, <2>2 DEF Followed
  <2>4. QED
    BY <2>1, <2>2, <2>3 DEF Keeps
<1>2. QED
  BY <1>1 DEF Keeps, Collected

LEMMA CollectedStep == TasksInv /\ ChainsInv /\ CollectedInv /\ [Next]_vars => CollectedInv'
<1> SUFFICES ASSUME TasksInv, ChainsInv, CollectedInv, [Next]_vars PROVE CollectedInv'
  OBVIOUS
<1>1. ASSUME Keeps, UNCHANGED <<input, invocations, status>>, status = "collecting"
      PROVE  CollectedInv'
  <2>1. Collected
    BY <1>1 DEF CollectedInv
  <2>2. Collected'
    BY <1>1, <2>1 DEF Collected, Keeps
  <2>3. QED
    BY <1>1, <2>2 DEF CollectedInv
<1>2. CASE Walks
  <2>1. UNCHANGED <<input, invocations, status>> /\ status = "collecting"
    BY <1>2, WalksReplace
  <2>2. Keeps
    BY <1>2, WalksKeep
  <2>3. QED
    BY <1>1, <2>1, <2>2
<1>3. CASE Vanish
  <2>1. UNCHANGED <<input, invocations, status>> /\ status = "collecting"
    BY <1>3 DEF Vanish, Calls
  <2>2. Keeps
    BY <1>3, VanishKeeps
  <2>3. QED
    BY <1>1, <2>1, <2>2
<1>4. CASE Invoke
  <2> DEFINE task == Head(stack)
             s == StripPrefixes(task.words)
             executable == Basename(s.words[1].value)
             inv == Invocation(task, s, executable)
             n == Len(invocations)
  <2>1. UNCHANGED input /\ status = "collecting" /\ status' \in {"collecting", "error"}
    BY <1>4 DEF Invoke, Calls
  <2>2. /\ Keeps /\ DOMAIN invocations' = 1..(n + 1) /\ n \in Nat
        /\ \A i \in 1..n : i \in DOMAIN invocations /\ invocations'[i] = invocations[i]
        /\ invocations'[n + 1] = inv
    BY <1>4, InvokeKeeps
  <2>3. status' # "error" => \A x : x = inv => Followed(x)'
    BY <1>4, InvokeFollows
  <2> HIDE DEF n, inv
  <2>4. Collected
    BY <2>1 DEF CollectedInv
  <2>5. \A p \in Programs(input') : Accounted(p, <<>>)'
    BY <2>1, <2>2, <2>4 DEF Collected, Keeps
  <2>6. ASSUME NEW i \in 1..(n + 1), NEW x, x = invocations'[i], status' # "error"
        PROVE  Followed(x)'
    <3>1. CASE i \in 1..n
      <4>1. x = invocations[i] /\ Followed(x)
        BY <2>2, <2>4, <2>6, <3>1 DEF Collected
      <4>2. QED
        BY <2>2, <4>1 DEF Keeps
    <3>2. CASE i = n + 1
      BY <2>2, <2>3, <2>6, <3>2
    <3>3. QED
      BY <2>2, <3>1, <3>2
  <2>7. status' # "error" => Collected'
    BY <2>2, <2>5, <2>6 DEF Collected
  <2>8. QED
    BY <2>1, <2>7 DEF CollectedInv
<1>5. CASE RefuseText \/ RefuseWords
  BY <1>5 DEF RefuseText, RefuseWords, CollectedInv
<1>6. CASE Finish
  <2>1. /\ status = "collecting" /\ stack = <<>> /\ status' = "done"
        /\ UNCHANGED <<input, stack, invocations>>
    BY <1>6 DEF Finish
  <2>2. Collected
    BY <2>1 DEF CollectedInv
  <2>3. Collected'
    BY <2>1, <2>2, NothingLost
  <2>4. QED
    BY <2>1, <2>3 DEF CollectedInv
<1>7. CASE UNCHANGED vars
  <2>1. UNCHANGED <<input, stack, invocations, status>>
    BY <1>7 DEF vars
  <2>2. Collected => Collected'
    BY <2>1, NothingLost
  <2>3. QED
    BY <2>1, <2>2 DEF CollectedInv
<1>8. QED
  BY <1>2, <1>3, <1>4, <1>5, <1>6, <1>7 DEF Next, Walks

-----------------------------------------------------------------------------
(* Positionals *)

PositionalStates(W) == [words : Seq(W), options : BOOLEAN, takes : BOOLEAN, uncertain : BOOLEAN]
NoPositionals == [words |-> <<>>, options |-> TRUE, takes |-> FALSE, uncertain |-> FALSE]

\* A turn of the loop keeps the words so far.
LEMMA PositionalType ==
    ASSUME NEW W, NEW s \in PositionalStates(W), NEW w \in W, NEW valued
    PROVE  LET t == Positional(s, w, valued)
           IN  /\ t \in PositionalStates(W)
               /\ t.uncertain <=> (s.uncertain \/ w.dynamic)
               /\ t.words = s.words \/ t.words = Append(s.words, w)
<1> DEFINE isOption == s.options /\ w.value \in Options \ {"-"}
           kept == IF s.takes \/ isOption THEN s.words ELSE Append(s.words, w)
           options == s.options /\ (s.takes \/ w.value # "--")
           takes == ~s.takes /\ isOption /\ w.value \in valued
           uncertain == s.uncertain \/ w.dynamic
<1>1. Positional(s, w, valued)
      = [words |-> kept, options |-> options, takes |-> takes, uncertain |-> uncertain]
  BY DEF Positional
<1>2. kept \in Seq(W) /\ (kept = s.words \/ kept = Append(s.words, w))
  <2>1. s.words \in Seq(W)
    BY DEF PositionalStates
  <2>2. Append(s.words, w) \in Seq(W)
    BY <2>1, AppendProperties
  <2>3. QED
    BY <2>1, <2>2
<1>3. options \in BOOLEAN /\ takes \in BOOLEAN /\ uncertain \in BOOLEAN
  OBVIOUS
<1>4. uncertain <=> (s.uncertain \/ w.dynamic)
  OBVIOUS
<1> HIDE DEF kept, options, takes, uncertain
<1>5. QED
  BY <1>1, <1>2, <1>3, <1>4 DEF PositionalStates

\* read in Positionals passes through states.
Reads(read, W, words, valued) ==
    /\ read \in [0..Len(words) -> PositionalStates(W)]
    /\ read[0] = NoPositionals
    /\ \A n \in 1..Len(words) : read[n] = Positional(read[n - 1], words[n], valued)
    /\ Positionals(words, valued) =
          [words |-> read[Len(words)].words,
           uncertain |-> read[Len(words)].uncertain \/ read[Len(words)].takes]

LEMMA PositionalsRead ==
    ASSUME NEW W, NEW words \in Seq(W), NEW valued
    PROVE  \E read : Reads(read, W, words, valued)
<1> DEFINE N == Len(words)
           S == PositionalStates(W)
           Is(g) == g = [n \in 0..N |-> IF n = 0 THEN NoPositionals
                                        ELSE Positional(g[n - 1], words[n], valued)]
           T == [n \in 1..N |-> [s \in S |-> Positional(s, words[n], valued)]]
           f == CHOOSE g : Is(g)
<1>1. N \in Nat /\ N \in 0..N
  BY LenProperties
<1>2. NoPositionals \in S
  BY EmptySeq DEF PositionalStates, NoPositionals
<1>3. \A n \in 1..N : \A s \in S : Positional(s, words[n], valued) \in S
  <2>1. \A n \in 1..N : words[n] \in W
    BY ElementOfSeq
  <2>2. QED
    BY <2>1, PositionalType
<1>4. Positionals(words, valued) =
         [words |-> f[N].words, uncertain |-> f[N].uncertain \/ f[N].takes]
  BY DEF Positionals, NoPositionals
<1> HIDE DEF S, N
<1>5. PICK g : Loops(g, T, N, S, NoPositionals)
  <2>1. Turns(T, N, S)
    BY <1>3 DEF Turns
  <2> HIDE DEF T
  <2>2. QED
    BY <1>1, <1>2, <2>1, Iterates
<1>6. Is(g)
  <2>1. \A n \in 1..N : n - 1 \in 0..N /\ g[n - 1] \in S
    BY <1>1, <1>5 DEF Loops
  <2>2. \A n \in 1..N : g[n] = Positional(g[n - 1], words[n], valued)
    BY <1>5, <2>1 DEF Loops
  <2>3. \A n \in 0..N : g[n] = IF n = 0 THEN NoPositionals
                               ELSE Positional(g[n - 1], words[n], valued)
    BY <1>1, <1>5, <2>2 DEF Loops
  <2>4. QED
    BY <1>5, <2>3 DEF Loops
<1>7. Is(f)
  <2> HIDE DEF Is
  <2>1. QED
    BY <1>6
<1> HIDE DEF f
<1>8. f[0] = NoPositionals /\ \A n \in 1..N : f[n] = Positional(f[n - 1], words[n], valued)
  <2>1. \A n \in 0..N : f[n] = IF n = 0 THEN NoPositionals
                               ELSE Positional(f[n - 1], words[n], valued)
    BY <1>7
  <2>2. 0 \in 0..N /\ \A n \in 1..N : n \in 0..N /\ n # 0
    BY <1>1
  <2>3. QED
    BY <2>1, <2>2
<1> DEFINE P == {n \in 0..N : f[n] \in S}
<1>9. 0 \in P
  BY <1>1, <1>2, <1>8
<1>10. ASSUME NEW n \in 0..N, n + 1 \leq N, n \in P
       PROVE  n + 1 \in P
  <2>1. n + 1 \in 1..N /\ n + 1 \in 0..N /\ (n + 1) - 1 = n
    BY <1>1, <1>10
  <2>2. f[n + 1] = Positional(f[n], words[n + 1], valued)
    BY <1>8, <2>1
  <2>3. QED
    BY <1>3, <1>10, <2>1, <2>2
<1>11. 0..N \subseteq P
  <2> HIDE DEF P
  <2>1. QED
    BY <1>1, <1>9, <1>10, UpTo
<1>12. f \in [0..N -> S]
  <2>1. f = [n \in 0..N |-> f[n]]
    BY <1>7
  <2>2. QED
    BY <2>1, <1>11
<1>13. QED
  BY <1>4, <1>8, <1>12 DEF Reads, N, S

\* A dynamic word anywhere leaves the positionals open.
LEMMA DynamicIsUncertain ==
    ASSUME NEW W, NEW words \in Seq(W), NEW valued, HasDynamic(words)
    PROVE  Positionals(words, valued).uncertain
<1> DEFINE N == Len(words)
<1>1. N \in Nat /\ DOMAIN words = 1..N /\ \A n \in 1..N : words[n] \in W
  BY LenProperties, ElementOfSeq
<1>2. PICK d \in 1..N : words[d].dynamic
  BY <1>1 DEF HasDynamic, Range
<1>3. PICK read : Reads(read, W, words, valued)
  BY PositionalsRead
<1>4. /\ \A n \in 0..N : read[n] \in PositionalStates(W)
      /\ \A n \in 1..N : read[n] = Positional(read[n - 1], words[n], valued)
      /\ Positionals(words, valued).uncertain = (read[N].uncertain \/ read[N].takes)
  BY <1>3 DEF Reads
<1> HIDE DEF N
<1>5. \A n \in 1..N : read[n].uncertain <=> (read[n - 1].uncertain \/ words[n].dynamic)
  <2>1. \A n \in 1..N : n - 1 \in 0..N
    BY <1>1
  <2>2. QED
    BY <1>1, <1>4, <2>1, PositionalType
<1> DEFINE P == {n \in 0..N : n < d \/ read[n].uncertain}
<1>6. 0 \in P
  BY <1>1
<1>7. ASSUME NEW n \in 0..N, n + 1 \leq N, n \in P
      PROVE  n + 1 \in P
  <2>1. n + 1 \in 1..N /\ n + 1 \in 0..N /\ (n + 1) - 1 = n
    BY <1>1, <1>7
  <2>2. read[n + 1].uncertain <=> (read[n].uncertain \/ words[n + 1].dynamic)
    BY <1>5, <2>1
  <2>3. CASE n < d
    <3>1. n + 1 < d \/ n + 1 = d
      BY <2>1, <2>3
    <3>2. QED
      BY <1>2, <2>1, <2>2, <3>1
  <2>4. CASE read[n].uncertain
    BY <2>1, <2>2, <2>4
  <2>5. QED
    BY <1>7, <2>3, <2>4
<1>8. N \in P
  <2>1. N \in 0..N
    BY <1>1
  <2> HIDE DEF P
  <2>2. QED
    BY <1>1, <1>6, <1>7, <2>1, UpTo
<1>9. read[N].uncertain
  BY <1>1, <1>8
<1>10. QED
  BY <1>4, <1>9

\* More words leave the positionals before them as they are.
LEMMA PositionalsGrow ==
    ASSUME NEW W, NEW words \in Seq(W), NEW more \in Seq(W), NEW valued
    PROVE  LET p == Positionals(words, valued).words
               q == Positionals(words \o more, valued).words
           IN  /\ p \in Seq(W) /\ q \in Seq(W) /\ Len(p) \leq Len(q)
               /\ \A k \in 1..Len(p) : q[k] = p[k]
<1> DEFINE N == Len(words)
           M == Len(words \o more)
<1>1. /\ words \o more \in Seq(W) /\ N \in Nat /\ M \in Nat /\ N \leq M
      /\ \A n \in 1..N : (words \o more)[n] = words[n]
      /\ \A n \in 1..M : (words \o more)[n] \in W
  <2>1. words \o more \in Seq(W) /\ M = N + Len(more)
    BY ConcatProperties
  <2>2. N \in Nat /\ Len(more) \in Nat
    BY LenProperties
  <2>3. \A n \in 1..N : (words \o more)[n] = words[n]
    BY <2>2, ConcatProperties
  <2>4. \A n \in 1..M : (words \o more)[n] \in W
    BY <2>1, ElementOfSeq
  <2>5. QED
    BY <2>1, <2>2, <2>3, <2>4
<1>2. PICK r : Reads(r, W, words, valued)
  BY PositionalsRead
<1>3. PICK s : Reads(s, W, words \o more, valued)
  BY <1>1, PositionalsRead
<1>4. /\ r[0] = NoPositionals /\ \A n \in 0..N : r[n] \in PositionalStates(W)
      /\ \A n \in 1..N : r[n] = Positional(r[n - 1], words[n], valued)
      /\ Positionals(words, valued).words = r[N].words
  BY <1>2 DEF Reads
<1>5. /\ s[0] = NoPositionals /\ \A n \in 0..M : s[n] \in PositionalStates(W)
      /\ \A n \in 1..M : s[n] = Positional(s[n - 1], (words \o more)[n], valued)
      /\ Positionals(words \o more, valued).words = s[M].words
  <2> DEFINE all == words \o more
  <2>1. Reads(s, W, all, valued) /\ M = Len(all)
    BY <1>3
  <2> HIDE DEF all, M
  <2>2. /\ s[0] = NoPositionals /\ \A n \in 0..M : s[n] \in PositionalStates(W)
        /\ \A n \in 1..M : s[n] = Positional(s[n - 1], all[n], valued)
        /\ Positionals(all, valued).words = s[M].words
    BY <2>1 DEF Reads
  <2>3. QED
    BY <2>2 DEF all
<1> HIDE DEF N, M
<1> DEFINE P == {n \in 0..N : s[n] = r[n]}
<1>6. s[N] = r[N]
  <2>1. 0 \in P
    BY <1>1, <1>4, <1>5
  <2>2. ASSUME NEW n \in 0..N, n + 1 \leq N, n \in P
        PROVE  n + 1 \in P
    <3>1. n + 1 \in 0..N /\ n + 1 \in 1..N /\ n + 1 \in 1..M /\ (n + 1) - 1 = n
      BY <1>1, <2>2
    <3>2. r[n + 1] = Positional(r[n], words[n + 1], valued)
      BY <1>4, <3>1
    <3>3. s[n + 1] = Positional(s[n], words[n + 1], valued)
      BY <1>1, <1>5, <3>1
    <3>4. QED
      BY <2>2, <3>1, <3>2, <3>3
  <2>3. N \in 0..N
    BY <1>1
  <2> HIDE DEF P
  <2>4. N \in P
    BY <1>1, <2>1, <2>2, <2>3, UpTo
  <2>5. QED
    BY <2>4 DEF P
<1> DEFINE p == r[N].words
           Above(q) == /\ q \in Seq(W) /\ Len(p) \leq Len(q)
                       /\ \A k \in 1..Len(p) : q[k] = p[k]
<1>7. p \in Seq(W) /\ Len(p) \in Nat
  <2>1. r[N] \in PositionalStates(W)
    BY <1>1, <1>4
  <2>2. p \in Seq(W)
    BY <2>1 DEF PositionalStates
  <2>3. QED
    BY <2>2, LenProperties
<1> HIDE DEF p
<1>8. ASSUME NEW q, Above(q), NEW w \in W
      PROVE  Above(Append(q, w))
  <2>1. /\ Append(q, w) \in Seq(W) /\ Len(Append(q, w)) = Len(q) + 1
        /\ \A k \in 1..Len(q) : Append(q, w)[k] = q[k]
    BY <1>8, AppendProperties
  <2>2. Len(q) \in Nat
    BY <1>8, LenProperties
  <2>3. \A k \in 1..Len(p) : k \in 1..Len(q)
    BY <1>7, <1>8, <2>2
  <2>4. QED
    BY <1>7, <1>8, <2>1, <2>2, <2>3
<1> DEFINE Q == {n \in 0..M : N \leq n => Above(s[n].words)}
<1>9. M \in Q
  <2>1. Above(s[N].words)
    BY <1>6, <1>7 DEF p
  <2>2. 0 \in Q
    <3>1. N \leq 0 => N = 0
      BY <1>1
    <3>2. 0 \in 0..M
      BY <1>1
    <3>3. QED
      BY <2>1, <3>1, <3>2
  <2>3. ASSUME NEW n \in 0..M, n + 1 \leq M, n \in Q
        PROVE  n + 1 \in Q
    <3>1. n + 1 \in 0..M /\ n + 1 \in 1..M /\ (n + 1) - 1 = n /\ n \in Nat
      BY <1>1, <2>3
    <3>2. CASE N \leq n
      <4>1. Above(s[n].words)
        BY <2>3, <3>2
      <4>2. s[n] \in PositionalStates(W) /\ (words \o more)[n + 1] \in W
        BY <1>1, <1>5, <3>1
      <4>3. s[n + 1] = Positional(s[n], (words \o more)[n + 1], valued)
        BY <1>5, <3>1
      <4>4. \/ s[n + 1].words = s[n].words
            \/ s[n + 1].words = Append(s[n].words, (words \o more)[n + 1])
        <5> DEFINE w == (words \o more)[n + 1]
        <5>1. s[n] \in PositionalStates(W) /\ w \in W /\ s[n + 1] = Positional(s[n], w, valued)
          BY <4>2, <4>3
        <5> HIDE DEF w
        <5>2. s[n + 1].words = s[n].words \/ s[n + 1].words = Append(s[n].words, w)
          BY <5>1, PositionalType
        <5>3. QED
          BY <5>2 DEF w
      <4> HIDE DEF Above
      <4>5. Above(s[n + 1].words)
        BY <1>8, <4>1, <4>2, <4>4
      <4>6. QED
        BY <3>1, <4>5
    <3>3. CASE ~(N \leq n)
      <4>1. N \leq n + 1 => N = n + 1
        BY <1>1, <3>1, <3>3
      <4> HIDE DEF Above
      <4>2. QED
        BY <2>1, <3>1, <4>1
    <3>4. QED
      BY <3>2, <3>3
  <2>4. M \in 0..M
    BY <1>1
  <2> HIDE DEF Q
  <2>5. QED
    BY <1>1, <2>2, <2>3, <2>4, UpTo
<1>10. Above(s[M].words)
  BY <1>1, <1>9
<1>11. QED
  BY <1>4, <1>5, <1>7, <1>10 DEF p

-----------------------------------------------------------------------------
(* Targets *)

\* A part finds nothing in a field.
Empty(t, f) == t.values[f] = <<>>

LEMMA NothingFound ==
    ASSUME NEW f \in TargetFields
    PROVE  Empty(Nothing, f) /\ Nothing.uncertain = {}
BY DEF Empty, Nothing

LEMMA FoundElsewhere ==
    ASSUME NEW field, NEW values, NEW f \in TargetFields, f # field
    PROVE  Empty(Found(field, values), f)
BY DEF Empty, Found, Nothing

LEMMA OpenFinds ==
    ASSUME NEW fields, NEW f \in TargetFields
    PROVE  Empty(Open(fields), f) /\ Open(fields).uncertain = fields
BY DEF Empty, Open, Nothing

LEMMA BothFind ==
    ASSUME NEW s, NEW t, NEW f \in TargetFields
    PROVE  /\ Both(s, t).values[f] = s.values[f] \o t.values[f]
           /\ Both(s, t).uncertain = s.uncertain \cup t.uncertain
           /\ Empty(s, f) /\ Empty(t, f) => Empty(Both(s, t), f)
<1>1. /\ Both(s, t).values[f] = s.values[f] \o t.values[f]
      /\ Both(s, t).uncertain = s.uncertain \cup t.uncertain
  BY DEF Both
<1>2. <<>> \o <<>> = <<>>
  OBVIOUS
<1>3. QED
  BY <1>1, <1>2 DEF Empty

LEMMA WhenFinds ==
    ASSUME NEW condition, NEW t, NEW f \in TargetFields, condition => Empty(t, f)
    PROVE  Empty(When(condition, t), f)
BY NothingFound DEF When

LEMMA DestinationsElsewhere ==
    ASSUME NEW texts, NEW parts, NEW f \in TargetFields \ Network
    PROVE  Empty(Destinations(texts, parts), f)
<1>1. f \in TargetFields /\ f # "network.urls" /\ f # "network.destinations"
  BY DEF Network
<1>2. \A values : Empty(Found("network.urls", values), f)
                  /\ Empty(Found("network.destinations", values), f)
  BY <1>1, FoundElsewhere
<1>3. \A s, t : Empty(s, f) /\ Empty(t, f) => Empty(Both(s, t), f)
  BY <1>1, BothFind
<1>4. QED
  BY <1>2, <1>3 DEF Destinations

LEMMA NetworkElsewhere ==
    ASSUME NEW executable, NEW words, NEW dynamic, NEW f \in TargetFields \ Network,
           executable = "scp" => f # "file.paths"
    PROVE  Empty(OfNetwork(executable, words, dynamic), f)
<1>1. \A s, t : Empty(s, f) /\ Empty(t, f) => Empty(Both(s, t), f)
  BY BothFind
<1>2. \A condition : Empty(When(condition, Open(Network)), f)
  BY OpenFinds, WhenFinds
<1>3. \A values : Empty(When(executable = "scp", Found("file.paths", values)), f)
  BY FoundElsewhere, WhenFinds
<1>4. \A texts, parts : Empty(Destinations(texts, parts), f)
  BY DestinationsElsewhere
<1>5. QED
  BY <1>1, <1>2, <1>3, <1>4 DEF OfNetwork

LEMMA FilesElsewhere ==
    ASSUME NEW words, NEW dynamic, NEW f \in TargetFields, f # "file.paths"
    PROVE  Empty(OfFiles(words, dynamic), f)
<1>1. \A s, t : Empty(s, f) /\ Empty(t, f) => Empty(Both(s, t), f)
  BY BothFind
<1>2. \A condition : Empty(When(condition, Open({"file.paths"})), f)
  BY OpenFinds, WhenFinds
<1>3. \A values : Empty(Found("file.paths", values), f)
  BY FoundElsewhere
<1>4. QED
  BY <1>1, <1>2, <1>3 DEF OfFiles

LEMMA GitElsewhere ==
    ASSUME NEW words, NEW dynamic, NEW f \in TargetFields \ Network,
           f # "git.operations", f # "git.repositories"
    PROVE  Empty(OfGit(words, dynamic), f)
<1>1. \A s, t : Empty(s, f) /\ Empty(t, f) => Empty(Both(s, t), f)
  BY BothFind
<1>2. \A condition, fields : Empty(When(condition, Open(fields)), f) /\ Empty(Open(fields), f)
  BY OpenFinds, WhenFinds
<1>3. \A values : /\ Empty(Found("git.operations", values), f)
                  /\ Empty(Found("git.repositories", values), f)
  BY FoundElsewhere
<1>4. \A texts, parts : Empty(Destinations(texts, parts), f)
  BY DestinationsElsewhere
<1>5. QED
  BY <1>1, <1>2, <1>3, <1>4 DEF OfGit

LEMMA PackagesElsewhere ==
    ASSUME NEW executable, NEW words, NEW dynamic, NEW f \in TargetFields,
           f # "package.operations", f # "package.names"
    PROVE  Empty(OfPackages(executable, words, dynamic), f)
<1>1. \A s, t : Empty(s, f) /\ Empty(t, f) => Empty(Both(s, t), f)
  BY BothFind
<1>2. \A condition, fields : Empty(When(condition, Open(fields)), f)
  BY OpenFinds, WhenFinds
<1>3. \A values : /\ Empty(Found("package.operations", values), f)
                  /\ Empty(Found("package.names", values), f)
  BY FoundElsewhere
<1>4. QED
  BY <1>1, <1>2, <1>3 DEF OfPackages

\* What dynamic words, and words that are added, leave open.
LEMMA NetworkOpen ==
    ASSUME NEW executable, NEW words, NEW dynamic, dynamic
    PROVE  Network \subseteq OfNetwork(executable, words, dynamic).uncertain
<1>1. \A s, t : Both(s, t).uncertain = s.uncertain \cup t.uncertain
  BY DEF Both
<1>2. Open(Network).uncertain = Network
  BY DEF Open, Nothing
<1> DEFINE all == When(dynamic \/ Positionals(words, NetworkValued).uncertain, Open(Network))
<1>3. PICK rest : OfNetwork(executable, words, dynamic) = Both(all, rest)
  BY Zenon DEF OfNetwork
<1>4. all = Open(Network)
  BY DEF When
<1> HIDE DEF all
<1>5. OfNetwork(executable, words, dynamic).uncertain = all.uncertain \cup rest.uncertain
  BY <1>1, <1>3, Zenon
<1>6. all.uncertain = Network
  BY <1>2, <1>4, Zenon
<1>7. QED
  BY <1>5, <1>6, Zenon

LEMMA FilesOpen ==
    ASSUME NEW words, NEW dynamic, dynamic
    PROVE  "file.paths" \in OfFiles(words, dynamic).uncertain
<1>1. \A s, t : Both(s, t).uncertain = s.uncertain \cup t.uncertain
  BY DEF Both
<1>2. Open({"file.paths"}).uncertain = {"file.paths"}
  BY DEF Open, Nothing
<1>3. QED
  BY <1>1, <1>2 DEF OfFiles, When

LEMMA GitOpen ==
    ASSUME NEW words, NEW dynamic
    PROVE  LET p == Positionals(words, GitValued)
               open == OfGit(words, dynamic).uncertain
           IN  /\ p.uncertain => {"git.operations", "git.repositories"} \subseteq open
               /\ dynamic /\ p.words = <<>> => "git.operations" \in open
<1>1. \A s, t : Both(s, t).uncertain = s.uncertain \cup t.uncertain
  BY DEF Both
<1>2. \A fields : Open(fields).uncertain = fields
  BY DEF Open, Nothing
<1> DEFINE p == Positionals(words, GitValued)
<1>3. ASSUME p.uncertain
      PROVE  {"git.operations", "git.repositories"} \subseteq OfGit(words, dynamic).uncertain
  <2>1. PICK rest : OfGit(words, dynamic) =
                       Both(When(p.uncertain, Open({"git.operations", "git.repositories"})), rest)
    BY Zenon DEF OfGit
  <2>2. When(p.uncertain, Open({"git.operations", "git.repositories"}))
        = Open({"git.operations", "git.repositories"})
    BY <1>3 DEF When
  <2>3. QED
    BY <1>1, <1>2, <2>1, <2>2
<1>4. ASSUME dynamic, p.words = <<>>
      PROVE  "git.operations" \in OfGit(words, dynamic).uncertain
  <2>1. PICK rest : OfGit(words, dynamic) =
                       Both(rest, When(dynamic, Open({"git.operations"})))
    BY <1>4, Zenon DEF OfGit
  <2>2. When(dynamic, Open({"git.operations"})) = Open({"git.operations"})
    BY <1>4 DEF When
  <2>3. QED
    BY <1>1, <1>2, <2>1, <2>2
<1>5. QED
  BY <1>3, <1>4

LEMMA PackagesOpen ==
    ASSUME NEW executable, NEW words, NEW dynamic
    PROVE  LET p == Positionals(words, {})
               open == OfPackages(executable, words, dynamic).uncertain
           IN  /\ p.uncertain => {"package.operations", "package.names"} \subseteq open
               /\ /\ dynamic
                  /\ {i \in DOMAIN p.words :
                         Fold(p.words[i].value) \in PackageVerbs[executable]} = {}
                  => "package.operations" \in open
<1>1. \A s, t : Both(s, t).uncertain = s.uncertain \cup t.uncertain
  BY DEF Both
<1>2. \A fields : Open(fields).uncertain = fields
  BY DEF Open, Nothing
<1> DEFINE p == Positionals(words, {})
           verbs == {i \in DOMAIN p.words : Fold(p.words[i].value) \in PackageVerbs[executable]}
<1>3. ASSUME p.uncertain
      PROVE  {"package.operations", "package.names"}
                \subseteq OfPackages(executable, words, dynamic).uncertain
  <2>1. PICK rest : OfPackages(executable, words, dynamic) =
                       Both(When(p.uncertain, Open({"package.operations", "package.names"})), rest)
    BY Zenon DEF OfPackages
  <2>2. When(p.uncertain, Open({"package.operations", "package.names"}))
        = Open({"package.operations", "package.names"})
    BY <1>3 DEF When
  <2>3. QED
    BY <1>1, <1>2, <2>1, <2>2
<1>4. ASSUME dynamic, verbs = {}
      PROVE  "package.operations" \in OfPackages(executable, words, dynamic).uncertain
  <2>1. PICK rest : OfPackages(executable, words, dynamic) =
                       Both(rest, When(dynamic, Open({"package.operations"})))
    BY <1>4, Zenon DEF OfPackages
  <2>2. When(dynamic, Open({"package.operations"})) = Open({"package.operations"})
    BY <1>4 DEF When
  <2>3. QED
    BY <1>1, <1>2, <2>1, <2>2
<1>5. QED
  BY <1>3, <1>4

\* The operation of git is that of the words before those added.
LEMMA GitOperationKept ==
    ASSUME NEW W, NEW words \in Seq(W), NEW more \in Seq(W), NEW d, NEW e,
           Positionals(words, GitValued).words # <<>>
    PROVE  OfGit(words \o more, d).values["git.operations"]
           = OfGit(words, e).values["git.operations"]
<1> DEFINE f == "git.operations"
           first == Head(Positionals(words, GitValued).words)
           Operation == IF first.dynamic THEN <<>> \o <<>>
                        ELSE <<>> \o ((<<Fold(first.value)>> \o <<>>) \o <<>>)
<1>1. f \in TargetFields /\ f \in TargetFields \ Network /\ f # "git.repositories"
  BY DEF TargetFields, Network
<1>2. Found(f, <<Fold(first.value)>>).values[f] = <<Fold(first.value)>>
  BY <1>1 DEF Found, Nothing
<1>3. \A values : Empty(Found("git.repositories", values), f)
  BY <1>1, FoundElsewhere
<1>4. \A texts, parts : Empty(Destinations(texts, parts), f)
  BY <1>1, DestinationsElsewhere
<1>5. \A condition, fields : Empty(When(condition, Open(fields)), f) /\ Empty(Open(fields), f)
  BY <1>1, OpenFinds, WhenFinds
<1>6. \A s, t : Both(s, t).values[f] = s.values[f] \o t.values[f]
  BY <1>1, BothFind
<1>7. ASSUME NEW ws, NEW dynamic, Positionals(ws, GitValued).words # <<>>,
             Head(Positionals(ws, GitValued).words) = first
      PROVE  OfGit(ws, dynamic).values[f] = Operation
  <2>1. CASE first.dynamic
    <3>1. OfGit(ws, dynamic) = Both(When(Positionals(ws, GitValued).uncertain,
                                         Open({"git.operations", "git.repositories"})),
                                    Open({"git.operations"}))
      BY <1>7, <2>1 DEF OfGit
    <3> DEFINE s == When(Positionals(ws, GitValued).uncertain,
                         Open({"git.operations", "git.repositories"}))
               t == Open({"git.operations"})
    <3>2. OfGit(ws, dynamic) = Both(s, t) /\ s.values[f] = <<>> /\ t.values[f] = <<>>
      BY <1>5, <3>1, Zenon DEF Empty
    <3> HIDE DEF s, t, f
    <3>3. OfGit(ws, dynamic).values[f] = <<>> \o <<>>
      BY <1>6, <3>2
    <3>4. QED
      BY <2>1, <3>3
  <2>2. CASE ~first.dynamic
    <3> DEFINE s == When(Positionals(ws, GitValued).uncertain,
                         Open({"git.operations", "git.repositories"}))
               t == Found(f, <<Fold(first.value)>>)
               Repositories(names) == Found("git.repositories", names)
    <3>1. PICK names, parts :
            OfGit(ws, dynamic)
            = Both(s, Both(Both(t, Repositories(names)), Destinations(names, parts)))
      BY <1>7, <2>2, Zenon DEF OfGit
    <3>2. /\ s.values[f] = <<>> /\ t.values[f] = <<Fold(first.value)>>
          /\ Repositories(names).values[f] = <<>> /\ Destinations(names, parts).values[f] = <<>>
      BY <1>2, <1>3, <1>4, <1>5, Zenon DEF Empty
    <3> HIDE DEF s, t, Repositories, f, first
    <3> DEFINE u == Both(t, Repositories(names))
               v == Both(u, Destinations(names, parts))
    <3>3. OfGit(ws, dynamic) = Both(s, v)
      BY <3>1
    <3>4. u.values[f] = <<Fold(first.value)>> \o <<>>
      BY <1>6, <3>2
    <3>5. v.values[f] = u.values[f] \o <<>>
      <4> HIDE DEF u
      <4>1. QED
        BY <1>6, <3>2
    <3> HIDE DEF v, u
    <3>6. OfGit(ws, dynamic).values[f] = <<>> \o v.values[f]
      BY <1>6, <3>2, <3>3
    <3>7. QED
      BY <2>2, <3>4, <3>5, <3>6
  <2>3. QED
    BY <2>1, <2>2
<1>8. /\ Positionals(words \o more, GitValued).words # <<>>
      /\ Head(Positionals(words \o more, GitValued).words) = first
  <2> DEFINE p == Positionals(words, GitValued).words
             q == Positionals(words \o more, GitValued).words
  <2>1. p \in Seq(W) /\ q \in Seq(W) /\ Len(p) \leq Len(q) /\ \A k \in 1..Len(p) : q[k] = p[k]
    BY PositionalsGrow
  <2> HIDE DEF p, q
  <2>2. p # <<>> => Len(p) \in Nat /\ Len(p) \geq 1 /\ Head(p) = p[1]
    BY <2>1, LenProperties, EmptySeq, HeadTailProperties
  <2>3. Len(q) \in Nat /\ (Len(q) \geq 1 => q # <<>> /\ Head(q) = q[1])
    BY <2>1, LenProperties, EmptySeq, HeadTailProperties
  <2>4. p # <<>>
    BY DEF p
  <2>5. 1 \in 1..Len(p) /\ Len(q) \geq 1
    BY <2>1, <2>2, <2>3, <2>4
  <2>6. q # <<>> /\ Head(q) = Head(p)
    BY <2>1, <2>2, <2>3, <2>4, <2>5
  <2>7. QED
    BY <2>6 DEF p, q
<1> HIDE DEF first, Operation
<1>9. OfGit(words, e).values[f] = Operation
  BY <1>7 DEF first
<1>10. OfGit(words \o more, d).values[f] = Operation
  BY <1>7, <1>8
<1>11. QED
  BY <1>9, <1>10

\* So are the operation of a package manager, and its place.
LEMMA PackageOperationKept ==
    ASSUME NEW W, NEW words \in Seq(W), NEW more \in Seq(W), NEW d, NEW e, NEW executable,
           {i \in DOMAIN Positionals(words, {}).words :
               Fold(Positionals(words, {}).words[i].value) \in PackageVerbs[executable]} # {}
    PROVE  OfPackages(executable, words \o more, d).values["package.operations"]
           = OfPackages(executable, words, e).values["package.operations"]
<1> DEFINE f == "package.operations"
           p == Positionals(words, {}).words
           q == Positionals(words \o more, {}).words
           Verbs(ps) == {i \in DOMAIN ps : Fold(ps[i].value) \in PackageVerbs[executable]}
           FirstOf(ps) == CHOOSE k \in Verbs(ps) : \A j \in Verbs(ps) : k \leq j
           Operation(ps) == <<executable \o "." \o Fold(ps[FirstOf(ps)].value)>>
<1>1. f \in TargetFields /\ f # "package.names"
  BY DEF TargetFields
<1>2. \A values : Found(f, values).values[f] = values
  BY <1>1 DEF Found, Nothing
<1>3. \A values : Empty(Found("package.names", values), f)
  BY <1>1, FoundElsewhere
<1>4. \A condition, fields : Empty(When(condition, Open(fields)), f)
  BY <1>1, OpenFinds, WhenFinds
<1>5. \A s, t : Both(s, t).values[f] = s.values[f] \o t.values[f]
  <2> HIDE DEF f
  <2>1. QED
    BY <1>1, BothFind
<1>6. ASSUME NEW ws, NEW dynamic, Verbs(Positionals(ws, {}).words) # {}
      PROVE  OfPackages(executable, ws, dynamic).values[f]
             = <<>> \o (Operation(Positionals(ws, {}).words) \o <<>>)
  <2> DEFINE o == Operation(Positionals(ws, {}).words)
             s == When(Positionals(ws, {}).uncertain,
                       Open({"package.operations", "package.names"}))
             t == Found(f, o)
             Names(names) == Found("package.names", names)
  <2>1. PICK names : OfPackages(executable, ws, dynamic) = Both(s, Both(t, Names(names)))
    BY <1>6, Zenon DEF OfPackages
  <2> HIDE DEF o
  <2>2. s.values[f] = <<>> /\ t.values[f] = o /\ Names(names).values[f] = <<>>
    BY <1>2, <1>3, <1>4, Zenon DEF Empty
  <2> HIDE DEF s, t, Names, f
  <2> DEFINE u == Both(t, Names(names))
  <2>3. u.values[f] = o \o <<>>
    BY <1>5, <2>2
  <2>4. OfPackages(executable, ws, dynamic) = Both(s, u)
    BY <2>1
  <2> HIDE DEF u
  <2>5. OfPackages(executable, ws, dynamic).values[f] = <<>> \o u.values[f]
    BY <1>5, <2>2, <2>4
  <2>6. QED
    BY <2>3, <2>5 DEF o
<1>7. p \in Seq(W) /\ q \in Seq(W) /\ Len(p) \leq Len(q) /\ \A k \in 1..Len(p) : q[k] = p[k]
  BY PositionalsGrow
<1>8. Verbs(p) # {}
  OBVIOUS
<1>9. OfPackages(executable, words, e).values[f] = <<>> \o (Operation(p) \o <<>>)
  BY <1>6, <1>8
<1>10. Verbs(q) # {} =>
          OfPackages(executable, words \o more, d).values[f] = <<>> \o (Operation(q) \o <<>>)
  BY <1>6
<1> HIDE DEF p, q, f
<1>11. /\ Len(p) \in Nat /\ DOMAIN p = 1..Len(p)
       /\ Len(q) \in Nat /\ DOMAIN q = 1..Len(q)
  BY <1>7, LenProperties
<1>12. /\ Verbs(p) \subseteq Verbs(q) /\ Verbs(q) \subseteq Nat
       /\ \A j \in Verbs(q) : j \in Verbs(p) \/ j > Len(p)
  BY <1>7, <1>11
<1>13. PICK m \in Verbs(p) : \A j \in Verbs(p) : m \leq j
  <2> DEFINE R == {ss \in Nat \X Nat : ss[1] < ss[2]}
  <2>1. IsWellFoundedOn(R, Nat)
    BY LessWellFounded
  <2>2. Verbs(p) \subseteq Nat
    BY <1>12
  <2> HIDE DEF Verbs, R
  <2>3. PICK m \in Verbs(p) : \A j \in Verbs(p) : ~(<<j, m>> \in R)
    BY <1>8, <2>1, <2>2, WFMin
  <2>4. ASSUME NEW j \in Verbs(p)
        PROVE  m \leq j
    <3>1. j \in Nat /\ m \in Nat /\ ~(<<j, m>> \in R)
      BY <2>2, <2>3
    <3>2. ~(j < m)
      BY <3>1 DEF R
    <3>3. QED
      BY <3>1, <3>2
  <2>5. QED
    BY <2>4
<1>14. m \in Verbs(q) /\ m \in 1..Len(p) /\ \A j \in Verbs(q) : m \leq j
  <2>1. m \in 1..Len(p)
    BY <1>11, <1>13
  <2>2. QED
    BY <1>11, <1>12, <1>13, <2>1
<1>15. FirstOf(p) = m /\ FirstOf(q) = m
  <2>1. \A k \in Verbs(p) : k \in Nat
    BY <1>12
  <2>2. \A k \in Verbs(q) : k \in Nat
    BY <1>12
  <2> HIDE DEF Verbs
  <2>3. \A k \in Verbs(p) : (\A j \in Verbs(p) : k \leq j) => k = m
    BY <1>13, <2>1
  <2>4. \A k \in Verbs(q) : (\A j \in Verbs(q) : k \leq j) => k = m
    BY <1>14, <2>2
  <2>5. QED
    BY <1>13, <1>14, <2>3, <2>4
<1>16. q[m] = p[m]
  BY <1>7, <1>14
<1>17. Operation(q) = Operation(p)
  <2> HIDE DEF FirstOf
  <2>1. QED
    BY <1>15, <1>16
<1> HIDE DEF Verbs, Operation
<1>18. QED
  BY <1>9, <1>10, <1>14, <1>17 DEF f


\* Whether the shell, or xargs, may add to words.
Dynamic(words, force) == force \/ HasDynamic(words)

LEMMA WhenSame ==
    ASSUME NEW condition, NEW s, NEW t, NEW f, condition => s.values[f] = t.values[f]
    PROVE  When(condition, s).values[f] = When(condition, t).values[f]
BY DEF When

LEMMA PartsSame ==
    ASSUME NEW f,
           NEW a1, NEW a2, NEW a3, NEW a4, NEW a5, NEW b1, NEW b2, NEW b3, NEW b4, NEW b5,
           a1.values[f] = b1.values[f], a2.values[f] = b2.values[f],
           a3.values[f] = b3.values[f], a4.values[f] = b4.values[f],
           a5.values[f] = b5.values[f]
    PROVE  LET a == <<a1, a2, a3, a4, a5>>
               b == <<b1, b2, b3, b4, b5>>
           IN  [k \in DOMAIN a |-> a[k].values[f]] = [k \in DOMAIN b |-> b[k].values[f]]
<1> DEFINE a == <<a1, a2, a3, a4, a5>>
           b == <<b1, b2, b3, b4, b5>>
<1>1. DOMAIN a = 1..5 /\ DOMAIN b = 1..5
  OBVIOUS
<1>2. a[1] = a1 /\ a[2] = a2 /\ a[3] = a3 /\ a[4] = a4 /\ a[5] = a5
  OBVIOUS
<1>3. b[1] = b1 /\ b[2] = b2 /\ b[3] = b3 /\ b[4] = b4 /\ b[5] = b5
  OBVIOUS
<1> HIDE DEF a, b
<1>4. ASSUME NEW k \in 1..5
      PROVE  a[k].values[f] = b[k].values[f]
  <2>1. k = 1 \/ k = 2 \/ k = 3 \/ k = 4 \/ k = 5
    OBVIOUS
  <2>2. QED
    BY <1>2, <1>3, <2>1
<1>5. [k \in DOMAIN a |-> a[k].values[f]] = [k \in DOMAIN b |-> b[k].values[f]]
  BY <1>1, <1>4
<1>6. QED
  BY <1>5 DEF a, b

\* The parts of two calls find the same in a field.
SameParts(f, executable, words, redirections, force, words2, redirections2, force2) ==
    LET d == Dynamic(words, force)
        d2 == Dynamic(words2, force2)
    IN  /\ OfRedirections(redirections).values[f] = OfRedirections(redirections2).values[f]
        /\ executable \in NetworkExecutables =>
              OfNetwork(executable, words, d).values[f] = OfNetwork(executable, words2, d2).values[f]
        /\ executable \in FileExecutables => OfFiles(words, d).values[f] = OfFiles(words2, d2).values[f]
        /\ executable = "git" => OfGit(words, d).values[f] = OfGit(words2, d2).values[f]
        /\ executable \in DOMAIN PackageVerbs =>
              OfPackages(executable, words, d).values[f] = OfPackages(executable, words2, d2).values[f]

LEMMA TargetsSame ==
    ASSUME NEW executable, NEW words, NEW redirections, NEW force,
           NEW words2, NEW redirections2, NEW force2, NEW f \in TargetFields,
           SameParts(f, executable, words, redirections, force, words2, redirections2, force2)
    PROVE  ProcessTargets(executable, words, redirections, force).values[f]
           = ProcessTargets(executable, words2, redirections2, force2).values[f]
<1> DEFINE d == Dynamic(words, force)
           a1 == OfRedirections(redirections)
           a2 == When(executable \in NetworkExecutables, OfNetwork(executable, words, d))
           a3 == When(executable \in FileExecutables, OfFiles(words, d))
           a4 == When(executable = "git", OfGit(words, d))
           a5 == When(executable \in DOMAIN PackageVerbs, OfPackages(executable, words, d))
           d2 == Dynamic(words2, force2)
           b1 == OfRedirections(redirections2)
           b2 == When(executable \in NetworkExecutables, OfNetwork(executable, words2, d2))
           b3 == When(executable \in FileExecutables, OfFiles(words2, d2))
           b4 == When(executable = "git", OfGit(words2, d2))
           b5 == When(executable \in DOMAIN PackageVerbs,
                      OfPackages(executable, words2, d2))
           a == <<a1, a2, a3, a4, a5>>
           b == <<b1, b2, b3, b4, b5>>
           as == [k \in DOMAIN a |-> a[k].values[f]]
           bs == [k \in DOMAIN b |-> b[k].values[f]]
<1>1. ProcessTargets(executable, words, redirections, force).values[f]
      = BoundedUnique(FlattenSeq(as))
  <2>1. ProcessTargets(executable, words, redirections, force).values =
           [g \in TargetFields |-> BoundedUnique(FlattenSeq([k \in DOMAIN a |-> a[k].values[g]]))]
    BY Zenon DEF ProcessTargets, Dynamic
  <2> HIDE DEF a
  <2>2. QED
    BY <2>1
<1>2. ProcessTargets(executable, words2, redirections2, force2).values[f]
      = BoundedUnique(FlattenSeq(bs))
  <2>1. ProcessTargets(executable, words2, redirections2, force2).values =
           [g \in TargetFields |-> BoundedUnique(FlattenSeq([k \in DOMAIN b |-> b[k].values[g]]))]
    BY Zenon DEF ProcessTargets, Dynamic
  <2> HIDE DEF b
  <2>2. QED
    BY <2>1
<1>3. /\ a1.values[f] = b1.values[f] /\ a2.values[f] = b2.values[f]
      /\ a3.values[f] = b3.values[f] /\ a4.values[f] = b4.values[f]
      /\ a5.values[f] = b5.values[f]
  <2>1. /\ a1.values[f] = b1.values[f]
        /\ executable \in NetworkExecutables =>
              OfNetwork(executable, words, d).values[f] = OfNetwork(executable, words2, d2).values[f]
        /\ executable \in FileExecutables => OfFiles(words, d).values[f] = OfFiles(words2, d2).values[f]
        /\ executable = "git" => OfGit(words, d).values[f] = OfGit(words2, d2).values[f]
        /\ executable \in DOMAIN PackageVerbs =>
              OfPackages(executable, words, d).values[f] = OfPackages(executable, words2, d2).values[f]
    BY Zenon DEF SameParts
  <2>2. a1.values[f] = b1.values[f]
    BY <2>1
  <2>3. a2.values[f] = b2.values[f]
    BY <2>1, Zenon DEF When
  <2>4. a3.values[f] = b3.values[f]
    BY <2>1, Zenon DEF When
  <2>5. a4.values[f] = b4.values[f]
    BY <2>1, Zenon DEF When
  <2>6. a5.values[f] = b5.values[f]
    BY <2>1, Zenon DEF When
  <2> HIDE DEF a1, a2, a3, a4, a5, b1, b2, b3, b4, b5
  <2>7. QED
    BY <2>2, <2>3, <2>4, <2>5, <2>6
<1> HIDE DEF a1, a2, a3, a4, a5, b1, b2, b3, b4, b5
<1>4. as = bs
  BY <1>3, PartsSame
<1> HIDE DEF as, bs
<1>5. QED
  BY <1>1, <1>2, <1>4

\* What a part leaves open, a call does.
LEMMA TargetsOpen ==
    ASSUME NEW executable, NEW words, NEW redirections, NEW force
    PROVE  LET d == Dynamic(words, force)
               open == ProcessTargets(executable, words, redirections, force).uncertain
           IN  /\ OfRedirections(redirections).uncertain \subseteq open
               /\ executable \in NetworkExecutables =>
                     OfNetwork(executable, words, d).uncertain \subseteq open
               /\ executable \in FileExecutables => OfFiles(words, d).uncertain \subseteq open
               /\ executable = "git" => OfGit(words, d).uncertain \subseteq open
               /\ executable \in DOMAIN PackageVerbs =>
                     OfPackages(executable, words, d).uncertain \subseteq open
<1> DEFINE d == Dynamic(words, force)
           a1 == OfRedirections(redirections)
           a2 == When(executable \in NetworkExecutables, OfNetwork(executable, words, d))
           a3 == When(executable \in FileExecutables, OfFiles(words, d))
           a4 == When(executable = "git", OfGit(words, d))
           a5 == When(executable \in DOMAIN PackageVerbs, OfPackages(executable, words, d))
           a == <<a1, a2, a3, a4, a5>>
           open == ProcessTargets(executable, words, redirections, force).uncertain
<1>1. open = UNION {a[k].uncertain : k \in DOMAIN a}
  <2>1. PICK values : ProcessTargets(executable, words, redirections, force) =
                         [values |-> values, uncertain |-> UNION {a[k].uncertain : k \in DOMAIN a}]
    BY Zenon DEF ProcessTargets, Dynamic
  <2> HIDE DEF a
  <2>2. QED
    BY <2>1
<1>2. /\ executable \in NetworkExecutables => a2 = OfNetwork(executable, words, d)
      /\ executable \in FileExecutables => a3 = OfFiles(words, d)
      /\ executable = "git" => a4 = OfGit(words, d)
      /\ executable \in DOMAIN PackageVerbs => a5 = OfPackages(executable, words, d)
  BY DEF When
<1>3. a1 = OfRedirections(redirections)
  OBVIOUS
<1> HIDE DEF a1, a2, a3, a4, a5, open
<1>4. /\ DOMAIN a = 1..5
      /\ a[1] = a1 /\ a[2] = a2 /\ a[3] = a3 /\ a[4] = a4 /\ a[5] = a5
  OBVIOUS
<1> HIDE DEF a
<1>5. /\ a1.uncertain \subseteq open /\ a2.uncertain \subseteq open /\ a3.uncertain \subseteq open
      /\ a4.uncertain \subseteq open /\ a5.uncertain \subseteq open
  <2>1. \A k \in 1..5 : a[k].uncertain \subseteq open
    BY <1>1, <1>4
  <2>2. 1 \in 1..5 /\ 2 \in 1..5 /\ 3 \in 1..5 /\ 4 \in 1..5 /\ 5 \in 1..5
    OBVIOUS
  <2>3. QED
    BY <1>4, <2>1, <2>2
<1>6. QED
  BY <1>2, <1>3, <1>5 DEF open


-----------------------------------------------------------------------------
(* What the shell may make of words and redirections *)

\* What redirections find is the same when their targets are completed, in the
\* fields that they do not leave open.
LEMMA RedirectionsStable ==
    ASSUME NEW redirections, NEW completed \in CompletedRedirections(redirections),
           NEW f \in TargetFields, f \notin OfRedirections(redirections).uncertain
    PROVE  OfRedirections(completed).values[f] = OfRedirections(redirections).values[f]
<1> DEFINE Files(rs) == {i \in DOMAIN rs : rs[i].operator \notin {">&", "<&"}}
           Opened(rs) == {i \in Files(rs) : rs[i].target.dynamic}
           Path(rs, i) == IF i \in Files(rs) \ Opened(rs) THEN <<rs[i].target.value>> ELSE <<>>
           Listing(rs) == FlattenSeq([i \in DOMAIN rs |-> Path(rs, i)])
           Rest(rs) == When(Opened(rs) # {}, Open({"file.paths"}))
<1>1. \A rs : OfRedirections(rs) = Both(Found("file.paths", Listing(rs)), Rest(rs))
  BY Zenon DEF OfRedirections
<1>2. \A rs : Rest(rs).values[f] = <<>>
  BY OpenFinds, WhenFinds DEF Empty
<1> HIDE DEF Rest, Listing
<1>3. ASSUME NEW rs
      PROVE  OfRedirections(rs).values[f] = Found("file.paths", Listing(rs)).values[f] \o <<>>
  <2> DEFINE s == Found("file.paths", Listing(rs))
             t == Rest(rs)
  <2>1. OfRedirections(rs) = Both(s, t) /\ t.values[f] = <<>>
    BY <1>1, <1>2
  <2> HIDE DEF s, t
  <2>2. Both(s, t).values[f] = s.values[f] \o t.values[f]
    BY DEF Both
  <2>3. QED
    BY <2>1, <2>2 DEF s
<1>4. CASE f # "file.paths"
  <2>1. \A rs : Found("file.paths", Listing(rs)).values[f] = <<>>
    BY <1>4, FoundElsewhere DEF Empty
  <2>2. QED
    BY <1>3, <2>1
<1>5. CASE f = "file.paths"
  <2>1. Opened(redirections) = {}
    <3>1. SUFFICES ASSUME Opened(redirections) # {} PROVE FALSE
      OBVIOUS
    <3>2. Rest(redirections) = Open({"file.paths"})
      BY <3>1 DEF Rest, When
    <3>3. "file.paths" \in Rest(redirections).uncertain
      BY <3>2 DEF Open, Nothing
    <3>4. OfRedirections(redirections).uncertain
          = Found("file.paths", Listing(redirections)).uncertain \cup Rest(redirections).uncertain
      BY <1>1, BothFind
    <3>5. QED
      BY <1>5, <3>3, <3>4
  <2> DEFINE open == {i \in DOMAIN redirections : redirections[i].target.dynamic}
  <2>2. PICK choice : completed =
           [i \in DOMAIN redirections |->
              [operator |-> redirections[i].operator,
               target |-> IF i \in open THEN StaticWord(choice[i]) ELSE redirections[i].target]]
    BY DEF CompletedRedirections
  <2>3. /\ DOMAIN completed = DOMAIN redirections
        /\ \A i \in DOMAIN redirections :
              /\ completed[i].operator = redirections[i].operator
              /\ i \notin open => completed[i].target = redirections[i].target
    BY <2>2
  <2>4. Files(completed) = Files(redirections)
    BY <2>3
  <2>5. \A i \in Files(redirections) : completed[i].target = redirections[i].target
    BY <2>1, <2>3
  <2>6. Opened(completed) = {}
    BY <2>1, <2>4, <2>5
  <2>7. \A i \in DOMAIN redirections : Path(completed, i) = Path(redirections, i)
    <3> HIDE DEF Files, Opened
    <3>1. QED
      BY <2>1, <2>4, <2>5, <2>6
  <2> HIDE DEF Path
  <2>8. [i \in DOMAIN completed |-> Path(completed, i)]
        = [i \in DOMAIN redirections |-> Path(redirections, i)]
    BY <2>3, <2>7
  <2>9. Listing(completed) = Listing(redirections)
    BY <2>8 DEF Listing
  <2>10. QED
    BY <1>3, <2>9
<1>6. QED
  BY <1>4, <1>5

\* Static words are what they are.
LEMMA StaticCompleted ==
    ASSUME NEW W, NEW words \in Seq(W), ~HasDynamic(words), NEW completed \in Completions(words)
    PROVE  completed = words
<1> DEFINE N == Len(words)
           OfWord(w) == IF w.dynamic THEN {StaticWords(e) : e \in Expansions} ELSE {<<w>>}
           Longer(before, w) == {b \o choice : b \in before, choice \in OfWord(w)}
           Is(g) == g = [n \in 0..N |-> IF n = 0 THEN {<<>>} ELSE Longer(g[n - 1], words[n])]
           f == CHOOSE g : Is(g)
           Up(n) == SubSeq(words, 1, n)
           g == [n \in 0..N |-> {Up(n)}]
<1>1. N \in Nat /\ DOMAIN words = 1..N /\ \A n \in 1..N : words[n] \in W
  BY LenProperties, ElementOfSeq
<1>2. Completions(words) = f[N]
  BY DEF Completions
<1>3. \A n \in 1..N : OfWord(words[n]) = {<<words[n]>>}
  BY <1>1 DEF HasDynamic, Range
<1>4. Up(0) = <<>> /\ Up(N) = words
  BY SubSeqProperties, EmptySeq
<1>5. \A n \in 1..N : Up(n - 1) \o <<words[n]>> = Up(n)
  BY <1>1
<1> HIDE DEF N, Up, OfWord
<1>6. ASSUME NEW n \in 1..N
      PROVE  Longer({Up(n - 1)}, words[n]) = {Up(n)}
  <2> DEFINE before == Up(n - 1)
             choices == OfWord(words[n])
             last == <<words[n]>>
  <2>1. choices = {last} /\ before \o last = Up(n)
    BY <1>3, <1>5
  <2> HIDE DEF before, choices, last
  <2>2. {b \o choice : b \in {before}, choice \in choices} = {Up(n)}
    BY <2>1
  <2>3. QED
    BY <2>2 DEF before, choices
<1> HIDE DEF Longer
<1>7. Is(g)
  <2>1. \A n \in 1..N : n \in 0..N /\ n # 0 /\ n - 1 \in 0..N
    BY <1>1
  <2>2. ASSUME NEW n \in 0..N
        PROVE  {Up(n)} = IF n = 0 THEN {<<>>} ELSE Longer(g[n - 1], words[n])
    <3>1. CASE n = 0
      BY <1>4, <3>1
    <3>2. CASE n # 0
      <4>1. n \in 1..N
        BY <1>1, <3>2
      <4>2. g[n - 1] = {Up(n - 1)}
        BY <2>1, <4>1
      <4> HIDE DEF g
      <4>3. QED
        BY <1>6, <3>2, <4>1, <4>2
    <3>3. QED
      BY <3>1, <3>2
  <2>3. QED
    BY <2>2, Zenon
<1>8. Is(f)
  <2> HIDE DEF Is, g
  <2>1. QED
    BY <1>7
<1> HIDE DEF f
<1>9. f[0] = {<<>>} /\ \A n \in 1..N : f[n] = Longer(f[n - 1], words[n])
  <2>1. \A n \in 0..N : f[n] = IF n = 0 THEN {<<>>} ELSE Longer(f[n - 1], words[n])
    BY <1>8
  <2>2. 0 \in 0..N /\ \A n \in 1..N : n \in 0..N /\ n # 0
    BY <1>1
  <2>3. QED
    BY <2>1, <2>2
<1> DEFINE P == {n \in 0..N : f[n] = {Up(n)}}
<1>10. 0 \in P
  BY <1>1, <1>4, <1>9
<1>11. ASSUME NEW n \in 0..N, n + 1 \leq N, n \in P
       PROVE  n + 1 \in P
  <2>1. n + 1 \in 1..N /\ n + 1 \in 0..N /\ (n + 1) - 1 = n
    BY <1>1, <1>11
  <2>2. f[n + 1] = Longer(f[n], words[n + 1]) /\ f[n] = {Up(n)}
    BY <1>9, <1>11, <2>1
  <2>3. QED
    BY <1>6, <2>1, <2>2
<1>12. N \in P
  <2>1. N \in 0..N
    BY <1>1
  <2> HIDE DEF P
  <2>2. QED
    BY <1>1, <1>10, <1>11, <2>1, UpTo
<1>13. QED
  BY <1>2, <1>4, <1>12

\* The fields that a call leaves open when there may be more than it was given.
LEMMA OpenWhenDynamic ==
    ASSUME NEW executable, NEW words, NEW redirections, NEW force, Dynamic(words, force),
           NEW f \in TargetFields,
           f \notin ProcessTargets(executable, words, redirections, force).uncertain
    PROVE  /\ executable \in NetworkExecutables => f \notin Network
           /\ executable \in FileExecutables => f # "file.paths"
<1> DEFINE d == Dynamic(words, force)
           open == ProcessTargets(executable, words, redirections, force).uncertain
<1>1. /\ executable \in NetworkExecutables => OfNetwork(executable, words, d).uncertain \subseteq open
      /\ executable \in FileExecutables => OfFiles(words, d).uncertain \subseteq open
  BY TargetsOpen
<1>2. Network \subseteq OfNetwork(executable, words, d).uncertain
  BY NetworkOpen
<1>3. "file.paths" \in OfFiles(words, d).uncertain
  BY FilesOpen
<1> HIDE DEF d, open
<1>4. QED
  BY <1>1, <1>2, <1>3 DEF open

\* Network and files are found, or left open, as before.
LEMMA NetworkAndFilesStable ==
    ASSUME NEW executable, NEW words, NEW redirections, NEW force, Dynamic(words, force),
           NEW f \in TargetFields,
           f \notin ProcessTargets(executable, words, redirections, force).uncertain,
           executable = "scp" => f # "file.paths",
           NEW others, NEW d, NEW e
    PROVE  /\ executable \in NetworkExecutables =>
                 OfNetwork(executable, others, d).values[f] = OfNetwork(executable, words, e).values[f]
           /\ executable \in FileExecutables =>
                 OfFiles(others, d).values[f] = OfFiles(words, e).values[f]
<1>1. /\ executable \in NetworkExecutables => f \notin Network
      /\ executable \in FileExecutables => f # "file.paths"
  BY OpenWhenDynamic
<1>2. ASSUME executable \in NetworkExecutables
      PROVE  OfNetwork(executable, others, d).values[f] = OfNetwork(executable, words, e).values[f]
  <2>1. f \in TargetFields \ Network
    BY <1>1, <1>2
  <2>2. Empty(OfNetwork(executable, others, d), f)
    BY <2>1, NetworkElsewhere
  <2>3. Empty(OfNetwork(executable, words, e), f)
    BY <2>1, NetworkElsewhere
  <2>4. QED
    BY <2>2, <2>3 DEF Empty
<1>3. ASSUME executable \in FileExecutables
      PROVE  OfFiles(others, d).values[f] = OfFiles(words, e).values[f]
  <2>1. Empty(OfFiles(others, d), f)
    BY <1>1, <1>3, FilesElsewhere
  <2>2. Empty(OfFiles(words, e), f)
    BY <1>1, <1>3, FilesElsewhere
  <2>3. QED
    BY <2>1, <2>2 DEF Empty
<1>4. QED
  BY <1>2, <1>3

\* A field that is not in Unmarked, for whatever xargs adds.
Marked(executable, f) ==
    /\ executable = "git" => f \notin Network
    /\ executable = "scp" => f # "file.paths"

\* With a dynamic word, a field that is not open is one that nothing can find.
LEMMA DynamicStable ==
    ASSUME NEW W, NEW executable, NEW words \in Seq(W), NEW redirections, NEW force,
           HasDynamic(words), NEW f \in TargetFields, Marked(executable, f),
           f \notin ProcessTargets(executable, words, redirections, force).uncertain,
           NEW completed \in CompletedRedirections(redirections), NEW others, NEW none
    PROVE  SameParts(f, executable, others, completed, none, words, redirections, force)
<1> DEFINE d == Dynamic(others, none)
           e == Dynamic(words, force)
           open == ProcessTargets(executable, words, redirections, force).uncertain
<1>1. /\ OfRedirections(redirections).uncertain \subseteq open
      /\ executable = "git" => OfGit(words, e).uncertain \subseteq open
      /\ executable \in DOMAIN PackageVerbs => OfPackages(executable, words, e).uncertain \subseteq open
  BY TargetsOpen
<1>2. /\ executable \in NetworkExecutables =>
            OfNetwork(executable, others, d).values[f] = OfNetwork(executable, words, e).values[f]
      /\ executable \in FileExecutables => OfFiles(others, d).values[f] = OfFiles(words, e).values[f]
  <2>1. Dynamic(words, force)
    BY DEF Dynamic
  <2>2. executable = "scp" => f # "file.paths"
    BY DEF Marked
  <2> HIDE DEF d, e
  <2>3. QED
    BY <2>1, <2>2, NetworkAndFilesStable
<1>3. OfRedirections(completed).values[f] = OfRedirections(redirections).values[f]
  BY <1>1, RedirectionsStable
<1>4. Positionals(words, GitValued).uncertain /\ Positionals(words, {}).uncertain
  BY DynamicIsUncertain
<1>5. {"git.operations", "git.repositories"} \subseteq OfGit(words, e).uncertain
  BY <1>4, GitOpen
<1>6. {"package.operations", "package.names"} \subseteq OfPackages(executable, words, e).uncertain
  BY <1>4, PackagesOpen
<1>7. ASSUME executable = "git"
      PROVE  OfGit(others, d).values[f] = OfGit(words, e).values[f]
  <2>1. f \in TargetFields \ Network /\ f # "git.operations" /\ f # "git.repositories"
    BY <1>1, <1>5, <1>7 DEF Marked
  <2>2. Empty(OfGit(others, d), f)
    BY <2>1, GitElsewhere
  <2>3. Empty(OfGit(words, e), f)
    BY <2>1, GitElsewhere
  <2>4. QED
    BY <2>2, <2>3 DEF Empty
<1>8. ASSUME executable \in DOMAIN PackageVerbs
      PROVE  OfPackages(executable, others, d).values[f] = OfPackages(executable, words, e).values[f]
  <2>1. f # "package.operations" /\ f # "package.names"
    BY <1>1, <1>6, <1>8
  <2>2. Empty(OfPackages(executable, others, d), f)
    BY <2>1, PackagesElsewhere
  <2>3. Empty(OfPackages(executable, words, e), f)
    BY <2>1, PackagesElsewhere
  <2>4. QED
    BY <2>2, <2>3 DEF Empty
<1>9. QED
  BY <1>2, <1>3, <1>7, <1>8, Zenon DEF SameParts

\* Words that begin with others.
Extends(longer, words) == \E W : words \in Seq(W) /\ \E more \in Seq(W) : longer = words \o more

\* With words that xargs adds, operations are those of the words before.
LEMMA AddedStable ==
    ASSUME NEW executable, NEW words, NEW redirections,
           NEW force, Dynamic(words, force), NEW f \in TargetFields, Marked(executable, f),
           f # "git.repositories", f # "package.names",
           f \notin ProcessTargets(executable, words, redirections, force).uncertain,
           NEW completed \in CompletedRedirections(redirections), NEW none,
           NEW others, Extends(others, words)
    PROVE  SameParts(f, executable, others, completed, none, words, redirections, force)
<1> DEFINE d == Dynamic(others, none)
           e == Dynamic(words, force)
           open == ProcessTargets(executable, words, redirections, force).uncertain
<1>1. /\ OfRedirections(redirections).uncertain \subseteq open
      /\ executable = "git" => OfGit(words, e).uncertain \subseteq open
      /\ executable \in DOMAIN PackageVerbs => OfPackages(executable, words, e).uncertain \subseteq open
  BY TargetsOpen
<1>2. e
  OBVIOUS
<1>3. PICK W : words \in Seq(W) /\ \E more \in Seq(W) : others = words \o more
  BY DEF Extends
<1>4. PICK more \in Seq(W) : others = words \o more
  BY <1>3
<1>5. /\ executable \in NetworkExecutables =>
            OfNetwork(executable, others, d).values[f] = OfNetwork(executable, words, e).values[f]
      /\ executable \in FileExecutables => OfFiles(others, d).values[f] = OfFiles(words, e).values[f]
  <2>1. executable = "scp" => f # "file.paths"
    BY DEF Marked
  <2>2. Dynamic(words, force)
    BY <1>2
  <2> HIDE DEF d, e
  <2>3. QED
    BY <2>1, <2>2, NetworkAndFilesStable
<1>6. OfRedirections(completed).values[f] = OfRedirections(redirections).values[f]
  BY <1>1, RedirectionsStable
<1>7. ASSUME executable = "git"
      PROVE  OfGit(others, d).values[f] = OfGit(words, e).values[f]
  <2>1. f \in TargetFields \ Network /\ f # "git.repositories"
    BY <1>7 DEF Marked
  <2>2. CASE f # "git.operations"
    <3>1. Empty(OfGit(others, d), f)
      BY <2>1, <2>2, GitElsewhere
    <3>2. Empty(OfGit(words, e), f)
      BY <2>1, <2>2, GitElsewhere
    <3>3. QED
      BY <3>1, <3>2 DEF Empty
  <2>3. CASE f = "git.operations"
    <3>1. Positionals(words, GitValued).words # <<>>
      BY <1>2, <1>1, <1>7, <2>3, GitOpen
    <3>2. \A x, y : OfGit(words \o more, x).values["git.operations"]
                    = OfGit(words, y).values["git.operations"]
      BY <1>3, <3>1, GitOperationKept
    <3>3. QED
      BY <1>4, <2>3, <3>2
  <2>4. QED
    BY <2>2, <2>3
<1>8. ASSUME executable \in DOMAIN PackageVerbs
      PROVE  OfPackages(executable, others, d).values[f] = OfPackages(executable, words, e).values[f]
  <2>1. f # "package.names"
    BY DEF Marked
  <2>2. CASE f # "package.operations"
    <3>1. Empty(OfPackages(executable, others, d), f)
      BY <2>1, <2>2, PackagesElsewhere
    <3>2. Empty(OfPackages(executable, words, e), f)
      BY <2>1, <2>2, PackagesElsewhere
    <3>3. QED
      BY <3>1, <3>2 DEF Empty
  <2>3. CASE f = "package.operations"
    <3>1. {i \in DOMAIN Positionals(words, {}).words :
             Fold(Positionals(words, {}).words[i].value) \in PackageVerbs[executable]} # {}
      BY <1>2, <1>1, <1>8, <2>3, PackagesOpen
    <3>2. \A x, y : OfPackages(executable, words \o more, x).values["package.operations"]
                    = OfPackages(executable, words, y).values["package.operations"]
      BY <1>3, <3>1, PackageOperationKept
    <3>3. QED
      BY <1>4, <2>3, <3>2
  <2>4. QED
    BY <2>2, <2>3
<1>9. QED
  BY <1>5, <1>6, <1>7, <1>8, Zenon DEF SameParts

\* Without either, all parts but the redirections are given the same.
LEMMA GivenStable ==
    ASSUME NEW executable, NEW words, NEW redirections, NEW force,
           NEW f \in TargetFields,
           f \notin ProcessTargets(executable, words, redirections, force).uncertain,
           NEW completed \in CompletedRedirections(redirections),
           NEW none, Dynamic(words, none) = Dynamic(words, force)
    PROVE  SameParts(f, executable, words, completed, none, words, redirections, force)
<1>1. f \notin OfRedirections(redirections).uncertain
  BY TargetsOpen
<1>2. OfRedirections(completed).values[f] = OfRedirections(redirections).values[f]
  BY <1>1, RedirectionsStable
<1>3. QED
  BY <1>2 DEF SameParts

-----------------------------------------------------------------------------
(* The targets of invocations *)

\* The targets of an invocation are those of what it has kept.
TargetsInv ==
    \A i \in DOMAIN invocations :
        LET inv == invocations[i]
        IN  /\ Listed(inv.words) /\ inv.words # <<>>
            /\ inv.targets = ProcessTargets(inv.executable, Tail(inv.words),
                                            inv.redirections, inv.force)

LEMMA TargetsInit == Init => TargetsInv
<1>1. DOMAIN <<>> = {}
  OBVIOUS
<1>2. QED
  BY <1>1 DEF Init, TargetsInv

LEMMA TargetsStep == TasksInv /\ ChainsInv /\ TargetsInv /\ [Next]_vars => TargetsInv'
<1> SUFFICES ASSUME TasksInv, ChainsInv, TargetsInv, [Next]_vars PROVE TargetsInv'
  OBVIOUS
<1>1. CASE Invoke
  <2> DEFINE task == Head(stack)
             s == StripPrefixes(task.words)
             executable == Basename(s.words[1].value)
             new == Invocation(task, s, executable)
             n == Len(invocations)
  <2>1. /\ DOMAIN invocations' = 1..(n + 1) /\ n \in Nat
        /\ \A i \in 1..n : i \in DOMAIN invocations /\ invocations'[i] = invocations[i]
        /\ invocations'[n + 1] = new
    BY <1>1, InvokeKeeps
  <2>2. stack # <<>> /\ task.kind = "words" /\ s.words # <<>>
    BY <1>1 DEF Invoke, Calls, Executes
  <2>3. Listed(s.words)
    <3> DEFINE words == task.words
    <3>1. words \in Seq(Range(words))
      BY <2>2, HeadFine DEF FineTask, Listed
    <3> HIDE DEF words
    <3>2. StripPrefixes(words) \in StripStates(Range(words))
      BY <3>1, StripPrefixesType
    <3>3. Listed(StripPrefixes(words).words)
      BY <3>2, ListedIn DEF StripStates
    <3>4. QED
      BY <3>3 DEF words
  <2>4. /\ new.words = s.words
        /\ new.targets = ProcessTargets(new.executable, Tail(new.words), new.redirections, new.force)
    BY DEF Invocation
  <2> HIDE DEF task, s, executable, new, n
  <2>5. \A i \in 1..(n + 1) : i \in 1..n \/ i = n + 1
    BY <2>1
  <2>6. QED
    BY <2>1, <2>2, <2>3, <2>4, <2>5 DEF TargetsInv
<1>2. CASE UNCHANGED invocations
  BY <1>2 DEF TargetsInv
<1>3. QED
  BY <1>1, <1>2
     DEF Next, EnterText, RefuseText, WalkProgram, WalkCommand, WalkWord, Vanish, RefuseWords,
         Finish, vars

LEMMA StaticWordsType ==
    ASSUME NEW e \in Expansions
    PROVE  StaticWords(e) \in Seq({StaticWord(text) : text \in Range(e)})
<1> DEFINE W == {StaticWord(text) : text \in Range(e)}
<1>1. e \in Seq(Range(e))
  BY ExpansionsAssumption
<1>2. Len(e) \in Nat /\ DOMAIN e = 1..Len(e) /\ \A k \in 1..Len(e) : e[k] \in Range(e)
  BY <1>1, LenProperties, ElementOfSeq
<1>3. StaticWords(e) \in [1..Len(e) -> W]
  BY <1>2 DEF StaticWords
<1> HIDE DEF W
<1>4. StaticWords(e) \in Seq(W)
  BY <1>2, <1>3, SeqDef
<1>5. QED
  BY <1>4 DEF W

\* One invocation.
LEMMA InvocationStable ==
    ASSUME NEW inv, Listed(inv.words), inv.words # <<>>,
           inv.targets = ProcessTargets(inv.executable, Tail(inv.words), inv.redirections, inv.force),
           NEW words \in Completions(Tail(inv.words)),
           NEW more \in IF inv.force THEN {StaticWords(e) : e \in Expansions} ELSE {<<>>},
           NEW redirections \in CompletedRedirections(inv.redirections),
           NEW f \in TargetFields \ (inv.targets.uncertain \cup Unmarked(inv))
    PROVE  ProcessTargets(inv.executable, words \o more, redirections, FALSE).values[f]
           = inv.targets.values[f]
<1> DEFINE given == Tail(inv.words)
           executable == inv.executable
           force == inv.force
           none == FALSE
           before == inv.redirections
<1>1. given \in Seq(Range(inv.words))
  BY ListedHead, TailType DEF Listed
<1>2. /\ f \in TargetFields /\ Marked(executable, f)
      /\ inv.force => f # "git.repositories" /\ f # "package.names"
  BY DEF Unmarked, Marked
<1>3. f \notin ProcessTargets(executable, given, before, force).uncertain
  OBVIOUS
<1>4. inv.targets.values[f] = ProcessTargets(executable, given, before, force).values[f]
  OBVIOUS
<1> DEFINE Same == SameParts(f, executable, words \o more, redirections, none, given, before, force)
<1>5. ASSUME HasDynamic(given)
      PROVE  Same
  <2> HIDE DEF given, executable, force, none
  <2>1. QED
    BY <1>1, <1>2, <1>3, <1>5, DynamicStable
<1>6. ASSUME ~HasDynamic(given)
      PROVE  words = given
  BY <1>1, <1>6, StaticCompleted
<1>7. ASSUME ~HasDynamic(given), inv.force
      PROVE  Same
  <2>1. PICK e \in Expansions : more = StaticWords(e)
    BY <1>7
  <2> DEFINE V == Range(inv.words)
             X == {StaticWord(text) : text \in Range(e)}
  <2>2. Extends(given \o more, given)
    <3>1. given \in Seq(V) /\ more \in Seq(X)
      BY <1>1, <2>1, StaticWordsType
    <3> HIDE DEF V, X, given
    <3>2. more \in Seq(V \cup X) /\ given \in Seq(V \cup X)
      BY <3>1, SeqMonotonic
    <3>3. QED
      BY <3>2 DEF Extends
  <2>3. Dynamic(given, force) /\ f # "git.repositories" /\ f # "package.names"
    BY <1>2, <1>7 DEF Dynamic
  <2> HIDE DEF given, executable, force, none
  <2>4. SameParts(f, executable, given \o more, redirections, none, given, before, force)
    BY <1>2, <1>3, <2>2, <2>3, AddedStable
  <2>5. QED
    BY <1>6, <1>7, <2>4
<1>8. ASSUME ~HasDynamic(given), ~inv.force
      PROVE  Same
  <2>1. more = <<>> /\ given \o <<>> = given
    BY <1>1, <1>8, ConcatEmptySeq
  <2>2. Dynamic(given, none) = Dynamic(given, force)
    BY <1>8 DEF Dynamic
  <2> HIDE DEF given, executable, force, none
  <2>3. SameParts(f, executable, given, redirections, none, given, before, force)
    BY <1>2, <1>3, <2>2, GivenStable
  <2>4. QED
    BY <1>6, <1>8, <2>1, <2>3
<1>9. Same
  BY <1>5, <1>7, <1>8
<1> HIDE DEF given, executable, force, none
<1>10. ProcessTargets(executable, words \o more, redirections, none).values[f]
       = ProcessTargets(executable, given, before, force).values[f]
  BY <1>2, <1>9, TargetsSame
<1>11. QED
  BY <1>4, <1>10 DEF none, executable

-----------------------------------------------------------------------------
(* Theorems *)

Inv == TasksInv /\ ChainsInv /\ CollectedInv /\ TargetsInv

\* Every task on the stack is a list, or a text, that its action can take: the
\* programs in it parse, and they are nested no deeper than is walked.
THEOREM TasksSound == Spec => []TasksInv
<1>1. Init => TasksInv
  BY TasksInit
<1>2. TasksInv /\ [Next]_vars => TasksInv'
  BY TasksStep
<1>3. QED
  BY <1>1, <1>2, PTL DEF Spec

\* The inductive invariant: all that a command line leads to is collected or
\* still on the stack, unless the line is refused, chains are grounded, and the
\* targets of an invocation are those of its words.
THEOREM InvHolds == Spec => []Inv
<1>1. Init => Inv
  BY TasksInit, ChainsInit, CollectedInit, TargetsInit DEF Inv
<1>2. Inv /\ [Next]_vars => Inv'
  BY TasksStep, ChainsStep, CollectedStep, TargetsStep DEF Inv
<1>3. QED
  BY <1>1, <1>2, PTL DEF Spec

\* What the code has kept is what is run, if it misread no option.
LEMMA KeptPresent ==
    ASSUME NEW words, NEW chain, Kept(words, chain)
    PROVE  Present(words, chain)
<1> DEFINE s == StripPrefixes(words)
           r == Effective(words)
           W == Range(words)
<1>1. s.ok /\ words \in Seq(W)
  BY DEF Kept, Listed
<1>2. r.clear => s.words = r.words /\ s.removed = r.wrappers
  <2> HIDE DEF W
  <2>1. r.clear => SameCommand(s, r)
    BY <1>1, CommandFound
  <2>2. QED
    BY <2>1 DEF SameCommand
<1>3. s.words = <<>> \/ \E i \in DOMAIN invocations :
         invocations[i].words = s.words /\ invocations[i].chain = chain \o s.removed
  BY DEF Kept
<1> HIDE DEF s, r
<1>4. r.clear /\ r.words # <<>> =>
         \E i \in DOMAIN invocations :
            invocations[i].words = r.words /\ invocations[i].chain = chain \o r.wrappers
  BY <1>2, <1>3
<1>5. QED
  BY <1>4 DEF Present, r

\* A command line is collected whole or refused, for all texts and limits, and
\* whatever options the programs have: no command that the shell, the wrappers
\* and the dispatchers run is left out, but for what comes by way of an option
\* that the code misreads.
THEOREM RunIsCollected == Spec => []NothingVanishes
<1>1. Inv => NothingVanishes
  <2> SUFFICES ASSUME Inv, status = "done" PROVE NothingVanishes
    BY DEF NothingVanishes
  <2>1. Range(stack) = {} /\ Collected
    BY ListedNone DEF Inv, CollectedInv
  <2>2. ASSUME NEW words, NEW chain, Pending(words, chain)
        PROVE  Present(words, chain)
    <3>1. Kept(words, chain)
      BY <2>1, <2>2 DEF Pending
    <3>2. QED
      BY <3>1, KeptPresent
  <2>3. ASSUME NEW tokens, NEW chain, \A p \in Programs(tokens) : Accounted(p, chain)
        PROVE  Covered(tokens, chain)
    BY <2>1, <2>2, <2>3 DEF Accounted, Covered, Targets
  <2>4. Covered(input, <<>>)
    BY <2>1, <2>3 DEF Collected
  <2>5. ASSUME NEW i \in DOMAIN invocations, NEW executable, NEW words, NEW chain,
               executable = invocations[i].executable, words = invocations[i].words,
               chain = Append(invocations[i].chain, executable)
        PROVE  /\ \A text \in TextsRun(executable, words) : Covered(text, chain)
               /\ \A ws \in CommandsRun(executable, words) : Present(ws, chain)
    <3> DEFINE led == Dispatched(executable, words, 0, chain)
    <3>1. Listed(words) /\ words # <<>>
      BY <2>5 DEF Inv, TargetsInv
    <3>2. /\ led.ok
          /\ \A task \in Range(led.tasks) :
                IF task.kind = "text" THEN \A p \in Programs(task.tokens) : Accounted(p, chain)
                ELSE Pending(task.words, chain)
      <4>1. Followed(invocations[i])
        BY <2>1 DEF Collected
      <4>2. QED
        BY <2>5, <4>1 DEF Followed
    <3>3. /\ \A text \in TextsRun(executable, words) :
                \E task \in Range(led.tasks) : task.kind = "text" /\ task.tokens = text
          /\ \A ws \in CommandsRun(executable, words) :
                \E task \in Range(led.tasks) : task.kind = "words" /\ task.words = ws
      BY <3>1, <3>2, RunsFound
    <3> HIDE DEF led
    <3>4. QED
      BY <2>2, <2>3, <3>2, <3>3
  <2>6. QED
    BY <2>4, <2>5 DEF NothingVanishes
<1>2. QED
  BY <1>1, InvHolds, PTL

\* The last dispatcher in a chain is an earlier invocation, whose own chain is
\* what comes before it.
THEOREM ChainsFound == Spec => []ChainsGrounded
<1>1. Inv => ChainsGrounded
  <2> SUFFICES ASSUME Inv, NEW i \in DOMAIN invocations
               PROVE  LET chain == invocations[i].chain
                          dispatchers == {k \in DOMAIN chain : chain[k] \in Dispatchers}
                      IN  /\ Range(chain) \subseteq Dispatchers \cup DOMAIN Wrappers
                          /\ \A k \in dispatchers : (\A d \in dispatchers : d \leq k) =>
                                \E j \in 1..(i - 1) : /\ invocations[j].executable = chain[k]
                                                      /\ invocations[j].chain = SubSeq(chain, 1, k - 1)
    BY DEF ChainsGrounded
  <2> DEFINE chain == invocations[i].chain
  <2>1. Grounded(invocations, chain, i - 1)
    BY DEF Inv, ChainsInv
  <2> HIDE DEF chain
  <2>2. Range(chain) \subseteq Dispatchers \cup DOMAIN Wrappers
    BY <2>1, RangeOfSeq DEF Grounded
  <2>3. QED
    BY <2>1, <2>2 DEF Grounded, chain
<1>2. QED
  BY <1>1, InvHolds, PTL

\* A field of the targets of an invocation that is not left open is what it says,
\* whatever the shell makes of the dynamic words, and whatever xargs adds, for
\* all command lines, expansions, options and limits.
THEOREM TargetsStable == Spec => []UncertainOrStable
<1>1. Inv => UncertainOrStable
  BY InvocationStable DEF Inv, TargetsInv, UncertainOrStable
<1>2. QED
  BY <1>1, InvHolds, PTL

=============================================================================
