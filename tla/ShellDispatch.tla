--------------------------- MODULE ShellDispatch ---------------------------
(***************************************************************************)
(* The collection of the invocations that a command line leads to: the     *)
(* tokens of a text become commands (_parse_tokens in shell_parser.py),    *)
(* wrappers are stripped from them, and the commands that shells, xargs,   *)
(* find, watch and eval run are collected in turn (codex_hook.py).  The    *)
(* recursion of the code is a stack of tasks, and each step does what one  *)
(* call does before it makes the next.                                     *)
(*                                                                         *)
(* The lexer is left out: a text stands for its tokens, and the programs   *)
(* in the substitutions of a word for theirs.  The options that have their *)
(* value in the same word stand for all with their prefix.                 *)
(***************************************************************************)
EXTENDS SemanticTargets, FiniteSets

CONSTANTS
    Inputs,         \* bound: the command lines that are evaluated, as tokens
    Tokens,         \* the tokens of the arguments that are run as a command line,
                    \* where the lexer accepts them; a sequence of them is joined
    Unlexed,
    Expansions,     \* bound: what the shell may make of a dynamic word
    Assignments,    \* texts that ENV_ASSIGNMENT matches
    Paths,          \* os.path.basename, for the texts with a "/"
    Keywords,       \* UNSUPPORTED_COMMANDS
    CommandFlags,   \* options of one "-" with a "c"
    Shells,
    Manual,         \* external: what the wrappers, xargs and watch take their options
                    \* for: "alone", "valued" (with the next word) or "carries"
                    \* (with a command in them); other words are operands
    MaxCommands, MaxNesting, MaxDepth

ASSUME BoundsAssumption == {MaxCommands, MaxNesting, MaxDepth, MaxTargets} \subseteq Nat \ {0}
ASSUME ExpansionsAssumption == \A e \in Expansions : e \in Seq(Range(e))

VARIABLES
    input,
    stack,         \* the calls still to be made; the next one is the first
    invocations,   \* with what the properties ask of them: their words (for
                   \* argv), their redirections, and whether xargs adds to them
    status         \* "collecting", "done" or "error" (a PolicyError)

vars == <<input, stack, invocations, status>>

-----------------------------------------------------------------------------
(* shell_parser.py *)

NoOperator == ""
Fresh == [commands |-> <<>>, words |-> <<>>, redirections |-> <<>>,
          pending |-> NoOperator, groups |-> 0, ok |-> TRUE]
Failed(p) == [p EXCEPT !.ok = FALSE]

Flush(p) ==
    IF p.words = <<>> /\ p.redirections = <<>> THEN p
    ELSE [p EXCEPT !.commands = Append(@, [words |-> p.words, redirections |-> p.redirections]),
                   !.words = <<>>, !.redirections = <<>>,
                   !.ok = Len(p.commands) < MaxCommands]

ParseToken(p, t) ==
    CASE ~p.ok -> p
      [] p.ok /\ p.pending # NoOperator ->
           IF t.kind = "word" /\ p.pending \notin {"<<", "<<-"}
           THEN [p EXCEPT !.pending = NoOperator,
                          !.redirections = Append(@, [operator |-> p.pending, target |-> t.word])]
           ELSE Failed(p)
      [] OTHER ->
           CASE t.kind = "redirection" -> [p EXCEPT !.pending = t.operator]
             [] t.kind = "word" -> [p EXCEPT !.words = Append(@, t.word)]
             [] t.kind = "operator" /\ t.operator = "(" ->
                  [p EXCEPT !.groups = @ + 1, !.ok = p.words = <<>> /\ p.redirections = <<>>]
             [] t.kind = "operator" /\ t.operator = ")" ->
                  [Flush(p) EXCEPT !.groups = @ - 1, !.ok = @ /\ p.groups > 0]
             [] t.kind = "operator" /\ t.operator \in {";", "&&", "||", "|", "|&", "&", "newline"} ->
                  Flush(p)
             [] OTHER -> Failed(p)

\* A control construct is found where the executable is, after what the parser
\* takes for assignments, as ENV_ASSIGNMENT does.
IsControl(command) ==
    LET names == SelectSeq(Texts(command.words), LAMBDA v : v \notin Assignments)
    IN  names # <<>> /\ Head(names) \in Keywords

ParseTokens(tokens) ==
    LET parsed[n \in 0..Len(tokens)] ==
            IF n = 0 THEN Fresh ELSE ParseToken(parsed[n - 1], tokens[n])
        p == parsed[Len(tokens)]
        q == Flush(p)
    IN  [q EXCEPT !.ok = /\ p.ok /\ q.ok /\ p.pending = NoOperator /\ p.groups = 0
                         /\ ~\E c \in Range(q.commands) : IsControl(c)]

\* The words of a text, and the programs in their substitutions.
WordsOf(tokens) == {t.word : t \in {t \in Range(tokens) : t.kind = "word"}}
Substituted(tokens) == UNION {Range(w.substitutions) : w \in WordsOf(tokens)}

Inside(programs) == UNION {Substituted(p) : p \in programs}

\* The programs in a text, by how deep they are nested in substitutions.
Nested(tokens) ==
    LET level[k \in 0..(MaxNesting + 1)] == IF k = 0 THEN {tokens} ELSE Inside(level[k - 1])
    IN  level
Programs(tokens) == UNION {Nested(tokens)[k] : k \in 0..(MaxNesting + 1)}

\* parse_shell, which the lexer calls for the substitutions of words.
Parses(tokens, nesting) ==
    \A k \in 0..(MaxNesting + 1) : \A program \in Nested(tokens)[k] :
        nesting + k \leq MaxNesting /\ ParseTokens(program).ok

\* Mutant: the targets of redirections are passed over.
ExpansionWordsPlain(command) == command.words

ExpansionWords(command) ==
    command.words \o [i \in DOMAIN command.redirections |-> command.redirections[i].target]

-----------------------------------------------------------------------------
(* Prefixes and dispatchers *)

\* How a program reads its options: those that take the next word, those that
\* do not (all others, when it is not strict), and those that are refused;
\* and how many operands come before the command.
Reading(strict, valued, plain, operands) ==
    [strict |-> strict, valued |-> valued, plain |-> plain, operands |-> operands,
     refused |-> {}, skipped |-> {}, dash |-> TRUE]
Lax(valued) == Reading(FALSE, valued, {}, 0)

Wrappers ==
    [command |-> Lax({}), builtin |-> Lax({}), nohup |-> Lax({}),
     exec |-> Lax({"-a"}), time |-> Lax({"-f", "-o"}),
     env |-> [Lax({"-u", "--unset", "-C", "--chdir"})
                 EXCEPT !.refused = {"-S", "--split-string"}, !.skipped = Assignments],
     sudo |-> Lax({"-u", "--user", "-g", "--group", "-h", "--host", "-p", "--prompt",
                   "-C", "--close-from", "-T", "--command-timeout", "-R", "--chroot",
                   "-D", "--chdir"}),
     timeout |-> Reading(TRUE, {"-s", "--signal", "-k", "--kill-after"},
                         {"--preserve-status", "--foreground", "-v", "--verbose",
                          "--signal=", "--kill-after="}, 1),
     nice |-> Reading(TRUE, {"-n", "--adjustment"}, {"--adjustment=", "-<digits>"}, 0),
     setsid |-> Reading(TRUE, {}, {"-c", "--ctty", "-f", "--fork", "-w", "--wait"}, 0),
     stdbuf |-> Reading(TRUE, {"-i", "--input", "-o", "--output", "-e", "--error"},
                        {"-i=", "-o=", "-e=", "--input=", "--output=", "--error="}, 0),
     chroot |-> Reading(TRUE, {}, {"--skip-chdir", "--userspec=", "--groups="}, 1)]

\* For xargs and watch, "-" is not an option.
Xargs ==
    [Reading(TRUE,
             {"-E", "--eof", "-I", "--replace", "-J", "--replace-str", "-L", "--max-lines",
              "-n", "--max-args", "-P", "--max-procs", "-R", "--max-replacements",
              "-S", "--max-chars", "-s", "-d", "--delimiter", "-a", "--arg-file"},
             {"-0", "--null", "-o", "--open-tty", "-p", "--interactive", "-r",
              "--no-run-if-empty", "-t", "--verbose", "-x", "--exit", "--eof=", "--replace=",
              "--max-lines=", "--max-args=", "--max-procs=", "--delimiter=", "--arg-file=",
              "-E=", "-I=", "-J=", "-L=", "-n=", "-P=", "-R=", "-S=", "-s=", "-d="}, 0)
        EXCEPT !.dash = FALSE]
WatchDirect == {"-x", "--exec"}
Watch ==
    [Reading(TRUE, {"-n", "--interval"},
             {"-d", "--differences", "-g", "--chgexit", "-t", "--no-title", "-b", "--beep",
              "-e", "--errexit", "-p", "--precise", "-c", "--color", "--interval="}
                 \cup WatchDirect, 0)
        EXCEPT !.dash = FALSE]

Refused == [ok |-> FALSE, rest |-> <<>>, seen |-> {}, end |-> TRUE]

IsOption(value, reading) == value \in (IF reading.dash THEN Options ELSE Options \ {"-"})

\* One option, or what ends the options.
Option(s, reading) ==
    LET value == Head(s.rest).value
        rest == Tail(s.rest)
        More(r) == [s EXCEPT !.rest = r, !.seen = @ \cup {value}]
    IN  IF s.end \/ s.rest = <<>> THEN s
        ELSE IF value \in reading.skipped THEN [s EXCEPT !.rest = rest]
        ELSE IF ~IsOption(value, reading) THEN [s EXCEPT !.end = TRUE]
        ELSE IF value = "--" THEN [s EXCEPT !.rest = rest, !.end = TRUE]
        ELSE IF value \in reading.refused THEN Refused
        ELSE IF value \in reading.valued
        THEN IF rest # <<>> THEN More(Tail(rest)) ELSE [More(rest) EXCEPT !.ok = ~reading.strict]
        ELSE IF value \in reading.plain \/ ~reading.strict THEN More(rest)
        ELSE Refused

\* The words after the options, and the options.
AfterOptions(words, reading) ==
    LET read[n \in 0..Len(words)] ==
            IF n = 0 THEN [ok |-> TRUE, rest |-> words, seen |-> {}, end |-> FALSE]
            ELSE Option(read[n - 1], reading)
    IN  read[Len(words)]

Basename(value) == IF value \in DOMAIN Paths THEN Paths[value] ELSE value

\* One turn of the loop of _strip_prefixes, which does not ask whether a word is
\* dynamic: the words that are left, and the prefixes removed.
Strip(s) ==
    LET first == Head(s.words).value
        name == Basename(first)
        options == AfterOptions(Tail(s.words), Wrappers[name])
        operands == Wrappers[name].operands
        enough == options.ok /\ Len(options.rest) \geq operands
    IN  CASE ~s.ok \/ s.words = <<>> -> s
          [] s.ok /\ s.words # <<>> /\ first \in Assignments -> [s EXCEPT !.words = Tail(@)]
          [] s.ok /\ s.words # <<>> /\ first \notin Assignments /\ name \notin DOMAIN Wrappers -> s
          [] OTHER -> [ok |-> enough,
                       words |-> IF enough THEN SubSeq(options.rest, operands + 1, Len(options.rest))
                                 ELSE <<>>,
                       removed |-> Append(s.removed, name)]

StripPrefixes(words) ==
    LET stripped[n \in 0..Len(words)] ==
            IF n = 0 THEN [ok |-> TRUE, words |-> words, removed |-> <<>>]
            ELSE Strip(stripped[n - 1])
    IN  stripped[Len(words)]

Least(S) == CHOOSE i \in S : \A j \in S : i \leq j

\* _find_exec_commands, word by word: in an action, command has its words so far.
FindWord(s, word) ==
    CASE s.inside /\ word.value \in {";", "+"} ->
           [s EXCEPT !.commands = Append(@, s.command), !.command = <<>>, !.inside = FALSE,
                     !.ok = @ /\ s.command # <<>>]
      [] s.inside /\ word.value \notin {";", "+"} -> [s EXCEPT !.command = Append(@, word)]
      [] ~s.inside /\ word.value \in {"-exec", "-execdir", "-ok", "-okdir"} ->
           [s EXCEPT !.inside = TRUE]
      [] OTHER -> s

FindCommands(words) ==
    LET found[n \in 0..Len(words)] ==
            IF n = 0 THEN [ok |-> TRUE, commands |-> <<>>, command |-> <<>>, inside |-> FALSE]
            ELSE FindWord(found[n - 1], words[n])
        f == found[Len(words)]
    IN  [f EXCEPT !.ok = @ /\ ~f.inside]

\* {} stands for the files that are found.
Expanded(words) ==
    [i \in DOMAIN words |-> [words[i] EXCEPT !.dynamic = @ \/ words[i].value = "{}"]]

TokensOf(text) == IF text \in DOMAIN Tokens THEN Tokens[text] ELSE Unlexed
TextTask(tokens, depth, chain) ==
    [kind |-> "text", tokens |-> tokens, depth |-> depth, chain |-> chain]
ProgramTask(tokens, depth, chain) ==
    [kind |-> "program", tokens |-> tokens, depth |-> depth, chain |-> chain]
CommandTask(command, depth, chain) ==
    [kind |-> "command", command |-> command, depth |-> depth, chain |-> chain]
ExpansionTask(word, depth, chain) ==
    [kind |-> "expansion", word |-> word, depth |-> depth, chain |-> chain]
WordsTask(words, redirections, force, depth, chain) ==
    [kind |-> "words", words |-> words, redirections |-> redirections, force |-> force,
     depth |-> depth, chain |-> chain]

\* What an executable leads to, as tasks of the depth and chain given; or an error.
Leads(tasks) == [ok |-> TRUE, tasks |-> tasks]
NoLead == [ok |-> FALSE, tasks |-> <<>>]

OfShell(words, depth, chain) ==
    LET end == Least({i \in 2..Len(words) : words[i].value = "--"} \cup {Len(words) + 1})
        flags == {i \in 2..(end - 1) : words[i].value \in CommandFlags}
        payload == Least(flags) + 1
    IN  IF flags = {} THEN Leads(<<>>)
        ELSE IF payload > Len(words) THEN Leads(<<>>)
        ELSE IF words[payload - 1].dynamic \/ words[payload].dynamic THEN NoLead
        ELSE Leads(<<TextTask(TokensOf(<<words[payload].value>>), depth, chain)>>)

OfXargs(words, depth, chain) ==
    LET r == AfterOptions(Tail(words), Xargs)
    IN  IF ~r.ok THEN NoLead
        ELSE IF r.rest = <<>> THEN Leads(<<>>)
        ELSE Leads(<<WordsTask(r.rest, <<>>, TRUE, depth, chain)>>)

OfFind(words, depth, chain) ==
    LET r == FindCommands(Tail(words))
    IN  IF ~r.ok THEN NoLead
        ELSE Leads([i \in DOMAIN r.commands |->
                       WordsTask(Expanded(r.commands[i]), <<>>, FALSE, depth, chain)])

OfWatch(words, depth, chain) ==
    LET r == AfterOptions(Tail(words), Watch)
    IN  CASE ~r.ok \/ r.rest = <<>> -> NoLead
          [] r.ok /\ r.rest # <<>> /\ r.seen \cap WatchDirect # {} ->
               Leads(<<WordsTask(r.rest, <<>>, FALSE, depth, chain)>>)
          [] OTHER -> IF HasDynamic(r.rest) THEN NoLead
                      ELSE Leads(<<TextTask(TokensOf(Texts(r.rest)), depth, chain)>>)

OfEval(words, depth, chain) ==
    CASE Len(words) = 1 -> Leads(<<>>)
      [] Len(words) > 1 /\ HasDynamic(Tail(words)) -> NoLead
      [] OTHER -> Leads(<<TextTask(TokensOf(Texts(Tail(words))), depth, chain)>>)

Dispatchers == Shells \cup {"xargs", "find", "watch", "eval"}
ASSUME DispatchersAssumption ==
    /\ Shells \cap {"xargs", "find", "watch", "eval", "parallel"} = {}
    /\ Dispatchers \cap DOMAIN Wrappers = {}

Dispatched(executable, words, depth, chain) ==
    CASE executable \in Shells -> OfShell(words, depth, chain)
      [] executable = "xargs" -> OfXargs(words, depth, chain)
      [] executable = "find" -> OfFind(words, depth, chain)
      [] executable = "watch" -> OfWatch(words, depth, chain)
      [] executable = "eval" -> OfEval(words, depth, chain)
      [] executable = "parallel" -> NoLead
      [] OTHER -> Leads(<<>>)

-----------------------------------------------------------------------------
(* The calls *)

IsText(tokens) ==
    /\ tokens \in Seq(Range(tokens))
    /\ \A w \in WordsOf(tokens) : w.substitutions \in Seq(Range(w.substitutions))

ASSUME TextsAssumption ==
    \A text \in Inputs \cup Range(Tokens) : \A program \in Programs(text) : IsText(program)

Init ==
    /\ input \in Inputs
    /\ stack = <<TextTask(input, 0, <<>>)>>
    /\ invocations = <<>>
    /\ status = "collecting"

Calls(kind) == status = "collecting" /\ stack # <<>> /\ Head(stack).kind = kind

\* _collect_command_string
TextParses(task) ==
    /\ task.depth \leq MaxDepth
    /\ task.tokens # Unlexed
    /\ Parses(task.tokens, task.depth)

EnterText ==
    /\ Calls("text")
    /\ LET task == Head(stack)
       IN  /\ TextParses(task)
           /\ stack' = <<ProgramTask(task.tokens, task.depth, task.chain)>> \o Tail(stack)
    /\ UNCHANGED <<input, invocations, status>>

RefuseText ==
    /\ Calls("text")
    /\ ~TextParses(Head(stack))
    /\ status' = "error"
    /\ UNCHANGED <<input, stack, invocations>>

\* walk_commands: the commands of a program, each before the programs in the
\* substitutions of its words.
WalkProgram ==
    /\ Calls("program")
    /\ LET task == Head(stack)
           commands == ParseTokens(task.tokens).commands
       IN  stack' = [i \in DOMAIN commands |-> CommandTask(commands[i], task.depth, task.chain)]
                    \o Tail(stack)
    /\ UNCHANGED <<input, invocations, status>>

WalkCommand ==
    /\ Calls("command")
    /\ LET task == Head(stack)
           c == task.command
           ws == ExpansionWords(c)
       IN  stack' = <<WordsTask(c.words, c.redirections, FALSE, task.depth, task.chain)>>
                    \o [i \in DOMAIN ws |-> ExpansionTask(ws[i], task.depth, task.chain)]
                    \o Tail(stack)
    /\ UNCHANGED <<input, invocations, status>>

WalkWord ==
    /\ Calls("expansion")
    /\ LET task == Head(stack)
           programs == task.word.substitutions
       IN  stack' = [i \in DOMAIN programs |-> ProgramTask(programs[i], task.depth, task.chain)]
                    \o Tail(stack)
    /\ UNCHANGED <<input, invocations, status>>

\* _collect_command_words, up to the executable
WithinLimits(task) == task.depth \leq MaxDepth /\ Len(invocations) < MaxCommands

\* A command of assignments, prefixes or redirections only.
Vanish ==
    /\ Calls("words")
    /\ WithinLimits(Head(stack))
    /\ LET s == StripPrefixes(Head(stack).words) IN s.ok /\ s.words = <<>>
    /\ stack' = Tail(stack)
    /\ UNCHANGED <<input, invocations, status>>

Executes(task) ==
    LET s == StripPrefixes(task.words)
    IN  s.ok /\ s.words # <<>> /\ ~s.words[1].dynamic /\ s.words[1].value # ""

RefuseWords ==
    /\ Calls("words")
    /\ LET s == StripPrefixes(Head(stack).words)
       IN  ~WithinLimits(Head(stack)) \/ ~s.ok \/ (s.words # <<>> /\ ~Executes(Head(stack)))
    /\ status' = "error"
    /\ UNCHANGED <<input, stack, invocations>>

\* Mutant: the prefixes of a dispatcher are not passed on.
DispatchChainShort(task, s, executable) == Append(task.chain, executable)

\* The chain of what an invocation leads to.
DispatchChain(task, s, executable) == Append(task.chain \o s.removed, executable)

Invocation(task, s, executable) ==
    [executable |-> executable, words |-> s.words, force |-> task.force,
     redirections |-> task.redirections,
     chain |-> task.chain \o s.removed,
     dynamic |-> task.force \/ HasDynamic(Tail(s.words)),
     targets |-> ProcessTargets(executable, Tail(s.words), task.redirections, task.force)]

Invoke ==
    /\ Calls("words")
    /\ LET task == Head(stack)
           s == StripPrefixes(task.words)
           executable == Basename(s.words[1].value)
           led == Dispatched(executable, s.words, task.depth + 1,
                             DispatchChain(task, s, executable))
       IN  /\ WithinLimits(task) /\ Executes(task)
           /\ invocations' = Append(invocations, Invocation(task, s, executable))
           /\ stack' = led.tasks \o Tail(stack)
           /\ status' = IF led.ok THEN status ELSE "error"
    /\ UNCHANGED input

Finish ==
    /\ status = "collecting" /\ stack = <<>>
    /\ status' = "done"
    /\ UNCHANGED <<input, stack, invocations>>

Next ==
    \/ EnterText \/ RefuseText
    \/ WalkProgram \/ WalkCommand \/ WalkWord
    \/ Vanish \/ RefuseWords \/ Invoke
    \/ Finish

Spec == Init /\ [][Next]_vars

-----------------------------------------------------------------------------
(* What the shell and the programs run.  This is written from their manuals, *)
(* not from the code: wrappers take their options as Manual says, then their *)
(* operands, and then run what is left.                                      *)

ASSUME ManualAssumption ==
    /\ DOMAIN Manual = DOMAIN Wrappers \cup {"xargs", "watch"}
    /\ \A p \in DOMAIN Manual : Range(Manual[p]) \subseteq {"alone", "valued", "carries"}
ASSUME OptionsAssumption == "--" \in Options

Kind(p, value) == IF value \in DOMAIN Manual[p] THEN Manual[p][value] ELSE "operand"
OperandsOf(p) == IF p \in {"timeout", "chroot"} THEN 1 ELSE 0

\* What the code takes a word for where it reads the options of p.
ReadingOf(p) == IF p = "xargs" THEN Xargs ELSE IF p = "watch" THEN Watch ELSE Wrappers[p]
TakenFor(value, reading) ==
    IF ~IsOption(value, reading) THEN "operand"
    ELSE IF \/ value \in reading.refused
            \/ reading.strict /\ value \notin reading.valued \cup reading.plain THEN "refused"
    ELSE IF value \in reading.valued THEN "valued"
    ELSE "alone"

\* An option that the code neither refuses nor takes for what it is.
Misread(p, value) == TakenFor(value, ReadingOf(p)) \notin {"refused", Kind(p, value)}

\* p reads a word: r has the words that are left, the options read, whether p is
\* past them, and whether none was misread.  A command that is in an option
\* begins with it, and env takes assignments among its options.
Read(r, p) ==
    LET value == Head(r.rest).value
        rest == Tail(r.rest)
        next == [r EXCEPT !.clear = @ /\ ~Misread(p, value)]
    IN  IF r.past \/ r.rest = <<>> THEN r
        ELSE IF p = "env" /\ value \in Assignments THEN [r EXCEPT !.rest = rest]
        ELSE IF value = "--" THEN [r EXCEPT !.rest = rest, !.past = TRUE]
        ELSE IF Kind(p, value) \in {"operand", "carries"} THEN [next EXCEPT !.past = TRUE]
        ELSE [next EXCEPT !.options = @ \cup {value},
                          !.rest = IF Kind(p, value) = "valued" /\ rest # <<>> THEN Tail(rest)
                                   ELSE rest]

Operands(words, p) ==
    LET read[n \in 0..Len(words)] ==
            IF n = 0 THEN [rest |-> words, options |-> {}, past |-> FALSE, clear |-> TRUE]
            ELSE Read(read[n - 1], p)
    IN  read[Len(words)]

\* The shell passes an assignment, or a wrapper runs what its operands leave.
Enter(s) ==
    LET first == Head(s.words).value
        name == Basename(first)
        r == Operands(Tail(s.words), name)
    IN  IF s.words = <<>> THEN s
        ELSE IF first \in Assignments THEN [s EXCEPT !.words = Tail(@)]
        ELSE IF name \notin DOMAIN Wrappers THEN s
        ELSE [words |-> SubSeq(r.rest, OperandsOf(name) + 1, Len(r.rest)),
              wrappers |-> Append(s.wrappers, name), clear |-> s.clear /\ r.clear]

\* The command that words run, and the wrappers before it.
Effective(words) ==
    LET entered[n \in 0..Len(words)] ==
            IF n = 0 THEN [words |-> words, wrappers |-> <<>>, clear |-> TRUE]
            ELSE Enter(entered[n - 1])
    IN  entered[Len(words)]

\* The texts that a command runs as command lines.  Of a shell, it is the word
\* after the first option with a c.
TextsRun(executable, words) ==
    LET r == Operands(Tail(words), "watch")
        payloads ==
            {i \in 3..Len(words) :
                /\ words[i - 1].value \in CommandFlags
                /\ \A j \in 2..(i - 2) : words[j].value \notin CommandFlags
                /\ \A j \in 2..(i - 1) : words[j].value # "--"}
    IN  IF executable \in Shells THEN {TokensOf(<<words[i].value>>) : i \in payloads}
        ELSE IF executable = "watch" /\ r.clear /\ r.options \cap WatchDirect = {}
        THEN {TokensOf(Texts(r.rest))}
        ELSE IF executable = "eval" /\ Len(words) > 1 /\ words[2].value # "--"
        THEN {TokensOf(Texts(Tail(words)))}
        ELSE {}

\* The words that it runs as commands.  The actions of find are taken as the code
\* delimits them, unless a "+" is not what ends one.
CommandsRun(executable, words) ==
    LET x == Operands(Tail(words), "xargs")
        w == Operands(Tail(words), "watch")
        plain == \A i \in 2..Len(words) : words[i].value = "+" => words[i - 1].value = "{}"
    IN  IF executable = "xargs" /\ x.clear /\ x.rest # <<>> THEN {x.rest}
        ELSE IF executable = "watch" /\ w.clear /\ w.options \cap WatchDirect # {} THEN {w.rest}
        ELSE IF executable = "find" /\ plain
        THEN {Expanded(command) : command \in Range(FindCommands(Tail(words)).commands)}
        ELSE {}

-----------------------------------------------------------------------------
(* Properties *)

\* The command that words run is among the invocations, with the wrappers that
\* it is run by, unless an option of theirs was misread.
Present(words, chain) ==
    LET s == Effective(words)
    IN  s.clear /\ s.words # <<>> =>
            \E i \in DOMAIN invocations :
                invocations[i].words = s.words /\ invocations[i].chain = chain \o s.wrappers

\* All words of a text, and of the programs in its substitutions at any depth,
\* are in their commands, and all these commands are present.
Covered(tokens, chain) ==
    \A program \in Programs(tokens) :
        LET commands == ParseTokens(program).commands
            Targets(c) == {r.target : r \in Range(c.redirections)}
        IN  /\ WordsOf(program) = UNION {Range(c.words) \cup Targets(c) : c \in Range(commands)}
            /\ \A c \in Range(commands) : Present(c.words, chain)

\* A command line is collected whole or refused: no command that the shell and
\* the programs run is left out, however deep it is nested in substitutions,
\* redirections, wrappers and dispatchers.  This is claimed of what is run by way
\* of options that the code takes as their programs do: it is false after one
\* that it misreads, which ADR-0014 would have it refuse, and of "eval --".
NothingVanishes ==
    status = "done" =>
        /\ Covered(input, <<>>)
        /\ \A i \in DOMAIN invocations :
              LET inv == invocations[i]
                  chain == Append(inv.chain, inv.executable)
              IN  /\ \A text \in TextsRun(inv.executable, inv.words) : Covered(text, chain)
                  /\ \A words \in CommandsRun(inv.executable, inv.words) : Present(words, chain)

\* The chains tell where an invocation comes from: the last dispatcher in a
\* chain is an earlier invocation, whose own chain is what comes before it,
\* and all that comes after are wrappers.
ChainsGrounded ==
    \A i \in DOMAIN invocations :
        LET chain == invocations[i].chain
            dispatchers == {k \in DOMAIN chain : chain[k] \in Dispatchers}
        IN  /\ Range(chain) \subseteq Dispatchers \cup DOMAIN Wrappers
            /\ \A k \in dispatchers : (\A d \in dispatchers : d \leq k) =>
                  \E j \in 1..(i - 1) : /\ invocations[j].executable = chain[k]
                                        /\ invocations[j].chain = SubSeq(chain, 1, k - 1)

StaticWord(text) == [value |-> text, dynamic |-> FALSE, substitutions |-> <<>>]
StaticWords(texts) == [i \in DOMAIN texts |-> StaticWord(texts[i])]

\* The words that the shell may make of words.
Completions(words) ==
    LET OfWord(w) == IF w.dynamic THEN {StaticWords(e) : e \in Expansions} ELSE {<<w>>}
        completed[n \in 0..Len(words)] ==
            IF n = 0 THEN {<<>>}
            ELSE {before \o choice : before \in completed[n - 1], choice \in OfWord(words[n])}
    IN  completed[Len(words)]

\* The redirections that it may make of redirections: to a dynamic target, one word.
CompletedRedirections(redirections) ==
    LET open == {i \in DOMAIN redirections : redirections[i].target.dynamic}
        texts == {e[1] : e \in {e \in Expansions : Len(e) = 1}}
        Completed(i, choice) == IF i \in open THEN StaticWord(choice[i]) ELSE redirections[i].target
    IN  {[i \in DOMAIN redirections |->
             [operator |-> redirections[i].operator, target |-> Completed(i, choice)]] :
         choice \in [open -> texts]}

\* The fields that ADR-0015 would have marked, and that the code does not mark:
\* the destination in the repository of git, the local files of scp, and the
\* repositories and packages that xargs adds.
Unmarked(inv) ==
    (IF inv.executable = "git" THEN Network ELSE {})
    \cup (IF inv.executable = "scp" THEN {"file.paths"} ELSE {})
    \cup (IF inv.force THEN {"git.repositories", "package.names"} ELSE {})

\* A field of targets that is not marked as uncertain is what it says,
\* whatever the shell makes of the dynamic words, and whatever xargs adds.
UncertainOrStable ==
    status = "done" =>
        \A i \in DOMAIN invocations :
            LET inv == invocations[i]
                certain == TargetFields \ (inv.targets.uncertain \cup Unmarked(inv))
                added == IF inv.force THEN {StaticWords(e) : e \in Expansions} ELSE {<<>>}
            IN  \A words \in Completions(Tail(inv.words)), more \in added,
                   redirections \in CompletedRedirections(inv.redirections) :
                   LET t == ProcessTargets(inv.executable, words \o more, redirections, FALSE)
                   IN  \A f \in certain : t.values[f] = inv.targets.values[f]
=============================================================================
