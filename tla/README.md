# TLA+ models of Agent Runtime Security

This directory holds TLA+ models of the program in `.agent-runtime-security/`, the TLC runs that
check them on small instances and the TLAPS proofs of what holds for every instance.
`PROJECT.json` lists the runs, which source lines every definition translates, the hazards the
properties are aimed at, the mutants that show that each property can fail, and the theorems.

To check a model, `tlc -config PolicyStoreSafety.cfg MCPolicyStore`; to check the proofs of a module,
`tlapm PolicyStoreProofs.tla`.

## The system

An agent harness (Codex) starts one short-lived process of `codex_hook.py` per lifecycle event and acts on
what it prints. There is no daemon: everything that outlives a process is a file, and several hook processes
and command-line tools are at those files at the same time. A hook process is killed after two seconds
(`.codex/hooks.json`).

| Component | State | Operations | Interacts with | Hard behaviour | Correct if |
| --- | --- | --- | --- | --- | --- |
| Policy store (`policy_ir.py`, `policy compile`) | `rules.json`, `rules.json.lkg`, temporary files | `load_policy`, `write_policy_atomic` | read by every hook and CLI command, written by the compiler, the `.lkg` written by hooks | no lock; read-compare-write of the snapshot; crash and power loss; fallback | loads return a bundle that was active, or one used before; files never torn; reported activations durable; a hook with a valid snapshot finds a bundle, unless a file makes the reading raise what `load_policy` does not catch |
| Trace registry (`trace_context.py`) | a session file per Codex session, `.lock` | `get`, `register_subagent` | called by every hook | lock, rename, kill inside the critical section, damaged file, events in any order | identities never change or get lost, tokens distinct, lineage is a tree, no call hangs |
| Hook process (`codex_hook.py` `run`, `main`) | its draft answer; `events.jsonl`, `detections.jsonl` | parse, load, evaluate, observe, detect, print | all of the above; the harness | exception or kill at any stage, short writes, policy changes between two hooks of one call | no failure becomes permission; logs and answers agree; every call is decided |
| Policy evaluation (`evaluate`, `rule_matches`) | none | match rules, precedence deny > allow > default | targets, threat intelligence | dynamic arguments: the outcome may be undecidable | decides only what no value of the unknown part could change |
| Shell parser and dispatch collection (`shell_parser.py`, `_collect_command_string` of `codex_hook.py`) | the invocations found so far | parse, strip prefixes, follow dispatchers | evaluation, targets | substitutions anywhere, nested executors, limits | every command that is run by way of options the code knows is found or the command line is refused; each knows where it comes from |
| Semantic targets (`semantic_targets.py`) | none | classify arguments | evaluation | words that expand, arguments that `xargs` adds, options that take a value | targets are what the program gets or are marked uncertain |
| Action correlation (`correlation.py`) | none | fingerprints, injection and its removal | registry, logs | the command that ran is not the one that was asked for | pre- and post-events of one call have one id |
| Threat intelligence (`threat_intel.py`) | memo, request budget, warnings | lookup | a remote service | slow, failing and partial answers; the hook's own time limit | no target is asked for twice, gaps follow the failure mode, the hook answers in time |
| Detection events (`detection_event.py`) | none | build one record | hook | | |
| Policy compiler and IR validation (`policy_compiler.py`, `policy_ir.py`) | the rules parsed so far, the current rule | parse, lower, validate | policy store | statements in any order; two tables of operators | a compiled policy says what its source says, and validates |
| Hook installation (`cli.py`) | `hooks.json`, backups | install, uninstall | harness, user | no lock; rewrites a copy read earlier; crash | the handlers of others are preserved; what is written is a whole installation or none |
| CLI readers (`cli.py`) | none | doctor, simulate, status, detections | policy store, logs | | |

`PROJECT.json` says for each whether it is modelled. The hazards (where each of these can go wrong in a way
that tests hardly reach) are listed there line by line.

## Plan

1. **PolicyStore**, the files that every decision rests on, with its proofs. *Done.*
2. **TraceIdentity** and **TraceRegistry**, the promise and the locked implementation, with the refinement
   checked and proved. *Done.*
3. **HookLifecycle**, the processes, their logs and the harness, with its proofs. *Done.*
4. **PolicyEngine**: rule matching with unseen values, the gating of remote lookups, and precedence, judged
   against every completion of the command, with its proofs. *Done.*
5. **ActionCorrelation**: injection, its removal and the fingerprints of one call across its three events,
   with its proofs. *Done.*
6. **ThreatEnrichment**: memo, budget, time and failure modes of the lookups of one hook, with its proofs. *Done.*
7. **HooksInstaller**: install and uninstall as read-modify-write with backups, with its proofs. *Done.*
8. **SemanticTargets** and **ShellDispatch**: from the tokens of a command line to its invocations and their
   targets, with its proofs. *Done.*
9. **PolicyCompiler**: parse states, lowering and validation, with its proofs. *Done.*

What is left: the targets of tool inputs; legacy matchers in hand-written documents.

How the modules fit together: HookLifecycle takes the results of PolicyEngine as its constant `Verdict`; PolicyStore and
TraceRegistry justify the atomic `Load` and `Evaluate` steps of HookLifecycle. The invocations and targets that PolicyEngine
evaluates come from ShellDispatch, which uses SemanticTargets; its lookups, one step there, are those of ThreatEnrichment; a bundle of
PolicyStore is what PolicyCompiler makes, except for hand-written ones.

## Modules

### PolicyStore

`file` and `after` are the two policy files: what a reader gets, and what a power loss may leave. A bundle
that `validate_policy` accepts is a member of `Policies`; what `_read_policy` rejects with a `PolicyValidationError`
is `Bad`; a content on which it raises something else (a `TypeError` where `failure_mode` is a list, a `RecursionError`
where the JSON is very deep) is `Raising`. `load_policy` catches the first kind only, so a loader that meets the second,
in either file, ends as "raised"; the hook then denies, as HookLifecycle has it. A loader goes through `load_policy` (`ReadActive`, `ReadLkg` or `Fallback`) and, when the digests differ, through
`write_policy_atomic` (`MakeTemp`, `WriteTemp`, `Replace`, `SyncDirectory`) on the `.lkg`; a compiler goes
through the same four steps on the active file. `WriteFails` is an `OSError` of any of these system calls: a
loader swallows it, the compiler reports it (`Outcome`). `Oversizes` is the size check of `write_policy_atomic`: a bundle of
`Oversized` fits as it stands, but not as it is indented, so it can be active but never be written. `ReadFails` is an `OSError` of
`stat` or `read_bytes`, which `_read_policy` makes a `PolicyValidationError`. `Kill`, `Edit` and `PowerLoss` are the environment.
A power loss takes each file to one of `after`: a rename adds the new content (or `Bad`, if the temporary
file was not synced), and only the fsync of the directory removes the old.

The action comparing the snapshot with the loaded bundle compares contents, where the code compares SHA-256
digests of the canonical form. `_fsync_directory` returns silently when the directory cannot be opened;
`DirOpens = FALSE` is a system where it never can. Unused temporary files are not modelled.

| Run | Checks | Bounds |
| --- | --- | --- |
| `PolicyStoreSafety.cfg` | `TypeOK`, `LoadedWasActive`, `FallbackJustified`, `NoRejectionOnceShielded`, `DurableActivation`, `NeverTorn` | two loaders, one compiler, three bundles of which one is oversized; one activation, one edit, one fault, one power loss: two hooks overlap with an upgrade and each kind of accident occurs at any step |
| `PolicyStoreLive.cfg` | `LkgConverges` under fairness, without directory fsync | the same processes and bundles; one activation, one edit, one fault: enough for one stale refresh and its repair |

Fairness: a process that has started is scheduled until it ends (weak fairness of `Step`), and hooks keep
being started, which holds as long as the agent proposes calls. Nothing is assumed of compilers, edits and
faults.

`policy compile` says "cannot activate policy" when only the fsync of the directory failed, although the new
bundle is active; the model does the same (`WriteFails` at "dirsync"), and `DurableActivation` speaks of reported
successes only. `NoRejectionOnceShielded` and `LkgConverges` name what the code does not promise: a load may raise after an active file of
the kind `Raising`, and a bundle of `Oversized` never gets a snapshot.

### TraceState, TraceIdentity, TraceRegistry

`TraceState` has the record of a session as values. The random trace ids and tokens are numbers drawn in
order: what matters is that no two draws agree, and the order lets `Rooted` say that parents were registered
first. One draw stands for the id and the token that are made together; `Load` draws two numbers whether or
not both are needed.

`TraceRegistry` is the code: take the lock, load and update, write a temporary file, rename it, unlock.
`get` rewrites the file too, as the code does. `Abort` is the exception path through the `finally` clause.
The operating system releases the lock of a killed process. `Damage` replaces a session file with something
`_load` rejects. `TraceIdentity` is the promise: each call is served at one instant and adds at most the root
actor and the actor it names. `ImplementsIdentity` maps the rename to that instant.

| Run | Checks | Bounds |
| --- | --- | --- |
| `TraceRegistry.cfg` | `TypeOK`, `IdentityStable`, `TokensDistinct`, `LineageRooted`, `ImplementsIdentity`, and `EveryCallEnds` under fairness | two processes, one session, two subagents, three calls, two faults: two calls overlap and a third sees what they left |

Sessions share only the lock and the source of random numbers, so one session has all interleavings; that
tokens and traces of two sessions differ is proved.

Fairness: weak fairness of each process, which includes the acquisition of a free lock. Calls are bounded, so
a waiting process is not overtaken for ever; `flock` itself makes no such promise, and an unbounded stream of
other hooks could delay one until its timeout.

### HookLifecycle

One process per call and event (`PreToolUse`, `PermissionRequest`, `PostToolUse`) goes through the stages of
`run` in their order; the draft of the answer is kept in `answer` and is replaced by `Raise` when an exception
reaches `main`. `Verdict` is what `evaluate` finds for a bundle and a call; observational events are never
denied. `Load` and `Evaluate` are single steps: PolicyStore and TraceRegistry show what happens inside them.
The harness is external and taken as permissive as it may be: without an answer of the hook it may run the
call, ask for permission or give it up.

An event that is not valid JSON has no event name: `main` answers with a system message, the harness cannot
take it for a denial, and `Answered` excludes it, as it excludes killed processes. A call may run in these two
cases, so "no bypass" holds for hooks that answered and knew their event; the properties say so.

The model has detections enabled (`emit_actions` contains "deny", the default), two different log files and
trace injection on, which are the defaults of `runtime.json`.

| Run | Checks | Bounds |
| --- | --- | --- |
| `HookLifecycle.cfg` | `TypeOK`, `DispatchWasAllowed`, `ObservationMatchesAnswer`, `DetectedNeverRuns`, `DetectionHasObservation`, `DenialFullyReported`, and `EveryCallIsDecided` under fairness | two calls, two bundles that disagree on both, a denial by two rules, one policy change, two faults |

Fairness: every hook process is scheduled and the harness goes on with every call; the user's answer to a
permission request is part of the harness step.

Deadlock is not checked in TraceRegistry and HookLifecycle: all calls end and the bounded system stops.

### ActionCorrelation

One session whose calls go through `PreToolUse`, `PermissionRequest` and `PostToolUse`, while subagents register.
The specification is named `Correlation`, and its parts `CorrelationInit` and so on, so that its proofs can stand beside those of
TraceRegistry. `TraceState` gives the record of the session (`record`) and the fallback to the root actor; an event of a subagent's call may
carry its id or not (`Hints`), so two events of one call may have two actors. A command is a sequence of words
and export prefixes, a prefix the record of what it exports, a digest the record of what it digests: digests
never collide. Agents may propose what stands in the session history, alone or after a word (`Proposals`), since
ADR-0005 says that rewritten commands show there; `MaxLength` bounds how often that is repeated. A permission
request has no `tool_use_id`, and may show the command as proposed or as rewritten: the documentation does not say
which.

| Definition | Code |
| --- | --- |
| `Prefix`, `Rewritten` | `inject_trace_environment`, `_allow_with_command` |
| `Sanitized`, `Redact` | `sanitize_injected_command`: one prefix goes, then the tokens of the context at hand |
| `Digested`, `ToolAction` | `event_for_action_correlation`, `normalize_tool_action` |
| `Fingerprint`, `ActionOf` | `correlate_action` |
| `Observation` | the record that `run` appends |

Injection is on (`inject_shell_environment`, the default). The verdict on a call is a free choice here; how
hooks decide is in HookLifecycle and PolicyEngine.

| Run | Checks | Bounds |
| --- | --- | --- |
| `ActionCorrelation.cfg` | `CorrelationTypeOK`, `ExactJoin`, `RequestJoin`, `OwnTokensRedacted`, `DescendantsJoin` | two calls of either kind of tool, root or subagent, same turn or not, with a `tool_use_id` or not; commands of three parts: a rewritten command is quoted, rewritten and quoted again |
| `ActionCorrelationTokens.cfg` | finds `NoTokenStored` violated | the same |

`RequestJoin` and `DescendantsJoin` are about proposals that do not start with a prefix of their own (`Plain`).
Without that they fail, in the model and in the code: of two prefixes only one is stripped, so the events have two
fingerprints, and the inner `export` wins, so processes inherit the action id of the earlier call.

A finding. Only the tokens of the observing context are redacted: a command that quotes what another actor ran
is stored with that actor's token, against ER-F-034.

Deadlock is not checked: the calls end.

### PolicyEngine

One evaluation of a preventive or observed event. `event` and `invocations` are what the parser and the target
extraction found: per field a scalar, a list (as a set: no operator sees the order), nothing, or a value of
another type. A field of an invocation is in `uncertain` when the code marks it so: `process.args` with
`dynamic_arguments`, the targets with `uncertain_fields`, the threat fields with `threat.uncertain`.

| Definition | Code |
| --- | --- |
| `Holds` | `_predicate_matches`; scalar operators stand for the set of texts that they accept |
| `Try`, `TryAll` | the loop over the invocations in `_compiled_conditions_match`, and `_invocation_matches` |
| `Compiled`, `RuleVerdict` | `_compiled_conditions_match`, `rule_matches`; "undecided" is a raised `PolicyError` |
| `EnrichInvocation`, `EnrichTool` | `_enrich_policy_gated_targets`, one turn of its loop and its second part |
| `Lookup`, `Tolerated`, `Answers` | `VirusTotalEnricher.lookup`, with any subset of the lookups failing |
| `Observe`, `Start`, `MatchRule`, `Decide` | `evaluate` |

`threat.verdicts` stands for all threat fields. A failed lookup may be a limit, a missing key, a timeout or a
bad answer. In closed mode the code stops at the first failure and the model after all lookups of the
invocation, so `asked` may hold more than was asked for; the memo is not modelled, so the same destination may
fail once and be answered once. Case sensitivity is left out.

What the shell may make of the command is `Expanded`: any unseen texts in the uncertain fields. `Meets` is the
meaning of a rule in docs/policy-compiler.md, `Ruling` its precedence; they are written without the three
verdicts of the code. `DecisionExact` compares: a decision that is returned is the ruling on every expansion.
`ErrorsAreRelevant` is the other side: no exception about an unrelated command.

| Run | Checks | Bounds |
| --- | --- | --- |
| `PolicyEngineSafety.cfg` | `TypeOK`, `DecisionExact`, `ContactJustified`, `ReportsComplete`, `ErrorsAreRelevant` | three texts, pairs of rules of all kinds, one or two invocations of which one is dynamic, all failures: every order of a match, a doubt and a miss in both loops |
| `PolicyEngineFragments.cfg` | finds `DynamicWordsFailClosed` violated | one invocation with a word that is a literal and an expansion |

Deadlock is not checked: an evaluation ends.

A finding. The literal part of a dynamic word counts as an argument (`git status$X` matches a rule on
"status"), so the code may allow what it cannot know.

### ThreatEnrichment

The lookups of one hook process. `lookup` is called once per invocation and once for the tool; `calls` are the
targets of each of these calls, and all share the memo, the budget and the time of the process. PolicyEngine
has which targets are selected and what the rules make of the reports; here is what happens in between, target by target.

| Definition | Code |
| --- | --- |
| `Normal` | `normalize_indicator`, given as a function: several spellings of one host, and texts that are no host |
| `InvalidTarget`, `Memoized`, `Unable`, `Ask` | the returns of `_lookup`, in their order |
| `GiveUp` | `_failure`: a `ThreatIntelError` in closed mode, a warning and an empty report in open mode |
| `Confidence`, `Verdict`, `Report` | `_parse_response`, `_result`, with the rounding of Python |
| `Merge`, `Take` | `merge_matches` |
| `Kill` | the harness, when the hook has run for `timeout` |

An answer is a valid set of counts, a 404, what the code turns into a `ThreatIntelError` (`Failed`), or an exception that
`_lookup` does not catch (`Broke`, for instance a connection cut in the middle of the body), which ends the evaluation in both modes.
Time passes in requests only. `timeout_ms` bounds each socket operation and not the whole request, so `Slowest` is a
constant of its own.

| Run | Checks | Bounds |
| --- | --- | --- |
| `ThreatEnrichment.cfg` | `AskedOnce`, `GapsAreKnown`, `AnswersInTime` | five targets, of which two are one host and one is no host, in up to three calls that repeat targets of each other; two requests, so that the budget is spent in the middle of a call; a unit of 500 ms, requests of up to three units, a hook that has four (2 s, where the harness may kill it) or six (where two slow requests fit) |

`AnswersInTime` has the relation of budget and time as its precondition, since the code does not enforce it (see "Known
differences"). There is no liveness: that a process goes on is in HookLifecycle. Deadlock is not checked: the evaluation ends.

### PolicyCompiler

`parse_policy` reads one line per step, then `compile_rule` lowers one rule per step and `validate_policy` judges the
result. A line is what the keyword, the expression for conditions and `ast.literal_eval` make of it; a line they do not
accept is of kind "other". The settings are one value: fine, with a reserved key, or such that only `validate_policy` rejects them.

| Definition | Code |
| --- | --- |
| `Accepts`, `Amended`, `Default`, `OpenRule`, `CloseRule`, `Statement`, `Refuse` | `parse_policy` and its statements |
| `ValueFits`, and `long` of a line | `_condition_value`, which limits the literal as a whole |
| `EndOfSource` | the checks after the last line |
| `Lowered`, `CompilerAllows`, `CompileRule` | `compile_rule` with its own table of operators |
| `RuntimeAllows`, `ValidCondition`, `ValidRule`, `ShortRule`, `Gated`, `Validates` | `validate_policy` with its tables and lengths |
| `RuntimeHolds` | `_predicate_matches`, on the operators that lowering yields |

`Meant` is the meaning of the simple operators in docs/policy-compiler.md, written without the lowering. `Faithful` says
that a lowered condition holds of just the values that the source's condition means; for `tool.input.*`, whose
values have any shape, on the shapes that the lowering chosen is for (`Foreseen`).

| Run | Checks | Bounds |
| --- | --- | --- |
| `PolicyCompiler.cfg` | `SourceKept`, `LateRejectionsKnown` | all sources of up to eight lines over five vocabularies: order of rules and defaults, of statements in a rule, of all kinds of conditions, gates, and copied texts with the lengths that only the validator limits. Eight lines hold two whole rules, a default and a rule with repeated statements, or a rule with all its conditions and statements amended. Texts: a pattern and its escaped form, one that is no pattern (and as a category too long), one too long |

A policy that the compiler has checked may still be rejected by `validate_policy`, so that `policy compile` fails late:
for settings that only the validator looks into, a missing or doubled gate, or a length that only it limits. These are the lengths of the
source's name, of a message, title, description, version or category, of a field of `tool.input.*`, and of a text of `CONTAINS` once it
is escaped. `LateRejectionsKnown` says that there is no other reason, for the policies that the model's statements can make. Deadlock is not checked: a compilation ends.

### SemanticTargets, ShellDispatch

`ShellDispatch` goes from the tokens of a command line to its invocations. The recursion of `_collect_command_string` and
`_collect_command_words` is a stack of tasks: `EnterText` parses a text, `WalkProgram`, `WalkCommand` and `WalkWord` are the generator
that yields its commands and those in their substitutions, `Invoke` strips the prefixes of a command, records it and puts what it
dispatches (`OfShell`, `OfXargs`, `OfFind`, `OfWatch`, `OfEval`) on top.
A task that the code refuses ends in "error", as its `PolicyError` does. `SemanticTargets` has the targets of an
invocation and the fields that the code marks as uncertain.

| Definition | Code |
| --- | --- |
| `ParseToken`, `Flush`, `ParseTokens` | `_parse_tokens` |
| `Nested`, `Programs`, `Parses` | `parse_shell` with its nesting |
| `WalkProgram`, `WalkCommand`, `WalkWord` | `walk_commands`, one turn of each of its loops |
| `Wrappers`, `Option`, `AfterOptions`, `Strip`, `StripPrefixes` | `_strip_prefixes` and its tables of options |
| `Xargs`, `Watch`, `FindCommands`, `Dispatched` | `_xargs_command`, `_watch_command`, `_find_exec_commands` and the end of `_collect_command_words` |
| `Positional`, `Positionals` | a turn of the loop of `_static_positionals`, and the loop |
| `Destinations` | the URLs and hosts that `extract_process_targets` makes of the words that name destinations |
| `OfNetwork`, `OfFiles`, `OfGit`, `OfPackages`, `ProcessTargets` | `extract_process_targets` |
| `BoundedUnique` | `_bounded_unique` |
| `Manual`, `Operands`, `Enter`, `Effective`, `TextsRun`, `CommandsRun` | not the code: what the shell and the programs do, written from their manuals |

The loops of the code are functions from the number of turns, which the prover takes; `RECURSIVE` operators it does not.
The lexer is left out: a text that a dispatcher runs stands for its tokens (`Tokens`), and the programs in the substitutions of a word for theirs.
`"--eof="` and the like stand for all options with their value in the same word. `Completions` is what the shell may make
of dynamic words: nothing, one word or several, options among them; of the target of a redirection it makes one word (`CompletedRedirections`).

| Run | Checks | Bounds |
| --- | --- | --- |
| `ShellDispatch.cfg` | `NothingVanishes`, `ChainsGrounded`, `UncertainOrStable` | 4154 command lines: each of twelve prefixes before each of 67 cores, and pairs of commands with an operator between them, in a group or not; the cores have each dispatcher and family of targets, well-formed, malformed and with words that expand. Five commands, three levels of nesting and two targets per field, so that each limit is met and exceeded |

`NothingVanishes` compares the invocations with what the shell and the programs run, and not with what the code takes off and follows: no
word of a text is in none of its commands, and each command, substitution and dispatched text has its invocations, those in redirections too.
`Manual` says, per program, which options stand alone, take the next word as their value, or carry a command; `Effective` strips a command as its
wrappers do, and `TextsRun` and `CommandsRun` are what dispatchers run. The property is claimed as long as the code takes each option
on the way for what it is, or refuses it (`Misread`); after an option that it takes for something else nothing is claimed, and the run has such
options, for which the property would be false (below). The reference has its own simplifications: words are judged as they
are written, so what a dynamic word among the options may become is not asked; the actions of `find` are delimited as the code does it, and claimed
where each "+" follows "{}"; the text that a shell runs is the word after its first option with a "c"; an assignment after any wrapper is
passed over, as `env` does. `UncertainOrStable` excludes the
three cases of `Unmarked`, which are differences from the documentation (below). Deadlock is not checked: the collection ends.

### HooksInstaller

Each run of `install` or `uninstall` goes through `Read` (with `_merged_hooks` or `_remove_agent_runtime_security_groups`),
`Backup`, `MakeTemp`, `Write` and `Replace`; a file that holds `null` is installed over like a missing one, after a backup. `Fail` is an `OSError` of any of these, with the `finally` clause that removes the
temporary file. `Edit` is the user, the harness or a program that writes hooks.json; nothing in the code locks it.
A document gives each event its groups of handlers. A group is known by who made it, so that the groups of two runs
are two even when they are equal.

| Definition | Code |
| --- | --- |
| `Stripped` | `_remove_agent_runtime_security_groups` |
| `Installable`, `Merged` | `_merged_hooks` |
| `AfterRead` | the branches of `command_install` and `command_uninstall` |
| `Contents` | what `_read_json` accepts and rejects |
| `DoctorPasses` | `_hook_checks` |

| Run | Checks | Bounds |
| --- | --- | --- |
| `HooksInstaller.cfg` | `WholeInstallation`, `ReplacementsAccounted` | two runs, each of any kind; nine files, among them none, unusable ones and an older installation beside and inside other groups; two writes by the user and one fault: a run overlaps with another run and an edit, each at any step |

`ReplacementsAccounted` is what the code can promise without a lock: it loses or revives a handler of another program only if the file was written
since it was read, and the content it replaces is in a backup unless it was written after the backup. The two runs are
interchangeable, so `SYMMETRY` is used; there are no liveness properties. Deadlock is not checked: the runs end.

## Proofs

The proofs are for every set of processes, bundles, sessions, actors and calls and for all bounds. Each proof
module states an inductive invariant (`Inv`, `IInv`), which TLC checked first, proves that it holds initially and that
each action keeps it, and derives the properties.

* **PolicyStoreProofs.** `Inv` ties each stage of a process to what it holds: a loader past the check of the
  active file holds a bundle it has seen there (`HoldsAccepted`), a renamed file was complete
  (`WritesValid`), a fallback has seen a bad active file (`FellBack`), the `.lkg` only ever holds loaded
  bundles, also after a crash (`LkgWasLoaded`), what is current survives (`CurrentSurvives`), and only a load that has seen a `Raising`
  active file, or whose `.lkg` was damaged, raises. Proved:
  `TypeOK`, `LoadedWasActive`, `FallbackJustified`, `NoRejectionOnceShielded`, `DurableActivation`, `NeverTorn`.
* **TraceProofs**, on the registry. A process in the critical section holds the lock, so the record it prepared
  extends the one its session still has (`PreparedFromCurrent`). All drawn numbers lie below `nextId`, so the
  records have no token twice, nor will they when a prepared record is put in place (`DistinctInv`). Proved:
  `TypeOK`, `MutualExclusion`, `IdentityStable`, `TokensDistinct`, `LineageRooted` and the refinement
  `Spec => ImplementsIdentity`.
* **TraceProofs**, on correlation. A shell call runs what it asked for after the prefix that one of its `PreToolUse`
  observations tells (`GivenAsAsked`), and sanitizing takes that prefix off again (`SanitizedPrepended`), so an
  observation has the identifiers of the request however the event shows it (`LogOK`); registrations leave the
  contexts of known actors alone. Proved, for commands of any length: all properties of `ActionCorrelation.cfg`. Both specifications
  rest on the lemmas about session records, and so they share a module.
* **HookLifecycleProofs.** `StageSound` says which draft belongs to which stage, `HarnessSound` that no call
  is past a denial, `LogsSound` and `ReportSound` what the logs say of the process that wrote them. Proved:
  all properties of `HookLifecycle.cfg` but the last.
* **PolicyEngineProofs.** An unseen text can end a `HAS_NONE` and begin any other match (`HoldsGrows`); so the
  verdict on one invocation (`TryExact`), on all (`TryAllExact`) and on a rule (`RuleExact`) is exact unless it
  is "undecided", and `Inv` says that `matches` is always what the rules passed so far find on every expansion
  (`MatchesExact`). For the lookups, `LookupInv` adds that every enriched invocation has what its rules call
  for (`Complete`) and that every lookup has a rule behind it that surely holds (`Calls`). Proved: all five
  properties of `PolicyEngineSafety.cfg`.
* **ThreatEnrichmentProofs.** Whatever was asked for is in the memo, once, and was counted (`RequestsCounted`); the memo's failures
  have left a warning, and only in open mode (`MemoSound`); what a call has merged is what the memo has for its targets so far (`GapsKnown`);
  the clock is at most `Slowest` per request (`TimeSpent`). Proved: `AskedOnce`, `GapsAreKnown`, `AnswersInTime` for all calls,
  limits, latencies and responses; and `TypeOK`, for which the rounding of `_result` must keep confidences between 0 and 100 (`RoundedShare`).
* **ShellDispatchProofs.** `TasksInv` says that what the parser accepted stays so while it is walked: no program is nested deeper than
  `MaxNesting`, so `Programs` has all that the walk meets. `CollectedInv` is the promise kept by the stack: each program, command and
  dispatched text that the line leads to is either collected or behind a task, with the chain that leads to it (`Pending`, `Accounted`,
  `Followed`); that the code's reading of a command leads to what the manuals say, as long as no option is misread, is proved program by
  program (`OptionReadAlike`, `OperandsFound`, `Entered`, `CommandFound`, `RunsFound`); every action passes the promise of the task it takes off to the tasks it puts on (`Passes`). `ChainsInv` says that the last
  dispatcher of a chain is an invocation made before (`Grounded`), for which stripped prefixes must not be dispatchers. That no word of a text
  is lost between its tokens and its commands is an invariant of the loop in `ParseTokens`. The loops are recursive functions, whose values
  the prover does not know; `Iterates` gives them, by a least counterexample (`UpTo`).
  For the targets, `TargetsInv` says that they are those of the words and redirections that the invocation has kept. Their stability is a matter of
  the five parts of `ProcessTargets` (`SameParts`, `TargetsSame`): a dynamic word leaves all positionals open (`DynamicIsUncertain`), so that
  a field is open in its part or nothing is found in it (`GitElsewhere` and the like); words that xargs adds leave the positionals before them as
  they are (`PositionalsGrow`), and with them the operation, unless it was open (`GitOperationKept`, `PackageOperationKept`).
  Proved: `NothingVanishes`, `ChainsGrounded`, `UncertainOrStable` for all command lines, nestings, manuals, expansions and limits.
* **HooksInstallerProofs.** `Inv` says that a run past its reading holds a document that is its operation's result
  (`MergedIsInstalled`), that nobody wrote what it read unless the version moved on, and that a backup made at the current version
  has the current content. Proved: `TypeOK`, `WholeInstallation`, `ReplacementsAccounted` for any number of runs,
  edits, events and groups; `OnlyKillsLitter` (only killed runs leave temporary files); and `Reversible`: installing and uninstalling
  leaves the handlers of others as they were, and none of the program.
* **PolicyCompilerProofs.** `LoweringFaithful`: whatever `compile_rule` accepts means the same after lowering, for all texts, fields and patterns,
  from the one assumption that an escaped text finds as a pattern what contains the text. `Inv` says what the parser has
  checked of every closed rule and the lowering of every compiled one; of all that `validate_policy` asks, only what `LateRejectionsKnown`
  lists is not among it. `SourceInv` says what each line read so far has left in the rules, through the order of the lines that belong to a rule
  (`Says`). Proved: `TypeOK`, `SourceKept`, `LateRejectionsKnown`.

Assumptions are the ones named in the modules: model values differ, bounds are natural numbers, `Verdict` is
a function into `Verdicts`, policies are what `validate_policy` accepts, uncertain values and expansions are lists, a text is a finite sequence of tokens
however deep its substitutions are followed, and no program is a wrapper and a dispatcher, or a shell and one of the named dispatchers.

Only model-checked: the liveness properties `LkgConverges`, `EveryCallEnds` and `EveryCallIsDecided`, since liveness under fairness is beyond
the prover. What `BoundedUnique` keeps of many values is a fold over data: no theorem says more of it than that it is a function of them.

## Known differences from the documentation

Two runs expect a violation and show a difference directly: `PolicyEngineFragments.cfg` and `ActionCorrelationTokens.cfg`. The others below
are behaviours of the models that no property forbids.

* A hook that read bundle v1 and was delayed while v2 was activated and snapshotted overwrites the snapshot with v1
  (`policy_ir.py:488-494`); until the next load repairs it, the fallback is v1 and not the last known good bundle
  (docs/engineering-requirements.md:146). `LkgConverges` shows the repair.
* docs/runtime-policy.md:59 has the loader try the snapshot whenever "the active bundle cannot be read or validated", and README.md:132
  whenever it is malformed. `load_policy` does so for a `PolicyValidationError` only: an active file with `"failure_mode": []` (a `TypeError`,
  `policy_ir.py:340`) or very deep JSON (a `RecursionError`) makes every load raise with a valid snapshot at hand, and such a snapshot makes the loads
  of a valid active bundle raise (`policy_ir.py:486-491`). The hooks deny meanwhile. `NoRejectionOnceShielded` says that nothing else does this.
* docs/runtime-policy.md:57 has the snapshot refreshed when a different bundle loads. A bundle below 1 MiB whose indented form is above it
  loads, but its refresh raises each time and is swallowed (`policy_ir.py:425`, `495`), so the fallback stays what it was.
* ADR-0014 has dispatchers "fail closed on unknown or runtime-dependent results". The option tables of `_strip_prefixes` and
  `_xargs_command` differ from the programs for some options, such as long forms with an attached or optional value, and `eval` takes `--` for
  part of its text. A command line with one of these may be collected wrongly instead of being refused; `NothingVanishes` says
  that there is no other way, within the simplifications named there.
* Detections are appended one by one before the answer is printed (`codex_hook.py:1343`). If the second append raises, the call is
  denied for the failure and the first detection stays, against ER-F-043.
* A short write of a record is not noticed (`codex_hook.py:1115`): the next record continues its line.
* In open mode a failed lookup leaves an empty list, on which `threat.verdicts HAS_NONE [...]` matches
  (`threat_intel.py:131`); docs/threat-intelligence.md:32 and docs/engineering-requirements.md:98 exclude it.
* With the default of four requests of up to 1500 ms each, the lookups may take longer than the two seconds that `.codex/hooks.json` gives a
  hook. A hook that is killed does not deny, though docs/threat-intelligence.md:32 says that the closed mode denies when a
  required lookup cannot complete. `AnswersInTime` has the condition under which this cannot happen.
* A write of hooks.json between the reading and the renaming of an `install` is lost from the file. It is in the backup if it
  came before that was made, and nowhere if it came later; ADR-0018 has unrelated configuration preserved.
* ADR-0015 has every target marked that a dynamic value can change. The code does not mark the destination in the repository of
  git, the local files of `scp`, and the repositories and packages that `xargs` adds (`Unmarked`). `watch -x` under `xargs` loses
  the mark for what `xargs` adds, and a prefix option with a dynamic value (`sudo -u"$X"`) is read by its static part.
* `_bounded_unique` drops targets past its limit, and overlong ones, without a mark.
* A command of redirections or assignments only has no invocation, so the files it writes are no targets.
* Of two injected prefixes only one is stripped; see ActionCorrelation.
* Rules with both threat.* and tool.threat.* matchers are legal, but their tool destinations are never looked up.

## Not modelled

The launcher, the benchmark, the smoke test and the schemas: no logic of their own. Of the modelled components:

* the lexer of `shell_parser.py` (quotes, escapes, here-documents): its grammar is over characters, and ShellDispatch starts from its tokens;
* the targets of tool inputs (`extract_tool_targets`, `extract_typed_tool_targets`), which walk values of any shape for known keys;
* the layout of detection records and of what the command line prints, wording, file modes, hash functions;
* hand-written policies with legacy matchers, which are only accepted or rejected (PolicyStore);
* temporary files that a kill leaves beside the policy, which nothing reads; and a power loss under the trace registry, after
  which the session's processes are gone as well.
