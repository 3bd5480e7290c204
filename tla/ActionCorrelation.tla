------------------------- MODULE ActionCorrelation -------------------------
(***************************************************************************)
(* How the observations of one tool call find each other: the identifiers  *)
(* of correlation.py, the trace prefix that PreToolUse puts before a shell *)
(* command, and its removal from what later hooks get and log.             *)
(*                                                                         *)
(* One session, whose SessionStart has been observed.  Its subagents are   *)
(* registered at any time (TraceRegistry), so that two events of one call  *)
(* may be attributed to different actors.  The agent may propose again     *)
(* what it reads in its session history, which holds rewritten commands    *)
(* (docs/decisions/0005-session-trace-environment-propagation.md).         *)
(*                                                                         *)
(* A digest is the record of what it digests.  A command is a sequence of  *)
(* words and of export prefixes; one at its head is a prefix in the sense  *)
(* of sanitize_injected_command, others are just text with tokens in it.   *)
(* The policy injects the environment into every allowed shell command     *)
(* (inject_shell_environment, which is the default).                       *)
(***************************************************************************)
EXTENDS TraceState, Sequences

CONSTANTS
    Calls,       \* tool calls, of Bash or another tool; a tool_use_id names one call
    Turns,       \* turn ids
    Words,       \* commands without prefixes
    Redacted,    \* "[ARS_TRACE_TOKEN]" and "[ARS_ACTOR_TOKEN]"
    MaxLength    \* bound: prefixes and words in a proposed command

ASSUME RedactedAssumption == Redacted \notin Nat
ASSUME LengthAssumption == MaxLength \in Nat

VARIABLES
    record,  \* the trace record of the session
    fresh,   \* the next random identifier
    call,    \* what the harness knows of each call
    log      \* the observations

correlationVars == <<record, fresh, call, log>>

Events == {"PreToolUse", "PermissionRequest", "PostToolUse"}
Stages == {"new", "denied", "allowed", "permitted", "done"}

\* Tokens are those of contexts, possibly redacted.
CorrelationTypeOK ==
    /\ record \in State
    /\ fresh \in Nat
    /\ DOMAIN call = Calls
    /\ \A c \in Calls : call[c].stage \in Stages /\ call[c].actor \in AllActors
    /\ \A o \in log :
          /\ o.call \in Calls /\ o.event \in Events /\ o.exact \in BOOLEAN
          /\ o.actor \in AllActors /\ o.trace \in Nat /\ o.secret \in Nat

CorrelationInit ==
    /\ record = NewState(0)
    /\ fresh = 1
    /\ call \in [Calls -> [stage : {"new"}, actor : AllActors, turn : Turns,
                           shell : BOOLEAN, exact : BOOLEAN, asked : {<<>>}, given : {<<>>}]]
    /\ log = {}

-----------------------------------------------------------------------------
(* Commands *)

Word(w) == [kind |-> "word", word |-> w]

\* inject_trace_environment: the context and the action of the call.  The
\* trace's number stands for its id and its token, the actor's for its token.
Prefix(ctx, action) ==
    [kind |-> "prefix", trace |-> ctx.trace, token |-> ctx.trace, actor |-> ctx.actor,
     secret |-> ctx.token, action |-> action]

IsPrefix(x) == x.kind = "prefix"

\* Mutant: only the token of the session is redacted.
RedactTraceOnly(x, ctx) ==
    IF ~IsPrefix(x) THEN x ELSE [x EXCEPT !.token = IF @ = ctx.trace THEN Redacted ELSE @]

Redact(x, ctx) ==
    IF ~IsPrefix(x) THEN x
    ELSE [x EXCEPT !.token = IF @ = ctx.trace THEN Redacted ELSE @,
                   !.secret = IF @ = ctx.token THEN Redacted ELSE @]

\* Mutant: tokens are redacted, but the prefix stays.
SanitizedInPlace(command, ctx) == [n \in DOMAIN command |-> Redact(command[n], ctx)]

\* sanitize_injected_command: one prefix goes, and from the rest the tokens of
\* the context at hand.
Sanitized(command, ctx) ==
    LET bare == IF command # <<>> /\ IsPrefix(Head(command)) THEN Tail(command) ELSE command
    IN  [n \in DOMAIN bare |-> Redact(bare[n], ctx)]

\* The exports at the head of a command, of which the last one counts.
Exports(command) ==
    {n \in DOMAIN command : \A m \in 1 .. n : IsPrefix(command[m])}
Environment(command) ==
    command[CHOOSE n \in Exports(command) : \A m \in Exports(command) : m <= n]

-----------------------------------------------------------------------------
(* Identifiers *)

\* The input of an event as it is digested: for other tools than Bash as it is.
Digested(c, command, ctx) == IF call[c].shell THEN Sanitized(command, ctx) ELSE command

\* normalize_tool_action: the tool and the digest of its input.
ToolAction(c, command, ctx) ==
    [shell |-> call[c].shell, input |-> Digested(c, command, ctx)]

\* correlate_action
Fingerprint(c, command, ctx) ==
    [trace |-> ctx.trace, turn |-> call[c].turn, actor |-> ctx.actor,
     action |-> ToolAction(c, command, ctx)]

\* Mutant: the tool_use_id is not used.
ActionOfRequest(c, command, ctx, exact) ==
    [trace |-> ctx.trace, of |-> Fingerprint(c, command, ctx)]

\* correlate_action; tool_use_ids and fingerprints never coincide.
ActionOf(c, command, ctx, exact) ==
    [trace |-> ctx.trace, of |-> IF exact THEN c ELSE Fingerprint(c, command, ctx)]

\* Mutant: the observation names the actor of the event.
ObservationByHint(c, event, hint, command, exact) ==
    LET ctx == ContextOf(record, Resolve(record, hint))
    IN  [call |-> c, event |-> event, actor |-> hint, trace |-> ctx.trace,
         secret |-> ctx.token, exact |-> exact,
         action |-> ActionOf(c, command, ctx, exact),
         fingerprint |-> Fingerprint(c, command, ctx),
         stored |-> IF call[c].shell THEN Sanitized(command, ctx) ELSE <<>>]

\* The record of an event that carries the actor hint and the command.
Observation(c, event, hint, command, exact) ==
    LET ctx == ContextOf(record, Resolve(record, hint))
    IN  [call |-> c, event |-> event, actor |-> ctx.actor, trace |-> ctx.trace,
         secret |-> ctx.token, exact |-> exact,
         action |-> ActionOf(c, command, ctx, exact),
         fingerprint |-> Fingerprint(c, command, ctx),
         stored |-> IF call[c].shell THEN Sanitized(command, ctx) ELSE <<>>]

-----------------------------------------------------------------------------
(* Hooks *)

\* register_subagent
SubagentStart(a) ==
    /\ a \notin Known(record)
    /\ record' = Register(record, a, NoActor, fresh)
    /\ fresh' = fresh + 1
    /\ UNCHANGED <<call, log>>

\* An event of a subagent's call carries its id, or none.
Hints(c) == {call[c].actor, NoActor}

\* What the session history shows of the calls.
Seen == {call[c].given : c \in Calls} \ {<<>>}

Proposals ==
    {p \in {<<Word(w)>> : w \in Words} \cup Seen \cup {<<Word(w)>> \o s : w \in Words, s \in Seen} :
        Len(p) <= MaxLength}

\* Mutant: the trace is exported after the command.
RewrittenAtEnd(c, command, o) ==
    IF call[c].shell
    THEN command \o <<Prefix([trace |-> o.trace, actor |-> o.actor, token |-> o.secret], o.action)>>
    ELSE command

\* The input of an allowed call, with the prefix for a shell command.
Rewritten(c, command, o) ==
    IF call[c].shell
    THEN <<Prefix([trace |-> o.trace, actor |-> o.actor, token |-> o.secret], o.action)>> \o command
    ELSE command

PreToolUse(c) ==
    /\ call[c].stage = "new"
    /\ \E hint \in Hints(c), command \in Proposals :
          LET o == Observation(c, "PreToolUse", hint, command, call[c].exact)
          IN  /\ log' = log \cup {o}
              /\ \/ call' = [call EXCEPT ![c].stage = "denied", ![c].asked = command]
                 \/ call' = [call EXCEPT ![c].stage = "allowed", ![c].asked = command,
                                         ![c].given = Rewritten(c, command, o)]
    /\ UNCHANGED <<record, fresh>>

\* It has no tool_use_id, and shows the command as proposed or as rewritten.
PermissionRequest(c) ==
    /\ call[c].stage = "allowed"
    /\ \E hint \in Hints(c), command \in {call[c].asked, call[c].given} :
          log' = log \cup {Observation(c, "PermissionRequest", hint, command, FALSE)}
    /\ \E stage \in {"denied", "permitted"} : call' = [call EXCEPT ![c].stage = stage]
    /\ UNCHANGED <<record, fresh>>

PostToolUse(c) ==
    /\ call[c].stage \in {"allowed", "permitted"}
    /\ \E hint \in Hints(c) :
          log' = log \cup {Observation(c, "PostToolUse", hint, call[c].given, call[c].exact)}
    /\ call' = [call EXCEPT ![c].stage = "done"]
    /\ UNCHANGED <<record, fresh>>

CorrelationNext ==
    \/ \E a \in Actors : SubagentStart(a)
    \/ \E c \in Calls : PreToolUse(c) \/ PermissionRequest(c) \/ PostToolUse(c)

Correlation == CorrelationInit /\ [][CorrelationNext]_correlationVars

-----------------------------------------------------------------------------
(* Properties *)

\* The proposal had no prefix of its own.
Plain(c) == call[c].asked = <<>> \/ ~IsPrefix(Head(call[c].asked))

\* ADR-0009, "Pre- and post-tool observations join exactly": observations with
\* a tool_use_id have the same action id just when they are of one call, also
\* when the call is attributed to another actor in between.
ExactJoin ==
    \A o, p \in log : o.exact /\ p.exact => (o.action = p.action <=> o.call = p.call)

\* ADR-0009, request fingerprints: observations of one call that are attributed
\* to one actor have one fingerprint, whether the command is shown as proposed
\* or as rewritten; and the fingerprints of two shell calls agree only if they
\* asked for the same in the same turn, but for redacted tokens.
RequestJoin ==
    \A o, p \in log :
        /\ (o.call = p.call /\ o.actor = p.actor /\ Plain(o.call)) => o.fingerprint = p.fingerprint
        /\ (o.fingerprint = p.fingerprint /\ Plain(o.call) /\ Plain(p.call)) =>
              LET ctx == [trace |-> o.trace, actor |-> o.actor, token |-> o.secret]
              IN  /\ call[o.call].turn = call[p.call].turn
                  /\ Digested(o.call, call[o.call].asked, ctx) = Digested(p.call, call[p.call].asked, ctx)

\* docs/trace-propagation.md:23: no observation stores the token of its session
\* or of its own actor, wherever in the command they are.
OwnTokensRedacted ==
    \A o \in log : \A n \in DOMAIN o.stored :
        IsPrefix(o.stored[n]) => o.stored[n].token # o.trace /\ o.stored[n].secret # o.secret

\* ARS_ACTION_ID "joins descendants to exact pre/post hook observations"
\* (docs/trace-propagation.md): what an allowed shell command exports to its
\* processes is the action and the actor that PreToolUse has logged for it.
DescendantsJoin ==
    \A c \in Calls :
        (call[c].shell /\ call[c].stage \in {"allowed", "permitted", "done"} /\ Plain(c)) =>
            /\ Exports(call[c].given) # {}
            /\ \E o \in log :
                  /\ o.call = c /\ o.event = "PreToolUse"
                  /\ Environment(call[c].given).action = o.action
                  /\ Environment(call[c].given).actor = o.actor

\* docs/engineering-requirements.md:123, ER-F-034: stored telemetry never
\* contains raw trace or actor tokens, not even of other actors.
NoTokenStored ==
    \A o \in log : \A n \in DOMAIN o.stored :
        IsPrefix(o.stored[n]) => o.stored[n].token \notin Nat /\ o.stored[n].secret \notin Nat
=============================================================================
