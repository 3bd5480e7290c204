--------------------------- MODULE HookLifecycle ---------------------------
(***************************************************************************)
(* The lifecycle of proposed tool calls.  The harness starts one process   *)
(* of codex_hook.py per hook event; the processes share the policy files   *)
(* and the two append-only logs and nothing else.  Each process loads a    *)
(* bundle, evaluates the event, drafts its answer, appends an observation, *)
(* appends one detection per matching deny rule, and only then prints its  *)
(* answer.  Any exception on the way replaces the draft (main).            *)
(*                                                                         *)
(* Loading is one step here: PolicyStore shows what a load returns while   *)
(* files change under it.  So is the trace context: TraceRegistry shows    *)
(* that a registry call takes effect at one instant.                       *)
(***************************************************************************)
EXTENDS Naturals, FiniteSets

CONSTANTS
    Calls,         \* tool calls that the agent proposes
    ShellCalls,    \* those of the Bash tool, whose command is rewritten
    Bundles,       \* validated policy bundles
    Bad,           \* a policy file that load_policy rejects
    Verdict,       \* what evaluate finds for a bundle and a call
    MaxRules,      \* bound: deny rules of a bundle that match one call
    MaxChanges,    \* bound: changes of the policy files
    MaxFaults      \* bound: exceptions, short writes and kills

Verdicts ==
    [action : {"allow"}, rules : {0}]               \* no deny rule matches
      \cup [action : {"deny"}, rules : 0 .. MaxRules] \* 0: denied by default
      \cup [action : {"error"}, rules : {0}]          \* evaluate raises

ASSUME CallsAssumption == ShellCalls \subseteq Calls
ASSUME BadAssumption == Bad \notin Bundles
ASSUME VerdictAssumption == Verdict \in [Bundles -> [Calls -> Verdicts]]
ASSUME BoundsAssumption == MaxRules \in Nat /\ MaxChanges \in Nat /\ MaxFaults \in Nat

Preventive == {"PreToolUse", "PermissionRequest"}
Events == Preventive \cup {"PostToolUse"}

VARIABLES
    active,      \* the active policy file
    lkg,         \* its last-known-good snapshot
    hook,        \* the stage of the hook process of each call and event
    used,        \* the bundle that process evaluates
    answer,      \* what that process prints when it ends
    emitted,     \* detections that process has appended
    call,        \* how far the harness is with each call
    telemetry,   \* observations appended to events.jsonl
    detections,  \* detections appended to detections.jsonl
    torn,        \* logs whose last line lacks its end
    changes,     \* policy changes left
    faults       \* faults left

policy == <<active, lkg, changes>>
process == <<hook, used, answer, emitted>>
logs == <<telemetry, detections, torn>>
vars == <<active, lkg, hook, used, answer, emitted, call, telemetry, detections,
          torn, changes, faults>>

Running == {"parse", "load", "evaluate", "telemetry", "detect", "print"}
Stages == Running \cup {"none", "ended", "killed"}

\* No output; an allow with the rewritten command; a denial by policy; a denial
\* by failure; a system message; the system message for an unreadable event.
Answers == {"nothing", "rewrite", "deny", "failedDeny", "message", "anonymous"}
Progress == {"proposed", "checking", "asking", "blocked", "dispatched", "finished"}
Observations == [call : Calls, event : Events, decision : {"allow", "deny", "observe"},
                 whole : BOOLEAN]
Detections == [call : Calls, event : Preventive, rule : 1 .. MaxRules, whole : BOOLEAN]

TypeOK ==
    /\ active \in Bundles \cup {Bad}
    /\ lkg \in Bundles \cup {Bad}
    /\ hook \in [Calls \X Events -> Stages]
    /\ used \in [Calls \X Events -> Bundles \cup {Bad}]
    /\ answer \in [Calls \X Events -> Answers]
    /\ emitted \in [Calls \X Events -> 0 .. MaxRules]
    /\ call \in [Calls -> Progress]
    /\ telemetry \in SUBSET Observations
    /\ detections \in SUBSET Detections
    /\ torn \in SUBSET {"telemetry", "detections"}
    /\ changes \in 0 .. MaxChanges
    /\ faults \in 0 .. MaxFaults

Init ==
    /\ active \in Bundles
    /\ lkg \in {active, Bad}
    /\ hook = [h \in Calls \X Events |-> "none"]
    /\ used = [h \in Calls \X Events |-> Bad]
    /\ answer = [h \in Calls \X Events |-> "nothing"]
    /\ emitted = [h \in Calls \X Events |-> 0]
    /\ call = [c \in Calls |-> "proposed"]
    /\ telemetry = {}
    /\ detections = {}
    /\ torn = {}
    /\ changes = MaxChanges
    /\ faults = MaxFaults

-----------------------------------------------------------------------------
(* Helpers *)

Fault == faults > 0 /\ faults' = faults - 1

Stage(h, s) == hook' = [hook EXCEPT ![h] = s]

Found(h) == Verdict[used[h]][h[1]]

\* What evaluate returns: observational events are not matched against rules.
Decision(h) == IF h[2] \in Preventive THEN Found(h).action ELSE "observe"

\* Mutant: only PreToolUse is denied on failure.
FailureDeniesPreToolUse(e) == IF e = "PreToolUse" THEN "failedDeny" ELSE "message"

\* Mutant: a failure is only reported.
FailureReported(e) == "message"

\* The handler of main: an event that could be prevented is denied, any other
\* gets a system message.
FailureAnswer(e) == IF e \in Preventive THEN "failedDeny" ELSE "message"

\* Mutant: run has a denial for PreToolUse only.
DraftPreToolUseOnly(h) ==
    IF h[2] # "PreToolUse" THEN "nothing"
    ELSE IF Decision(h) = "deny" THEN "deny"
    ELSE IF h[1] \in ShellCalls THEN "rewrite"
    ELSE "nothing"

\* The output that run drafts from its decision.
Draft(h) ==
    IF Decision(h) = "deny" THEN "deny"
    ELSE IF h[2] = "PreToolUse" /\ h[1] \in ShellCalls THEN "rewrite"
    ELSE "nothing"

Detects(h) == Decision(h) = "deny" /\ Found(h).rules > 0

\* An exception leaves run: whatever it had drafted is dropped.
Raise(h) ==
    /\ Stage(h, "print")
    /\ answer' = [answer EXCEPT ![h] = FailureAnswer(h[2])]

\* _append_jsonl: one write to a file opened with O_APPEND.  Its result is not
\* examined, so a short write leaves a line without its end, and the next
\* record continues that line.
AppendWhole(log) == log \notin torn /\ torn' = torn
AppendOnto(log) == log \in torn /\ torn' = torn \ {log}
AppendShort(log) == Fault /\ torn' = torn \cup {log}

-----------------------------------------------------------------------------
(* The hook process *)

\* json.load of the event
Parse(h) ==
    /\ hook[h] = "parse"
    /\ Stage(h, "load")
    /\ UNCHANGED <<policy, used, answer, emitted, call, logs, faults>>

\* An event that does not parse has no name: main cannot tell what to deny.
ParseFails(h) ==
    /\ hook[h] = "parse"
    /\ Fault
    /\ Stage(h, "print")
    /\ answer' = [answer EXCEPT ![h] = "anonymous"]
    /\ UNCHANGED <<policy, used, emitted, call, logs>>

\* Mutant: without a bundle the process waits for one.
LoadWaits(h) ==
    /\ hook[h] = "load"
    /\ \E b \in Bundles :
          /\ b = IF active # Bad THEN active ELSE lkg
          /\ used' = [used EXCEPT ![h] = b]
    /\ Stage(h, "evaluate")
    /\ UNCHANGED <<policy, answer, emitted, call, logs, faults>>

\* load_policy: the active bundle, else the snapshot, else an exception.  A
\* refresh of the snapshot that fails is not noticed.
Load(h) ==
    /\ hook[h] = "load"
    /\ \/ /\ active \in Bundles
          /\ used' = [used EXCEPT ![h] = active]
          /\ Stage(h, "evaluate")
          /\ \/ lkg' = active /\ faults' = faults
             \/ lkg' = lkg /\ lkg # active /\ Fault
          /\ UNCHANGED answer
       \/ /\ active = Bad /\ lkg \in Bundles
          /\ used' = [used EXCEPT ![h] = lkg]
          /\ Stage(h, "evaluate")
          /\ UNCHANGED <<answer, lkg, faults>>
       \/ /\ active = Bad /\ lkg = Bad
          /\ Raise(h)
          /\ UNCHANGED <<used, lkg, faults>>
    /\ UNCHANGED <<active, changes, emitted, call, logs>>

\* Mutant: detections are appended before the observation.
EvaluateReportsFirst(h) ==
    /\ hook[h] = "evaluate"
    /\ IF Decision(h) = "error"
       THEN Raise(h)
       ELSE /\ Stage(h, IF Detects(h) THEN "detect" ELSE "telemetry")
            /\ answer' = [answer EXCEPT ![h] = Draft(h)]
    /\ UNCHANGED <<policy, used, emitted, call, logs, faults>>

\* Trace context, enrichment, evaluation, correlation and the draft.
Evaluate(h) ==
    /\ hook[h] = "evaluate"
    /\ IF Decision(h) = "error"
       THEN Raise(h)
       ELSE Stage(h, "telemetry") /\ answer' = [answer EXCEPT ![h] = Draft(h)]
    /\ UNCHANGED <<policy, used, emitted, call, logs, faults>>

\* Where the process goes once its observation is written.
AfterTelemetry(h) == IF Detects(h) THEN "detect" ELSE "print"

Observe(h) ==
    /\ hook[h] = "telemetry"
    /\ \E whole \in BOOLEAN :
          /\ \/ whole /\ AppendWhole("telemetry") /\ faults' = faults
             \/ ~whole /\ AppendOnto("telemetry") /\ faults' = faults
             \/ ~whole /\ AppendShort("telemetry")
          /\ telemetry' = telemetry \cup
                {[call |-> h[1], event |-> h[2], decision |-> Decision(h), whole |-> whole]}
    /\ Stage(h, AfterTelemetry(h))
    /\ UNCHANGED <<policy, used, answer, emitted, call, detections>>

\* What one turn of the loop over the matching deny rules appends.
AppendDetection(h) ==
    /\ hook[h] = "detect"
    /\ \E whole \in BOOLEAN :
          /\ \/ whole /\ AppendWhole("detections") /\ faults' = faults
             \/ ~whole /\ AppendOnto("detections") /\ faults' = faults
             \/ ~whole /\ AppendShort("detections")
          /\ detections' = detections \cup
                {[call |-> h[1], event |-> h[2], rule |-> emitted[h] + 1, whole |-> whole]}
    /\ emitted' = [emitted EXCEPT ![h] = @ + 1]
    /\ UNCHANGED <<policy, used, answer, call, telemetry>>

\* Mutant: the loop makes one turn too many.
DetectOncePastEnd(h) ==
    /\ AppendDetection(h)
    /\ Stage(h, IF emitted[h] + 1 <= Found(h).rules THEN "detect" ELSE "print")

\* Mutant: only the first matching rule is reported.
DetectFirstOnly(h) == AppendDetection(h) /\ Stage(h, "print")

\* One detection per matching deny rule, in rule order.
Detect(h) ==
    /\ AppendDetection(h)
    /\ Stage(h, IF emitted[h] + 1 < Found(h).rules THEN "detect" ELSE "print")

\* main prints the answer and the process exits.
PrintAnswer(h) ==
    /\ hook[h] = "print"
    /\ Stage(h, "ended")
    /\ UNCHANGED <<policy, used, answer, emitted, call, logs, faults>>

\* Any step after the event is known may raise: the registry, the enricher, the
\* second parse of the command, the construction of a record, an append.
Fail(h) ==
    /\ hook[h] \in {"load", "evaluate", "telemetry", "detect"}
    /\ Fault
    /\ Raise(h)
    /\ UNCHANGED <<policy, used, emitted, call, logs>>

\* The harness gives up on the process at its timeout: nothing is printed.
Kill(h) ==
    /\ hook[h] \in Running
    /\ Fault
    /\ Stage(h, "killed")
    /\ UNCHANGED <<policy, used, answer, emitted, call, logs>>

-----------------------------------------------------------------------------
(* The harness *)

Start(h) == hook[h] = "none" /\ Stage(h, "parse")

Over(h) == hook[h] \in {"ended", "killed"}

\* The process knew its event and told the harness what it decided.
Answered(h) == hook[h] = "ended" /\ answer[h] # "anonymous"

Denied(h) == Answered(h) /\ answer[h] \in {"deny", "failedDeny"}

Harness(c, from, to) == call[c] = from /\ call' = [call EXCEPT ![c] = to]

Propose(c) ==
    /\ Harness(c, "proposed", "checking")
    /\ Start(<<c, "PreToolUse">>)
    /\ UNCHANGED <<policy, used, answer, emitted, logs, faults>>

\* A denied call is not run.  Otherwise the harness runs it, or asks the user
\* for permission, or (without an answer of the hook) gives it up.
AfterPreToolUse(c) ==
    LET h == <<c, "PreToolUse">>
        p == <<c, "PermissionRequest">>
    IN  /\ Over(h)
        /\ \/ Harness(c, "checking", "blocked") /\ (Denied(h) \/ ~Answered(h)) /\ hook' = hook
           \/ Harness(c, "checking", "dispatched") /\ ~Denied(h) /\ hook' = hook
           \/ Harness(c, "checking", "asking") /\ ~Denied(h) /\ Start(p)
        /\ UNCHANGED <<policy, used, answer, emitted, logs, faults>>

\* Without a denial the decision is the user's.
AfterPermissionRequest(c) ==
    LET p == <<c, "PermissionRequest">>
    IN  /\ Over(p)
        /\ \/ Harness(c, "asking", "blocked")
           \/ Harness(c, "asking", "dispatched") /\ ~Denied(p)
        /\ UNCHANGED <<policy, process, logs, faults>>

\* The tool has run.
AfterTool(c) ==
    /\ Harness(c, "dispatched", "finished")
    /\ Start(<<c, "PostToolUse">>)
    /\ UNCHANGED <<policy, used, answer, emitted, logs, faults>>

\* A bundle is activated, or one of the files is damaged.
ChangePolicy ==
    /\ changes > 0
    /\ changes' = changes - 1
    /\ \/ active' \in (Bundles \cup {Bad}) \ {active} /\ lkg' = lkg
       \/ lkg # Bad /\ lkg' = Bad /\ active' = active
    /\ UNCHANGED <<process, call, logs, faults>>

-----------------------------------------------------------------------------

HookStep(h) ==
    Parse(h) \/ Load(h) \/ Evaluate(h) \/ Observe(h) \/ Detect(h) \/ PrintAnswer(h)

HarnessStep(c) ==
    Propose(c) \/ AfterPreToolUse(c) \/ AfterPermissionRequest(c) \/ AfterTool(c)

Next ==
    \/ \E h \in Calls \X Events : HookStep(h) \/ ParseFails(h) \/ Fail(h) \/ Kill(h)
    \/ \E c \in Calls : HarnessStep(c)
    \/ ChangePolicy

Spec == Init /\ [][Next]_vars

\* The operating system runs every process; the harness goes on with each call.
Fairness ==
    /\ \A h \in Calls \X Events : WF_vars(HookStep(h))
    /\ \A c \in Calls : WF_vars(HarnessStep(c))
FairSpec == Spec /\ Fairness

-----------------------------------------------------------------------------
(* Properties *)

\* A tool call is run only if every preventive hook that answered had evaluated
\* the call under a valid bundle and found "allow": no exception, at whatever
\* step and of whatever process, turns into permission (codex_hook.py, main:
\* "must not become an execution bypass"; ER-F-027).
DispatchWasAllowed ==
    \A c \in Calls, e \in Preventive :
        (call[c] \in {"dispatched", "finished"} /\ Answered(<<c, e>>))
            => /\ used[<<c, e>>] \in Bundles
               /\ Verdict[used[<<c, e>>]][c].action = "allow"

\* The logs agree with what was answered: an observation says "deny" exactly if
\* the process that wrote it denies in the end, or is killed before it can.
ObservationMatchesAnswer ==
    \A o \in telemetry :
        LET h == <<o.call, o.event>>
        IN  hook[h] = "ended" => (o.decision = "deny" <=> Denied(h))

\* A call with a detection, whose response is "blocked", is not run, unless
\* the process that reported it was killed before it could answer.
DetectedNeverRuns ==
    \A d \in detections :
        hook[<<d.call, d.event>>] # "killed" => call[d.call] \notin {"dispatched", "finished"}

\* A detection never stands alone: the observation of the same decision was
\* written before it, also when the process is killed or fails in between.
DetectionHasObservation ==
    \A d \in detections :
        \E o \in telemetry : o.call = d.call /\ o.event = d.event /\ o.decision = "deny"

\* A policy denial is reported by one detection for each matching deny rule
\* (ADR-0008), whatever else was appended meanwhile.
DenialFullyReported ==
    \A h \in Calls \X Events :
        (hook[h] = "ended" /\ answer[h] = "deny")
            => {d.rule : d \in {x \in detections : x.call = h[1] /\ x.event = h[2]}}
                  = 1 .. Found(h).rules

\* Every proposed call is blocked or finished: no process waits for another.
EveryCallIsDecided == \A c \in Calls : <>(call[c] \in {"blocked", "finished"})
=============================================================================
