------------------------ MODULE HookLifecycleProofs ------------------------
(***************************************************************************)
(* Theorems about HookLifecycle for any set of calls and bundles, any      *)
(* verdicts and any bounds, and their TLAPS proofs.                        *)
(***************************************************************************)
EXTENDS HookLifecycle, TLAPS

Hooks == Calls \X Events

\* A process at a stage past the load has a bundle; past the evaluation it has
\* a decision under that bundle, and holds the draft that follows from it.
HasDraft(h) ==
    /\ used[h] \in Bundles
    /\ Decision(h) \in {"allow", "deny", "observe"}
    /\ answer[h] = Draft(h)

StageSound(h) ==
    /\ hook[h] = "evaluate" => used[h] \in Bundles
    /\ hook[h] \in {"telemetry", "detect"} => HasDraft(h)
    /\ hook[h] = "detect" => Decision(h) = "deny"
    /\ hook[h] \in {"print", "ended"} =>
          HasDraft(h) \/ answer[h] \in {FailureAnswer(h[2]), "anonymous"}

StagesSound == \A h \in Hooks : StageSound(h)

\* How far the harness is tells which processes it has started, and that no
\* preventive process of a call past it has denied the call.
Passed(h) == hook[h] \in {"ended", "killed"} /\ ~Denied(h)

HarnessSound ==
    \A c \in Calls :
        /\ call[c] = "proposed" => hook[<<c, "PreToolUse">>] = "none"
        /\ call[c] \in {"proposed", "checking"} => hook[<<c, "PermissionRequest">>] = "none"
        /\ call[c] = "asking" => Passed(<<c, "PreToolUse">>)
        /\ call[c] \in {"dispatched", "finished"} =>
              /\ Passed(<<c, "PreToolUse">>)
              /\ hook[<<c, "PermissionRequest">>] = "none" \/ Passed(<<c, "PermissionRequest">>)

\* A process whose observation is written answers as the observation says.
Settled(h) ==
    /\ used[h] \in Bundles
    /\ hook[h] \in {"detect", "print", "ended", "killed"}
    /\ hook[h] \in {"detect", "print", "ended"} =>
          IF Decision(h) = "deny" THEN answer[h] \in {"deny", "failedDeny"}
          ELSE answer[h] = Draft(h) /\ Decision(h) \in {"allow", "observe"}

LogsSound ==
    /\ \A o \in telemetry :
          Settled(<<o.call, o.event>>) /\ o.decision = Decision(<<o.call, o.event>>)
    /\ \A d \in detections :
          /\ Decision(<<d.call, d.event>>) = "deny"
          /\ \E o \in telemetry : o.call = d.call /\ o.event = d.event /\ o.decision = "deny"

\* A process that will append a detection has written its observation.
DetectObserved ==
    \A h \in Hooks :
        hook[h] = "detect" =>
            \E o \in telemetry : o.call = h[1] /\ o.event = h[2] /\ o.decision = "deny"

\* Detections are appended in rule order, all of them before a policy denial
\* is printed.
Reported(h) == {d.rule : d \in {x \in detections : x.call = h[1] /\ x.event = h[2]}}

ReportSound(h) ==
    /\ Reported(h) = 1 .. emitted[h]
    /\ hook[h] \in {"none", "parse", "load", "evaluate", "telemetry"} => emitted[h] = 0
    /\ hook[h] = "detect" => emitted[h] < Found(h).rules
    /\ (hook[h] \in {"print", "ended"} /\ answer[h] = "deny") => emitted[h] = Found(h).rules

ReportsSound == \A h \in Hooks : ReportSound(h)

Inv ==
    /\ TypeOK
    /\ StagesSound
    /\ HarnessSound
    /\ LogsSound
    /\ DetectObserved
    /\ ReportsSound

-----------------------------------------------------------------------------
(* Facts about verdicts and steps *)

LEMMA HookParts ==
  ASSUME NEW h \in Hooks
  PROVE  h[1] \in Calls /\ h[2] \in Events /\ h = <<h[1], h[2]>>
BY DEF Hooks

LEMMA HookOf ==
  ASSUME NEW c \in Calls, NEW e \in Events
  PROVE  <<c, e>> \in Hooks /\ <<c, e>>[1] = c /\ <<c, e>>[2] = e
BY DEF Hooks

\* A bundle gives every call one of the verdicts.
LEMMA FoundFacts ==
  ASSUME NEW h \in Hooks, used[h] \in Bundles
  PROVE  /\ Found(h) \in Verdicts
         /\ Found(h).action \in {"allow", "deny", "error"}
         /\ Found(h).rules \in 0 .. MaxRules
         /\ Found(h).rules > 0 => Found(h).action = "deny"
<1>1. Found(h) \in Verdicts
  BY HookParts, VerdictAssumption DEF Found
<1>2. QED
  BY <1>1, BoundsAssumption DEF Verdicts

LEMMA DraftFacts ==
  ASSUME NEW h \in Hooks, used[h] \in Bundles
  PROVE  /\ Decision(h) \in {"allow", "deny", "error", "observe"}
         /\ Draft(h) \in Answers
         /\ Decision(h) = "deny" => Draft(h) = "deny" /\ h[2] \in Preventive
         /\ Decision(h) # "deny" => Draft(h) \in {"nothing", "rewrite"}
         /\ Decision(h) \in {"allow", "deny"} => Decision(h) = Found(h).action
BY FoundFacts DEF Decision, Draft, Answers

\* What a hook process leaves alone when it moves on.
Alone(h) ==
    \A g \in Hooks \ {h} :
        hook'[g] = hook[g] /\ used'[g] = used[g] /\ answer'[g] = answer[g] /\ emitted'[g] = emitted[g]

LEMMA InvInit == Init => Inv
<1> SUFFICES ASSUME Init PROVE Inv
  OBVIOUS
<1>1. TypeOK
  BY BoundsAssumption DEF Init, TypeOK, Stages, Running, Answers, Progress
<1>2. StagesSound /\ DetectObserved
  BY DEF Init, StagesSound, StageSound, DetectObserved, Hooks
<1>3. HarnessSound
  BY HookOf DEF Init, HarnessSound, Hooks, Events, Preventive
<1>4. LogsSound
  BY DEF Init, LogsSound
<1>5. ReportsSound
  BY DEF Init, ReportsSound, ReportSound, Reported, Hooks
<1>6. QED
  BY <1>1, <1>2, <1>3, <1>4, <1>5 DEF Inv

-----------------------------------------------------------------------------
(* Steps of one process *)

\* What is said of the other processes stays as it is.
LEMMA Others ==
  ASSUME NEW h \in Hooks, Alone(h), NEW g \in Hooks \ {h}
  PROVE  /\ Decision(g)' = Decision(g) /\ Found(g)' = Found(g)
         /\ StageSound(g) => StageSound(g)'
         /\ Passed(g) => Passed(g)'
         /\ Settled(g) => Settled(g)'
         /\ (ReportSound(g) /\ Reported(g)' = Reported(g)) => ReportSound(g)'
<1>1. hook'[g] = hook[g] /\ used'[g] = used[g] /\ answer'[g] = answer[g] /\ emitted'[g] = emitted[g]
  BY DEF Alone
<1>2. Found(g)' = Found(g) /\ Decision(g)' = Decision(g)
  BY <1>1 DEF Found, Decision
<1>3. Draft(g)' = Draft(g)
  BY <1>2 DEF Draft
<1>4. StageSound(g) => StageSound(g)'
  BY <1>1, <1>2, <1>3 DEF StageSound, HasDraft
<1>5. Passed(g) => Passed(g)'
  BY <1>1 DEF Passed, Denied, Answered
<1>6. Settled(g) => Settled(g)'
  BY <1>1, <1>2, <1>3 DEF Settled
<1>7. (ReportSound(g) /\ Reported(g)' = Reported(g)) => ReportSound(g)'
  BY <1>1, <1>2 DEF ReportSound
<1>8. QED
  BY <1>2, <1>4, <1>5, <1>6, <1>7

LEMMA RecordHooks ==
  ASSUME TypeOK
  PROVE  /\ \A o \in telemetry : <<o.call, o.event>> \in Hooks
         /\ \A d \in detections : <<d.call, d.event>> \in Hooks
BY HookOf DEF TypeOK, Observations, Detections, Events

\* The harness waits for the process it started last.
LEMMA HarnessWaits ==
  ASSUME TypeOK, HarnessSound, NEW h \in Hooks, hook[h] \in Running, Alone(h), call' = call
  PROVE  HarnessSound'
<1> SUFFICES ASSUME NEW c \in Calls
             PROVE  /\ call[c] = "proposed" => hook'[<<c, "PreToolUse">>] = "none"
                    /\ call[c] \in {"proposed", "checking"} =>
                          hook'[<<c, "PermissionRequest">>] = "none"
                    /\ call[c] = "asking" => Passed(<<c, "PreToolUse">>)'
                    /\ call[c] \in {"dispatched", "finished"} =>
                          /\ Passed(<<c, "PreToolUse">>)'
                          /\ \/ hook'[<<c, "PermissionRequest">>] = "none"
                             \/ Passed(<<c, "PermissionRequest">>)'
  BY DEF HarnessSound
<1> DEFINE a == <<c, "PreToolUse">>
           b == <<c, "PermissionRequest">>
<1>1. a \in Hooks /\ b \in Hooks
  BY HookOf DEF Events, Preventive
<1>2. \A g \in Hooks : (hook[g] = "none" \/ Passed(g)) => g # h
  BY DEF Passed, Running
<1>3. \A g \in Hooks : hook[g] = "none" => hook'[g] = "none"
  BY <1>2 DEF Alone
<1>4. \A g \in Hooks : Passed(g) => Passed(g)'
  BY <1>2, Others
<1>5. QED
  BY <1>1, <1>3, <1>4 DEF HarnessSound

\* A step of process h that appends nothing.
LEMMA QuietStep ==
  ASSUME Inv, TypeOK', NEW h \in Hooks, hook[h] \in Running, Alone(h),
         call' = call, telemetry' = telemetry, detections' = detections,
         StageSound(h)', ReportSound(h)',
         Settled(h) => Settled(h)' /\ used'[h] = used[h],
         hook'[h] = "detect" => hook[h] = "detect"
  PROVE  Inv'
<1>1. StagesSound'
  BY Others DEF StagesSound, Inv
<1>2. HarnessSound'
  BY HarnessWaits DEF Inv
<1>3. ReportsSound'
  BY Others DEF ReportsSound, Reported, Inv
<1>4. \A g \in Hooks : Settled(g) => Settled(g)' /\ Decision(g)' = Decision(g)
  BY Others DEF Decision, Found
<1>5. \A o \in telemetry : Settled(<<o.call, o.event>>)' /\ o.decision = Decision(<<o.call, o.event>>)'
  BY <1>4, RecordHooks DEF Inv, LogsSound
<1>6. ASSUME NEW d \in detections
      PROVE  /\ Decision(<<d.call, d.event>>)' = "deny"
             /\ \E o \in telemetry : o.call = d.call /\ o.event = d.event /\ o.decision = "deny"
  <2>1. PICK o \in telemetry : o.call = d.call /\ o.event = d.event /\ o.decision = "deny"
    BY DEF Inv, LogsSound
  <2>2. o.decision = Decision(<<o.call, o.event>>)'
    BY <1>5
  <2>3. QED
    BY <2>1, <2>2
<1>7. LogsSound'
  BY <1>5, <1>6 DEF LogsSound
<1>8. DetectObserved'
  BY DEF DetectObserved, Alone, Inv
<1>9. QED
  BY <1>1, <1>2, <1>3, <1>7, <1>8 DEF Inv

\* The pieces the actions are built from keep the types.
LEMMA PieceTypes ==
  ASSUME TypeOK
  PROVE  /\ Fault => faults' \in 0 .. MaxFaults
         /\ \A h \in Hooks, s \in Stages : Stage(h, s) => hook' \in [Calls \X Events -> Stages]
         /\ \A log \in {"telemetry", "detections"} :
               (AppendWhole(log) \/ AppendOnto(log) \/ AppendShort(log)) =>
                  torn' \in SUBSET {"telemetry", "detections"}
<1>1. Fault => faults' \in 0 .. MaxFaults
  BY BoundsAssumption DEF TypeOK, Fault
<1>2. \A h \in Hooks, s \in Stages : Stage(h, s) => hook' \in [Calls \X Events -> Stages]
  BY DEF TypeOK, Stage
<1>3. \A log \in {"telemetry", "detections"} :
         (AppendWhole(log) \/ AppendOnto(log) \/ AppendShort(log)) =>
            torn' \in SUBSET {"telemetry", "detections"}
  BY DEF TypeOK, AppendWhole, AppendOnto, AppendShort
<1>4. QED
  BY <1>1, <1>2, <1>3

LEMMA ParseStep ==
  ASSUME Inv, NEW h \in Hooks, Parse(h) \/ ParseFails(h)
  PROVE  Inv'
<1>1. TypeOK'
  <2>1. TypeOK /\ "anonymous" \in Answers /\ "load" \in Stages /\ "print" \in Stages
    BY DEF Inv, Answers, Stages, Running
  <2>2. QED
    BY <2>1, PieceTypes DEF TypeOK, Parse, ParseFails, policy, logs
<1>2. Alone(h) /\ call' = call /\ telemetry' = telemetry /\ detections' = detections /\ used'[h] = used[h]
  BY DEF Inv, TypeOK, Parse, ParseFails, Stage, Alone, Hooks, logs
<1>3. hook[h] = "parse" /\ hook'[h] \in {"load", "print"}
      /\ (hook'[h] = "print" => answer'[h] = "anonymous") /\ emitted'[h] = emitted[h]
  BY DEF Inv, TypeOK, Parse, ParseFails, Stage, Hooks
<1>4. StageSound(h)'
  BY <1>3 DEF StageSound
<1>5. ReportSound(h)'
  BY <1>2, <1>3 DEF ReportSound, Reported, Inv, ReportsSound
<1>6. ~Settled(h)
  BY <1>3 DEF Settled
<1>7. QED
  BY <1>1, <1>2, <1>3, <1>4, <1>5, <1>6, QuietStep DEF Running

LEMMA LoadStep ==
  ASSUME Inv, NEW h \in Hooks, Load(h)
  PROVE  Inv'
<1>1. FailureAnswer(h[2]) \in {"failedDeny", "message"}
  BY DEF FailureAnswer
<1>2. TypeOK'
  BY <1>1, BoundsAssumption
  DEF Inv, TypeOK, Load, Raise, Fault, Stage, logs, Hooks, Stages, Running, Answers
<1>3. Alone(h) /\ call' = call /\ telemetry' = telemetry /\ detections' = detections
  BY DEF Inv, TypeOK, Load, Raise, Stage, Alone, Hooks, logs
<1>4. /\ hook[h] = "load" /\ emitted'[h] = emitted[h]
      /\ \/ hook'[h] = "evaluate" /\ used'[h] \in Bundles
         \/ hook'[h] = "print" /\ answer'[h] = FailureAnswer(h[2])
  BY DEF Inv, TypeOK, Load, Raise, Stage, Hooks
<1>5. StageSound(h)'
  BY <1>4 DEF StageSound
<1>6. ReportSound(h)'
  BY <1>1, <1>3, <1>4 DEF ReportSound, Reported, Inv, ReportsSound
<1>7. ~Settled(h)
  BY <1>4 DEF Settled
<1>8. QED
  BY <1>2, <1>3, <1>4, <1>5, <1>6, <1>7, QuietStep DEF Running

LEMMA EvaluateStep ==
  ASSUME Inv, NEW h \in Hooks, Evaluate(h)
  PROVE  Inv'
<1>1. FailureAnswer(h[2]) \in {"failedDeny", "message"}
  BY DEF FailureAnswer
<1>2. hook[h] = "evaluate" /\ used[h] \in Bundles
  BY DEF Evaluate, Inv, StagesSound, StageSound
<1>3. TypeOK'
  BY <1>1, <1>2, DraftFacts
  DEF Inv, TypeOK, Evaluate, Raise, Stage, policy, logs, Hooks, Stages, Running, Answers
<1>4. Alone(h) /\ call' = call /\ telemetry' = telemetry /\ detections' = detections /\ used' = used
  BY DEF Inv, TypeOK, Evaluate, Raise, Stage, Alone, Hooks, logs
<1>5. /\ emitted'[h] = emitted[h]
      /\ \/ hook'[h] = "telemetry" /\ answer'[h] = Draft(h) /\ Decision(h) # "error"
         \/ hook'[h] = "print" /\ answer'[h] = FailureAnswer(h[2])
  BY DEF Inv, TypeOK, Evaluate, Raise, Stage, Hooks
<1>6. Decision(h)' = Decision(h) /\ Draft(h)' = Draft(h)
  BY <1>4 DEF Decision, Found, Draft
<1>7. StageSound(h)'
  BY <1>2, <1>4, <1>5, <1>6, DraftFacts DEF StageSound, HasDraft
<1>8. ReportSound(h)'
  BY <1>1, <1>2, <1>4, <1>5 DEF ReportSound, Reported, Inv, ReportsSound
<1>9. ~Settled(h)
  BY <1>2 DEF Settled
<1>10. QED
  BY <1>2, <1>3, <1>4, <1>5, <1>7, <1>8, <1>9, QuietStep DEF Running

LEMMA PrintStep ==
  ASSUME Inv, NEW h \in Hooks, PrintAnswer(h) \/ Kill(h)
  PROVE  Inv'
<1>1. TypeOK'
  <2>1. TypeOK /\ "ended" \in Stages /\ "killed" \in Stages
    BY DEF Inv, Stages
  <2>2. QED
    BY <2>1, PieceTypes DEF TypeOK, PrintAnswer, Kill, policy, logs
<1>2. /\ Alone(h) /\ call' = call /\ telemetry' = telemetry /\ detections' = detections
      /\ used' = used /\ answer' = answer /\ emitted' = emitted
  BY DEF Inv, TypeOK, PrintAnswer, Kill, Stage, Alone, Hooks, logs
<1>3. /\ hook[h] \in Running
      /\ (hook[h] = "print" /\ hook'[h] = "ended") \/ hook'[h] = "killed"
  BY DEF Inv, TypeOK, PrintAnswer, Kill, Stage, Hooks, Running
<1>4. Decision(h)' = Decision(h) /\ Draft(h)' = Draft(h) /\ Found(h)' = Found(h)
  BY <1>2 DEF Decision, Found, Draft
<1>5. StageSound(h)'
  BY <1>2, <1>3, <1>4 DEF StageSound, HasDraft, Inv, StagesSound
<1>6. ReportSound(h)'
  BY <1>2, <1>3, <1>4 DEF ReportSound, Reported, Inv, ReportsSound
<1>7. Settled(h) => Settled(h)'
  BY <1>2, <1>3, <1>4 DEF Settled
<1>8. QED
  BY <1>1, <1>2, <1>3, <1>5, <1>6, <1>7, QuietStep

LEMMA FailStep ==
  ASSUME Inv, NEW h \in Hooks, Fail(h)
  PROVE  Inv'
<1>1. FailureAnswer(h[2]) \in {"failedDeny", "message"}
  BY DEF FailureAnswer
<1>2. TypeOK'
  BY <1>1, BoundsAssumption
  DEF Inv, TypeOK, Fail, Raise, Fault, Stage, policy, logs, Hooks, Stages, Running, Answers
<1>3. /\ Alone(h) /\ call' = call /\ telemetry' = telemetry /\ detections' = detections
      /\ used' = used /\ emitted' = emitted
  BY DEF Inv, TypeOK, Fail, Raise, Stage, Alone, Hooks, logs
<1>4. /\ hook[h] \in {"load", "evaluate", "telemetry", "detect"}
      /\ hook'[h] = "print" /\ answer'[h] = FailureAnswer(h[2])
  BY DEF Inv, TypeOK, Fail, Raise, Stage, Hooks
<1>5. Decision(h)' = Decision(h)
  BY <1>3 DEF Decision, Found
<1>6. StageSound(h)'
  BY <1>4 DEF StageSound
<1>7. ReportSound(h)'
  BY <1>1, <1>3, <1>4 DEF ReportSound, Reported, Inv, ReportsSound
<1>8. ASSUME Settled(h)
      PROVE  Settled(h)'
  <2>1. hook[h] = "detect"
    BY <1>4, <1>8 DEF Settled
  <2>2. Decision(h) = "deny" /\ used[h] \in Bundles
    BY <2>1 DEF Inv, StagesSound, StageSound, HasDraft
  <2>3. answer'[h] = "failedDeny"
    BY <1>4, <2>2, DraftFacts DEF FailureAnswer
  <2>4. QED
    BY <1>3, <1>4, <1>5, <2>2, <2>3 DEF Settled
<1>9. QED
  BY <1>2, <1>3, <1>4, <1>6, <1>7, <1>8, QuietStep DEF Running

LEMMA ObserveStep ==
  ASSUME Inv, NEW h \in Hooks, Observe(h)
  PROVE  Inv'
<1>1. /\ hook[h] = "telemetry" /\ hook'[h] = AfterTelemetry(h)
      /\ used' = used /\ answer' = answer /\ emitted' = emitted
      /\ call' = call /\ detections' = detections /\ Alone(h)
  BY DEF Inv, TypeOK, Observe, Stage, Alone, Hooks
<1>2. HasDraft(h) /\ emitted[h] = 0
  BY <1>1 DEF Inv, StagesSound, StageSound, ReportsSound, ReportSound
<1>3. PICK whole \in BOOLEAN :
        telemetry' = telemetry \cup
          {[call |-> h[1], event |-> h[2], decision |-> Decision(h), whole |-> whole]}
  BY DEF Observe
<1> DEFINE new == [call |-> h[1], event |-> h[2], decision |-> Decision(h), whole |-> whole]
<1>4. new \in Observations
  BY <1>2, HookParts DEF HasDraft, Observations
<1>5. TypeOK'
  <2>1. telemetry' \in SUBSET Observations
    BY <1>3, <1>4 DEF Inv, TypeOK
  <2>2. hook' \in [Calls \X Events -> Stages]
    BY DEF Inv, TypeOK, Observe, Stage, AfterTelemetry, Stages, Running
  <2>3. faults' \in 0 .. MaxFaults /\ torn' \in SUBSET {"telemetry", "detections"}
    BY PieceTypes DEF Inv, TypeOK, Observe, AppendShort
  <2>4. QED
    BY <1>1, <2>1, <2>2, <2>3 DEF Inv, TypeOK, Observe, policy
<1>6. \A g \in Hooks : Found(g)' = Found(g) /\ Decision(g)' = Decision(g) /\ Draft(g)' = Draft(g)
  BY <1>1 DEF Found, Decision, Draft
<1>7. StagesSound'
  <2>1. StageSound(h)'
    BY <1>1, <1>2, <1>6 DEF StageSound, HasDraft, AfterTelemetry, Detects
  <2>2. QED
    BY <1>1, <2>1, Others DEF StagesSound, Inv
<1>8. HarnessSound'
  BY <1>1, HarnessWaits DEF Inv, Running
<1>9. LogsSound'
  <2>1. Settled(h)'
    BY <1>1, <1>2, <1>6, DraftFacts DEF Settled, HasDraft, AfterTelemetry, Detects
  <2>2. \A g \in Hooks : Settled(g) => Settled(g)'
    BY <1>1, <2>1, Others
  <2>3. \A o \in telemetry : Settled(<<o.call, o.event>>)' /\ o.decision = Decision(<<o.call, o.event>>)'
    BY <1>6, <2>2, RecordHooks DEF Inv, LogsSound
  <2>4. Settled(<<new.call, new.event>>)' /\ new.decision = Decision(<<new.call, new.event>>)'
    BY <1>6, <2>1, HookParts
  <2>5. \A d \in detections : Decision(<<d.call, d.event>>)' = "deny"
    BY <1>6, RecordHooks DEF Inv, LogsSound
  <2>6. QED
    BY <1>1, <1>3, <2>3, <2>4, <2>5 DEF LogsSound, Inv
<1>10. DetectObserved'
  <2>1. hook'[h] = "detect" => new.call = h[1] /\ new.event = h[2] /\ new.decision = "deny"
    BY <1>1 DEF AfterTelemetry, Detects
  <2>2. new \in telemetry' /\ telemetry \subseteq telemetry'
    BY <1>3
  <2>3. QED
    BY <1>1, <2>1, <2>2 DEF DetectObserved, Inv, Alone
<1>11. ReportsSound'
  <2>1. ReportSound(h)'
    <3>1. Reported(h)' = 1 .. emitted'[h]
      BY <1>1 DEF Inv, ReportsSound, ReportSound, Reported
    <3>2. Found(h).rules \in Nat /\ (Found(h).rules > 0 => Found(h).action = "deny")
      BY <1>2, FoundFacts DEF HasDraft
    <3>3. CASE Detects(h)
      BY <1>1, <1>2, <1>6, <3>1, <3>2, <3>3 DEF AfterTelemetry, Detects, ReportSound
    <3>4. CASE ~Detects(h)
      <4>1. answer[h] = "deny" => Decision(h) = "deny"
        BY <1>2, DraftFacts DEF HasDraft
      <4>2. answer[h] = "deny" => Found(h).rules = 0
        BY <3>2, <3>4, <4>1 DEF Detects
      <4>3. QED
        BY <1>1, <1>2, <1>6, <3>1, <3>4, <4>2 DEF AfterTelemetry, ReportSound
    <3>5. QED
      BY <3>3, <3>4
  <2>2. QED
    BY <1>1, <2>1, Others DEF ReportsSound, Reported, Inv
<1>12. QED
  BY <1>5, <1>7, <1>8, <1>9, <1>10, <1>11 DEF Inv

LEMMA DetectStep ==
  ASSUME Inv, NEW h \in Hooks, Detect(h)
  PROVE  Inv'
<1>1. /\ hook[h] = "detect" /\ hook'[h] \in {"detect", "print"}
      /\ hook'[h] = IF emitted[h] + 1 < Found(h).rules THEN "detect" ELSE "print"
      /\ used' = used /\ answer' = answer /\ emitted'[h] = emitted[h] + 1
      /\ call' = call /\ telemetry' = telemetry /\ Alone(h)
  BY DEF Inv, TypeOK, Detect, AppendDetection, Stage, Alone, Hooks
<1>2. /\ HasDraft(h) /\ Decision(h) = "deny" /\ answer[h] = "deny"
      /\ emitted[h] < Found(h).rules /\ Reported(h) = 1 .. emitted[h]
  BY <1>1, DraftFacts DEF Inv, StagesSound, StageSound, ReportsSound, ReportSound, HasDraft
<1>3. Found(h).rules \in 0 .. MaxRules /\ emitted[h] \in Nat /\ MaxRules \in Nat
  BY <1>2, FoundFacts, BoundsAssumption DEF HasDraft, Inv, TypeOK, Hooks
<1>4. h[2] \in Preventive /\ h[1] \in Calls /\ h = <<h[1], h[2]>>
  BY <1>2, DraftFacts, HookParts DEF HasDraft
<1>5. PICK whole \in BOOLEAN :
        detections' = detections \cup
          {[call |-> h[1], event |-> h[2], rule |-> emitted[h] + 1, whole |-> whole]}
  BY DEF Detect, AppendDetection
<1> DEFINE new == [call |-> h[1], event |-> h[2], rule |-> emitted[h] + 1, whole |-> whole]
<1>6. TypeOK'
  <2>1. new \in Detections
    BY <1>2, <1>3, <1>4 DEF Detections
  <2>2. detections' \in SUBSET Detections
    BY <1>5, <2>1 DEF Inv, TypeOK
  <2>3. emitted' \in [Calls \X Events -> 0 .. MaxRules]
    BY <1>2, <1>3 DEF Inv, TypeOK, Detect, AppendDetection, Hooks
  <2>4. hook' \in [Calls \X Events -> Stages]
    BY DEF Inv, TypeOK, Detect, AppendDetection, Stage, Stages, Running
  <2>5. faults' \in 0 .. MaxFaults /\ torn' \in SUBSET {"telemetry", "detections"}
    BY PieceTypes DEF Inv, TypeOK, Detect, AppendDetection, AppendShort
  <2>6. QED
    BY <1>1, <2>2, <2>3, <2>4, <2>5 DEF Inv, TypeOK, Detect, AppendDetection, policy
<1>7. \A g \in Hooks : Found(g)' = Found(g) /\ Decision(g)' = Decision(g) /\ Draft(g)' = Draft(g)
  BY <1>1 DEF Found, Decision, Draft
<1>8. StagesSound'
  <2>1. StageSound(h)'
    BY <1>1, <1>2, <1>7 DEF StageSound, HasDraft
  <2>2. QED
    BY <1>1, <2>1, Others DEF StagesSound, Inv
<1>9. HarnessSound'
  BY <1>1, HarnessWaits DEF Inv, Running
<1>10. PICK o \in telemetry : o.call = h[1] /\ o.event = h[2] /\ o.decision = "deny"
  BY <1>1 DEF Inv, DetectObserved
<1>11. LogsSound'
  <2>1. Settled(h)'
    BY <1>1, <1>2, <1>7 DEF Settled, HasDraft
  <2>2. \A g \in Hooks : Settled(g) => Settled(g)'
    BY <1>1, <2>1, Others
  <2>3. \A x \in telemetry : Settled(<<x.call, x.event>>)' /\ x.decision = Decision(<<x.call, x.event>>)'
    BY <1>7, <2>2, RecordHooks DEF Inv, LogsSound
  <2>4. \A d \in detections :
          /\ Decision(<<d.call, d.event>>)' = "deny"
          /\ \E x \in telemetry : x.call = d.call /\ x.event = d.event /\ x.decision = "deny"
    BY <1>7, RecordHooks DEF Inv, LogsSound
  <2>5. Decision(<<new.call, new.event>>)' = "deny" /\ o.call = new.call /\ o.event = new.event
    BY <1>2, <1>4, <1>7, <1>10
  <2>6. QED
    BY <1>1, <1>5, <1>10, <2>3, <2>4, <2>5 DEF LogsSound
<1>12. DetectObserved'
  BY <1>1 DEF DetectObserved, Inv, Alone
<1>13. ReportsSound'
  <2>1. Reported(h)' = Reported(h) \cup {emitted[h] + 1}
    <3>1. new.call = h[1] /\ new.event = h[2] /\ new.rule = emitted[h] + 1
      OBVIOUS
    <3>2. QED
      BY <1>5, <3>1 DEF Reported
  <2>2. Reported(h)' = 1 .. emitted'[h]
    BY <1>1, <1>2, <1>3, <2>1
  <2>3. ReportSound(h)'
    BY <1>1, <1>2, <1>3, <1>7, <2>2 DEF ReportSound
  <2>4. ASSUME NEW g \in Hooks \ {h}
        PROVE  Reported(g)' = Reported(g)
    <3>1. ~(new.call = g[1] /\ new.event = g[2])
      BY <1>4, HookParts
    <3>2. QED
      BY <1>5, <3>1 DEF Reported
  <2>5. QED
    BY <1>1, <2>3, <2>4, Others DEF ReportsSound, Inv
<1>14. QED
  BY <1>6, <1>8, <1>9, <1>11, <1>12, <1>13 DEF Inv

-----------------------------------------------------------------------------
(* Steps of the harness and of the policy files *)

\* Starting a process changes nothing that is said of any process.
LEMMA HarnessKeeps ==
  ASSUME Inv, used' = used, answer' = answer, emitted' = emitted,
         telemetry' = telemetry, detections' = detections,
         \A g \in Hooks : hook'[g] = hook[g] \/ (hook[g] = "none" /\ hook'[g] = "parse")
  PROVE  /\ StagesSound' /\ LogsSound' /\ DetectObserved' /\ ReportsSound'
         /\ \A g \in Hooks : Passed(g) => Passed(g)'
<1>1. \A g : Found(g)' = Found(g) /\ Decision(g)' = Decision(g) /\ Draft(g)' = Draft(g)
  BY DEF Found, Decision, Draft
<1>2. StagesSound'
  BY <1>1 DEF Inv, StagesSound, StageSound, HasDraft
<1>3. \A g \in Hooks : Settled(g) => Settled(g)'
  BY <1>1 DEF Settled
<1>4. LogsSound'
  BY <1>1, <1>3, RecordHooks DEF Inv, LogsSound
<1>5. DetectObserved'
  BY DEF Inv, DetectObserved
<1>6. ReportsSound'
  BY <1>1 DEF Inv, ReportsSound, ReportSound, Reported
<1>7. \A g \in Hooks : Passed(g) => Passed(g)'
  BY DEF Passed, Denied, Answered
<1>8. QED
  BY <1>2, <1>4, <1>5, <1>6, <1>7

LEMMA CallHooks ==
  ASSUME NEW c \in Calls
  PROVE  /\ <<c, "PreToolUse">> \in Hooks
         /\ <<c, "PermissionRequest">> \in Hooks
         /\ <<c, "PostToolUse">> \in Hooks
BY HookOf DEF Events, Preventive

LEMMA HarnessTypes ==
  ASSUME Inv, NEW c \in Calls, HarnessStep(c)
  PROVE  TypeOK'
<1>1. hook' \in [Calls \X Events -> Stages]
  BY CallHooks
  DEF Inv, TypeOK, HarnessStep, Propose, AfterPreToolUse, AfterPermissionRequest, AfterTool,
      Start, Stage, process, Stages, Running
<1>2. call' \in [Calls -> Progress]
  BY DEF Inv, TypeOK, HarnessStep, Propose, AfterPreToolUse, AfterPermissionRequest, AfterTool,
         Harness, Progress
<1>3. UNCHANGED <<policy, used, answer, emitted, logs, faults>>
  BY DEF HarnessStep, Propose, AfterPreToolUse, AfterPermissionRequest, AfterTool, process
<1>4. QED
  BY <1>1, <1>2, <1>3 DEF Inv, TypeOK, policy, logs

\* What the harness does with call c touches no other call.
LEMMA HarnessSoundStep ==
  ASSUME Inv, NEW c \in Calls, HarnessStep(c),
         \A g \in Hooks : Passed(g) => Passed(g)'
  PROVE  HarnessSound'
<1>1. ASSUME NEW x \in Calls \ {c}
      PROVE  /\ call'[x] = call[x]
             /\ hook'[<<x, "PreToolUse">>] = hook[<<x, "PreToolUse">>]
             /\ hook'[<<x, "PermissionRequest">>] = hook[<<x, "PermissionRequest">>]
  BY CallHooks
  DEF Inv, TypeOK, HarnessStep, Propose, AfterPreToolUse, AfterPermissionRequest, AfterTool,
      Harness, Start, Stage, process, Hooks
<1>2. /\ call'[c] = "proposed" => hook'[<<c, "PreToolUse">>] = "none"
      /\ call'[c] \in {"proposed", "checking"} => hook'[<<c, "PermissionRequest">>] = "none"
      /\ call'[c] = "asking" => Passed(<<c, "PreToolUse">>)'
      /\ call'[c] \in {"dispatched", "finished"} =>
            /\ Passed(<<c, "PreToolUse">>)'
            /\ \/ hook'[<<c, "PermissionRequest">>] = "none"
               \/ Passed(<<c, "PermissionRequest">>)'
  <2>1. CASE Propose(c)
    BY <2>1, CallHooks DEF Inv, TypeOK, HarnessSound, Propose, Harness, Start, Stage, Hooks
  <2>2. CASE AfterPreToolUse(c)
    BY <2>2, CallHooks
    DEF Inv, TypeOK, HarnessSound, AfterPreToolUse, Harness, Start, Stage, Hooks, Over, Passed
  <2>3. CASE AfterPermissionRequest(c)
    BY <2>3, CallHooks
    DEF Inv, TypeOK, HarnessSound, AfterPermissionRequest, Harness, process, Hooks, Over, Passed
  <2>4. CASE AfterTool(c)
    BY <2>4, CallHooks DEF Inv, TypeOK, HarnessSound, AfterTool, Harness, Start, Stage, Hooks
  <2>5. QED
    BY <2>1, <2>2, <2>3, <2>4 DEF HarnessStep
<1>3. QED
  BY <1>1, <1>2, CallHooks DEF Inv, HarnessSound

LEMMA HarnessInv ==
  ASSUME Inv, NEW c \in Calls, HarnessStep(c)
  PROVE  Inv'
<1>1. \A g \in Hooks : hook'[g] = hook[g] \/ (hook[g] = "none" /\ hook'[g] = "parse")
  BY CallHooks
  DEF Inv, TypeOK, HarnessStep, Propose, AfterPreToolUse, AfterPermissionRequest, AfterTool,
      Start, Stage, process, Hooks
<1>2. UNCHANGED <<used, answer, emitted, telemetry, detections>>
  BY DEF HarnessStep, Propose, AfterPreToolUse, AfterPermissionRequest, AfterTool, process, logs
<1>3. /\ StagesSound' /\ LogsSound' /\ DetectObserved' /\ ReportsSound'
      /\ \A g \in Hooks : Passed(g) => Passed(g)'
  BY <1>1, <1>2, HarnessKeeps
<1>4. QED
  BY <1>3, HarnessTypes, HarnessSoundStep DEF Inv

\* A process keeps the bundle it has loaded, whatever happens to the files.
LEMMA PolicyStep ==
  ASSUME Inv, ChangePolicy
  PROVE  Inv'
<1>1. UNCHANGED <<hook, used, answer, emitted, call, telemetry, detections>>
  BY DEF ChangePolicy, process, logs
<1>2. TypeOK'
  BY BoundsAssumption DEF Inv, TypeOK, ChangePolicy, process, logs
<1>3. /\ StagesSound' /\ LogsSound' /\ DetectObserved' /\ ReportsSound'
      /\ \A g \in Hooks : Passed(g) => Passed(g)'
  BY <1>1, HarnessKeeps
<1>4. HarnessSound'
  BY <1>1, <1>3, CallHooks DEF Inv, HarnessSound
<1>5. QED
  BY <1>2, <1>3, <1>4 DEF Inv

LEMMA StutterStep == Inv /\ UNCHANGED vars => Inv'
<1> SUFFICES ASSUME Inv, UNCHANGED vars PROVE Inv'
  OBVIOUS
<1>1. UNCHANGED <<hook, used, answer, emitted, call, telemetry, detections>>
  BY DEF vars
<1>2. TypeOK'
  BY DEF Inv, TypeOK, vars
<1>3. /\ StagesSound' /\ LogsSound' /\ DetectObserved' /\ ReportsSound'
      /\ \A g \in Hooks : Passed(g) => Passed(g)'
  BY <1>1, HarnessKeeps
<1>4. HarnessSound'
  BY <1>1, <1>3, CallHooks DEF Inv, HarnessSound
<1>5. QED
  BY <1>2, <1>3, <1>4 DEF Inv

LEMMA InvStep == Inv /\ [Next]_vars => Inv'
<1> SUFFICES ASSUME Inv, [Next]_vars PROVE Inv'
  OBVIOUS
<1>1. ASSUME NEW h \in Hooks, HookStep(h) \/ ParseFails(h) \/ Fail(h) \/ Kill(h)
      PROVE  Inv'
  BY <1>1, ParseStep, LoadStep, EvaluateStep, ObserveStep, DetectStep, PrintStep, FailStep
  DEF HookStep
<1>2. ASSUME NEW c \in Calls, HarnessStep(c)
      PROVE  Inv'
  BY <1>2, HarnessInv
<1>3. QED
  BY <1>1, <1>2, PolicyStep, StutterStep DEF Next, Hooks

-----------------------------------------------------------------------------
(* Theorems *)

\* The inductive invariant holds in every reachable state: what each stage of a
\* hook process knows, how far the harness is, and what the two logs say.
THEOREM Invariance == Spec => []Inv
BY InvInit, InvStep, PTL DEF Spec

\* Every variable keeps its type, for any calls, bundles and verdicts.
THEOREM TypeCorrect == Spec => []TypeOK
<1>1. Inv => TypeOK
  BY DEF Inv
<1>2. QED
  BY <1>1, Invariance, PTL

\* Fail-closed dispatch (codex_hook.py, main): a call that runs was allowed by
\* every preventive hook that answered, under a valid bundle.
THEOREM DispatchIsAllowed == Spec => []DispatchWasAllowed
<1>1. ASSUME Inv PROVE DispatchWasAllowed
  <2> SUFFICES ASSUME NEW c \in Calls, NEW e \in Preventive,
                      call[c] \in {"dispatched", "finished"}, Answered(<<c, e>>)
               PROVE  /\ used[<<c, e>>] \in Bundles
                      /\ Verdict[used[<<c, e>>]][c].action = "allow"
    BY DEF DispatchWasAllowed
  <2> DEFINE h == <<c, e>>
  <2>1. h \in Hooks /\ h[1] = c /\ h[2] = e
    BY HookOf DEF Events
  <2>2. hook[h] = "ended" /\ answer[h] # "anonymous" /\ answer[h] \notin {"deny", "failedDeny"}
    BY <1>1, <2>1 DEF Inv, HarnessSound, Passed, Denied, Answered, Preventive
  <2>3. HasDraft(h)
    BY <1>1, <2>1, <2>2 DEF Inv, StagesSound, StageSound, FailureAnswer
  <2>4. Decision(h) # "deny" /\ Decision(h) # "observe"
    BY <2>1, <2>2, <2>3, FoundFacts, DraftFacts DEF HasDraft, Decision
  <2>5. QED
    BY <2>1, <2>3, <2>4 DEF HasDraft, Decision, Found
<1>2. QED
  BY <1>1, Invariance, PTL

\* The observation of an event and its answer tell the same decision, although
\* anything may raise between the two (codex_hook.py, run).
THEOREM ObservationsMatchAnswers == Spec => []ObservationMatchesAnswer
<1>1. ASSUME Inv PROVE ObservationMatchesAnswer
  <2> SUFFICES ASSUME NEW o \in telemetry, hook[<<o.call, o.event>>] = "ended"
               PROVE  o.decision = "deny" <=> Denied(<<o.call, o.event>>)
    BY DEF ObservationMatchesAnswer
  <2> DEFINE h == <<o.call, o.event>>
  <2>1. h \in Hooks /\ Settled(h) /\ o.decision = Decision(h)
    BY <1>1, RecordHooks DEF Inv, LogsSound
  <2>2. CASE Decision(h) = "deny"
    BY <2>1, <2>2 DEF Settled, Denied, Answered
  <2>3. CASE Decision(h) # "deny"
    <3>1. answer[h] \in {"nothing", "rewrite"}
      BY <2>1, <2>3, DraftFacts DEF Settled
    <3>2. QED
      BY <2>1, <2>3, <3>1 DEF Denied, Answered
  <2>4. QED
    BY <2>2, <2>3
<1>2. QED
  BY <1>1, Invariance, PTL

\* A call with a detection never runs, unless its hook was killed unanswered.
THEOREM DetectedCallsNeverRun == Spec => []DetectedNeverRuns
<1>1. ASSUME Inv PROVE DetectedNeverRuns
  <2> SUFFICES ASSUME NEW d \in detections, hook[<<d.call, d.event>>] # "killed",
                      call[d.call] \in {"dispatched", "finished"}
               PROVE  FALSE
    BY DEF DetectedNeverRuns
  <2> DEFINE h == <<d.call, d.event>>
  <2>1. h \in Hooks /\ d.call \in Calls /\ d.event \in Preventive
    BY <1>1, RecordHooks DEF Inv, TypeOK, Detections
  <2>2. PICK o \in telemetry : o.call = d.call /\ o.event = d.event /\ o.decision = "deny"
    BY <1>1 DEF Inv, LogsSound
  <2>3. Settled(h) /\ Decision(h) = "deny"
    BY <1>1, <2>2 DEF Inv, LogsSound
  <2>4. hook[h] = "none" \/ Passed(h)
    BY <1>1, <2>1 DEF Inv, HarnessSound, Preventive
  <2>5. QED
    BY <2>3, <2>4 DEF Settled, Passed, Denied, Answered
<1>2. QED
  BY <1>1, Invariance, PTL

\* Evidence is ordered: no detection without the observation it belongs to.
THEOREM DetectionsAreObserved == Spec => []DetectionHasObservation
<1>1. Inv => DetectionHasObservation
  BY DEF Inv, LogsSound, DetectionHasObservation
<1>2. QED
  BY <1>1, Invariance, PTL

\* Evidence is complete: every rule behind a policy denial has its detection.
THEOREM DenialsAreFullyReported == Spec => []DenialFullyReported
<1>1. Inv => DenialFullyReported
  BY DEF Inv, ReportsSound, ReportSound, Reported, DenialFullyReported, Hooks
<1>2. QED
  BY <1>1, Invariance, PTL
=============================================================================
