-------------------------- MODULE ThreatEnrichment --------------------------
(***************************************************************************)
(* The remote lookups of one hook process (VirusTotalEnricher,             *)
(* threat_intel.py).  _enrich_policy_gated_targets calls lookup once for   *)
(* each invocation and once for the tool, with the targets that the rules  *)
(* select (PolicyEngine); the lookups share a memo, a budget and the time  *)
(* that the harness gives the process.                                     *)
(*                                                                         *)
(* Time passes in requests only: the rest of the hook is taken as instant. *)
(* A request may take longer than timeout_ms, which bounds each socket     *)
(* operation; Slowest bounds the whole.  Labels, which are copied from the *)
(* response, and the digest in an indicator id are left out.               *)
(***************************************************************************)
EXTENDS Integers, Sequences, Functions

CONSTANTS
    Targets,     \* domains and addresses as the command or the input spells them
    Indicators,  \* normalized domains and addresses
    Normal,      \* normalize_indicator: the indicator of a target, or Invalid
    Invalid,
    Calls,       \* calls of lookup an event may lead to: sequences of sequences of targets
    Statistics,  \* last_analysis_stats of valid responses
    NotFound,    \* a 404
    Failed,      \* what the transport or the parser turns into a ThreatIntelError
    Broke,       \* what neither catches: http.client.IncompleteRead, a RecursionError
    Unasked,     \* the memo has no entry
    Nothing,     \* the empty ThreatMatches of a failure
    MaliciousThreshold, SuspiciousThreshold,
    MaxLookups,  \* max_lookups
    Slowest,     \* the longest that a request may take
    Latencies,   \* how long requests take
    Timeouts     \* how long the harness may wait for the hook

Modes == {"open", "closed"}
Verdicts == {"malicious", "suspicious", "benign", "unknown"}
Counts == [malicious : Nat, suspicious : Nat, harmless : Nat, silent : Nat]

Reports == [indicator : Indicators, verdict : Verdicts, confidence : 0..100]
Matches == [targets : SUBSET Indicators, verdicts : SUBSET Verdicts, confidences : SUBSET (0..100)]

ASSUME NormalAssumption ==
    Normal \in [Targets -> Indicators \cup {Invalid}] /\ Invalid \notin Indicators
ASSUME CallsAssumption == Calls \subseteq Seq(Seq(Targets))
ASSUME StatisticsAssumption == Statistics \subseteq Counts
ASSUME AnswersAssumption ==
    /\ {NotFound, Failed, Broke} \cap Statistics = {}
    /\ NotFound # Failed /\ NotFound # Broke /\ Failed # Broke
    /\ {Unasked, Nothing} \cap Reports = {} /\ Unasked # Nothing
ASSUME ThresholdsAssumption ==
    MaliciousThreshold \in Nat \ {0} /\ SuspiciousThreshold \in Nat \ {0}
ASSUME LimitsAssumption ==
    /\ MaxLookups \in Nat \ {0} /\ Slowest \in Nat
    /\ Latencies \subseteq 0..Slowest /\ Timeouts \subseteq Nat

VARIABLES
    mode,       \* failure_mode
    hasKey,     \* the environment variable with the API key is set
    timeout,    \* when the harness kills the hook
    calls,      \* the calls of lookup of this event
    at,         \* the call being served
    next,       \* its target being looked up
    results,    \* per call, the ThreatMatches merged so far
    memo,       \* _memo: Unasked, Nothing after a failure, or a report
    count,      \* _lookup_count
    warnings,   \* targets whose lookup left a warning
    available,  \* _available
    clock,      \* time since the process started
    pc          \* "looking", "evaluated", "raised" or "killed"

VARIABLE asked  \* history: the indicators requested, in order

config == <<mode, hasKey, timeout, calls>>
vars == <<mode, hasKey, timeout, calls, at, next, results, memo, count, warnings,
          available, clock, pc, asked>>

TypeOK ==
    /\ mode \in Modes /\ hasKey \in BOOLEAN
    /\ timeout \in Timeouts /\ calls \in Calls
    /\ at \in 1..(Len(calls) + 1) /\ next \in Nat \ {0}
    /\ at \leq Len(calls) => next \leq Len(calls[at]) + 1
    /\ results \in [1..Len(calls) -> Matches]
    /\ memo \in [Indicators -> Reports \cup {Unasked, Nothing}]
    /\ count \in 0..MaxLookups
    /\ warnings \subseteq Targets
    /\ available \in BOOLEAN
    /\ clock \in Nat
    /\ pc \in {"looking", "evaluated", "raised", "killed"}
    /\ asked \in Seq(Indicators)

NoMatches == [targets |-> {}, verdicts |-> {}, confidences |-> {}]

Init ==
    /\ mode \in Modes /\ hasKey \in BOOLEAN
    /\ timeout \in Timeouts /\ calls \in Calls
    /\ at = 1 /\ next = 1
    /\ results = [k \in 1..Len(calls) |-> NoMatches]
    /\ memo = [i \in Indicators |-> Unasked]
    /\ count = 0 /\ warnings = {} /\ available = FALSE
    /\ clock = 0 /\ pc = "looking" /\ asked = <<>>

-----------------------------------------------------------------------------
(* Reports *)

\* round(n / d) of Python: halves go to the even neighbour.
Rounded(n, d) ==
    LET q == n \div d
        r == n % d
    IN  IF 2 * r < d \/ (2 * r = d /\ q % 2 = 0) THEN q ELSE q + 1

\* Share of the engines that flag the target: "silent" are all the others,
\* those that timed out or do not know the type among them.
Confidence(s) ==
    LET total == s.malicious + s.suspicious + s.harmless + s.silent
    IN  IF total = 0 THEN 0 ELSE Rounded((s.malicious + s.suspicious) * 100, total)

Verdict(s) ==
    CASE s.malicious \geq MaliciousThreshold -> "malicious"
      [] s.malicious < MaliciousThreshold /\ s.suspicious \geq SuspiciousThreshold -> "suspicious"
      [] s.malicious < MaliciousThreshold /\ s.suspicious < SuspiciousThreshold ->
           IF s.harmless > 0 THEN "benign" ELSE "unknown"

\* _parse_response and _result.
Report(i, answer) ==
    IF answer = NotFound THEN [indicator |-> i, verdict |-> "unknown", confidence |-> 0]
    ELSE [indicator |-> i, verdict |-> Verdict(answer), confidence |-> Confidence(answer)]

\* merge_matches: field by field, which no longer tells whose verdict is whose.
Merge(m, r) ==
    IF r = Nothing THEN m
    ELSE [targets |-> m.targets \cup {r.indicator},
          verdicts |-> m.verdicts \cup {r.verdict},
          confidences |-> m.confidences \cup {r.confidence}]

-----------------------------------------------------------------------------
(* One target: _lookup *)

Target == calls[at][next]
Indicator == Normal[Target]

Looking == pc = "looking" /\ at \leq Len(calls) /\ next \leq Len(calls[at])

\* The target is done, with the report r or nothing.
Take(r) ==
    /\ results' = [results EXCEPT ![at] = Merge(@, r)]
    /\ next' = next + 1

Remember(i, r) == memo' = [memo EXCEPT ![i] = r]

\* Mutant: a failure is an empty report, whatever the mode.
GiveUpOpen(remembered) ==
    /\ warnings' = warnings \cup {Target}
    /\ remembered
    /\ Take(Nothing)
    /\ UNCHANGED pc

\* _failure: raises in closed mode; otherwise warns and goes on, after
\* `remembered`, what the caller does to the memo.
GiveUp(remembered) ==
    \/ /\ mode = "closed"
       /\ pc' = "raised"
       /\ UNCHANGED <<results, next, memo, warnings>>
    \/ /\ mode = "open"
       /\ warnings' = warnings \cup {Target}
       /\ remembered
       /\ Take(Nothing)
       /\ UNCHANGED pc

InvalidTarget ==
    /\ Looking
    /\ Indicator = Invalid
    /\ GiveUp(UNCHANGED memo)
    /\ UNCHANGED <<config, at, count, available, clock, asked>>

Memoized ==
    /\ Looking
    /\ Indicator # Invalid /\ memo[Indicator] # Unasked
    /\ Take(memo[Indicator])
    /\ UNCHANGED <<config, at, memo, count, warnings, available, clock, pc, asked>>

\* The budget is spent, or there is no key to ask with.
Unable ==
    /\ Looking
    /\ Indicator # Invalid /\ memo[Indicator] = Unasked
    /\ count \geq MaxLookups \/ ~hasKey
    /\ GiveUp(Remember(Indicator, Nothing))
    /\ UNCHANGED <<config, at, count, available, clock, asked>>

Askable ==
    /\ Looking
    /\ Indicator # Invalid /\ memo[Indicator] = Unasked
    /\ count < MaxLookups /\ hasKey

\* Mutant: only requests that are answered are counted.
CountAfterAnswered(answer) == IF answer \in {Failed, Broke} THEN count ELSE count + 1

\* _lookup_count goes up before the request.
CountAfter(answer) == count + 1

\* Mutant: the failure of a request is not remembered.
FailedRequestForgotten == GiveUp(UNCHANGED memo)

FailedRequest == GiveUp(Remember(Indicator, Nothing))

\* One request that ends in time.
Ask(answer, latency) ==
    /\ Askable
    /\ clock + latency \leq timeout
    /\ clock' = clock + latency
    /\ count' = CountAfter(answer)
    /\ asked' = Append(asked, Indicator)
    /\ \/ /\ answer = Broke
          /\ pc' = "raised"
          /\ UNCHANGED <<results, next, memo, warnings, available>>
       \/ /\ answer = Failed
          /\ FailedRequest
          /\ UNCHANGED available
       \/ /\ answer \in Statistics \cup {NotFound}
          /\ Remember(Indicator, Report(Indicator, answer))
          /\ Take(Report(Indicator, answer))
          /\ available' = TRUE
          /\ UNCHANGED <<warnings, pc>>
    /\ UNCHANGED <<config, at>>

\* The harness kills the hook during a request that takes too long.
Kill(latency) ==
    /\ Askable
    /\ clock + latency > timeout
    /\ pc' = "killed"
    /\ UNCHANGED <<config, at, next, results, memo, count, warnings, available, clock, asked>>

-----------------------------------------------------------------------------
(* The calls of lookup, one after the other *)

NextCall ==
    /\ pc = "looking"
    /\ at \leq Len(calls) /\ next > Len(calls[at])
    /\ at' = at + 1 /\ next' = 1
    /\ UNCHANGED <<config, results, memo, count, warnings, available, clock, pc, asked>>

\* evaluate goes on with the rules and the hook answers.
Evaluate ==
    /\ pc = "looking" /\ at > Len(calls)
    /\ pc' = "evaluated"
    /\ UNCHANGED <<config, at, next, results, memo, count, warnings, available, clock, asked>>

Next ==
    \/ InvalidTarget \/ Memoized \/ Unable
    \/ \E latency \in Latencies :
          \/ \E answer \in Statistics \cup {NotFound, Failed, Broke} : Ask(answer, latency)
          \/ Kill(latency)
    \/ NextCall \/ Evaluate

Spec == Init /\ [][Next]_vars

-----------------------------------------------------------------------------
(* Properties *)

\* docs/threat-intelligence.md: "memoizes duplicate lookups for that one
\* event", "max_lookups bounds calls for one hook event".  However targets
\* are spelt and whatever becomes of the requests, none is asked for twice.
AskedOnce ==
    /\ IsInjective(asked)
    /\ Len(asked) \leq MaxLookups

\* What was selected for call k and has a report in the memo.
Reported(k) == {i \in {Normal[t] : t \in Range(calls[k])} \cap Indicators : memo[i] \in Reports}

\* An evaluation that goes on has, for each call, the reports on just the
\* targets of this call that were answered, whichever call asked for them; in
\* closed mode that is all targets, in open mode the others left a warning.
GapsAreKnown ==
    pc = "evaluated" =>
        \A k \in DOMAIN calls :
            /\ results[k].targets = Reported(k)
            /\ results[k].verdicts = {memo[i].verdict : i \in Reported(k)}
            /\ \A t \in Range(calls[k]) :
                  Normal[t] \notin Reported(k) =>
                     mode = "open" /\ \E w \in warnings : Normal[w] = Normal[t]

\* Budget and time: where the harness waits for the slowest requests that the
\* budget allows, no hook is killed before it answers.
AnswersInTime ==
    MaxLookups * Slowest \leq timeout => pc # "killed"
=============================================================================
