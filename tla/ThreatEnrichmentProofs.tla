----------------------- MODULE ThreatEnrichmentProofs -----------------------
(***************************************************************************)
(* Theorems about ThreatEnrichment for any targets, calls, answers,        *)
(* latencies and budgets, and their TLAPS proofs.                          *)
(***************************************************************************)
EXTENDS ThreatEnrichment, SequenceTheorems, TLAPS

\* Every request is counted and leaves an entry in the memo, unless the
\* evaluation ends with it.
RequestsCounted ==
    /\ Len(asked) = count
    /\ IsInjective(asked)
    /\ pc = "looking" => \A k \in DOMAIN asked : memo[asked[k]] # Unasked

\* Each request took no longer than the slowest one.
TimeSpent ==
    /\ clock \leq count * Slowest
    /\ pc = "killed" => timeout < MaxLookups * Slowest

\* The memo has the report on i under i, and failures only in open mode, where
\* they have left a warning.
MemoSound ==
    \A i \in Indicators :
        /\ memo[i] \in Reports => memo[i].indicator = i
        /\ memo[i] = Nothing => mode = "open" /\ \E w \in warnings : Normal[w] = i

\* The targets of call k that have been looked up.
Served(k) ==
    {calls[k][n] : n \in {m \in DOMAIN calls[k] : k < at \/ (k = at /\ m < next)}}

\* Those of them that have a report.
Answered(k) == {i \in {Normal[t] : t \in Served(k)} \cap Indicators : memo[i] \in Reports}

\* The targets served so far have left their report, or else a warning.
GapsKnown ==
    \A k \in DOMAIN calls :
        /\ results[k].targets = Answered(k)
        /\ results[k].verdicts = {memo[i].verdict : i \in Answered(k)}
        /\ \A t \in Served(k) :
              /\ Normal[t] \in Indicators => memo[Normal[t]] # Unasked
              /\ Normal[t] = Invalid => mode = "open" /\ \E w \in warnings : Normal[w] = Invalid

Inv ==
    /\ TypeOK
    /\ RequestsCounted
    /\ TimeSpent
    /\ MemoSound
    /\ pc = "evaluated" => at > Len(calls)
    /\ pc \in {"looking", "evaluated"} => GapsKnown

-----------------------------------------------------------------------------
(* Confidences *)

\* The share of a part is at most 100, and only all of it rounds to 100 from there.
LEMMA RoundedShare ==
  ASSUME NEW n \in Nat, NEW d \in Nat \ {0}, n \leq d
  PROVE  Rounded(n * 100, d) \in 0..100
<1> DEFINE q == (n * 100) \div d
           r == (n * 100) % d
<1>1. q \in Int /\ r \in 0..(d - 1) /\ n * 100 = d * q + r
  OBVIOUS
<1>2. q \geq 0
  <2>1. CASE q \leq -1
    <3>1. d * q \leq d * (-1)
      BY <1>1, <2>1
    <3>2. QED
      BY <1>1, <3>1
  <2>2. QED
    BY <1>1, <2>1
<1>3. q \leq 100 /\ (q = 100 => r = 0)
  <2>1. CASE q \geq 101
    <3>1. d * q \geq d * 101
      BY <1>1, <2>1
    <3>2. QED
      BY <1>1, <3>1
  <2>2. CASE q = 100
    BY <1>1, <2>2
  <2>3. QED
    BY <1>1, <2>1, <2>2
<1> HIDE DEF q, r
<1>4. QED
  BY <1>1, <1>2, <1>3 DEF Rounded, q, r

\* What an answer leads to is a report on the indicator asked for.
LEMMA ReportType ==
  ASSUME NEW i \in Indicators, NEW answer \in Statistics \cup {NotFound}
  PROVE  Report(i, answer) \in Reports /\ Report(i, answer).indicator = i
<1>1. CASE answer = NotFound
  BY <1>1 DEF Report, Reports, Verdicts
<1>2. CASE answer # NotFound
  <2>1. answer \in Counts
    BY <1>2, StatisticsAssumption
  <2>2. Verdict(answer) \in Verdicts
    BY <2>1, ThresholdsAssumption DEF Verdict, Verdicts, Counts
  <2>3. Confidence(answer) \in 0..100
    <3> DEFINE total == answer.malicious + answer.suspicious + answer.harmless + answer.silent
               part == answer.malicious + answer.suspicious
    <3>1. total \in Nat /\ part \in Nat /\ part \leq total
      BY <2>1 DEF Counts
    <3> HIDE DEF total, part
    <3>2. total # 0 => Rounded(part * 100, total) \in 0..100
      BY <3>1, RoundedShare
    <3>3. QED
      BY <3>1, <3>2 DEF Confidence, total, part
  <2>4. QED
    BY <1>2, <2>2, <2>3 DEF Report, Reports
<1>3. QED
  BY <1>1, <1>2

-----------------------------------------------------------------------------
(* One target *)

LEMMA CallsType ==
  ASSUME TypeOK
  PROVE  /\ Len(calls) \in Nat /\ DOMAIN calls = 1..Len(calls) /\ at \in Nat /\ next \in Nat
         /\ \A k \in DOMAIN calls :
               /\ calls[k] \in Seq(Targets)
               /\ Len(calls[k]) \in Nat
               /\ DOMAIN calls[k] = 1..Len(calls[k])
               /\ \A n \in DOMAIN calls[k] : calls[k][n] \in Targets
<1>1. calls \in Seq(Seq(Targets)) /\ at \in Nat /\ next \in Nat
  BY CallsAssumption DEF TypeOK
<1>2. QED
  BY <1>1

LEMMA TargetType ==
  ASSUME TypeOK, Looking
  PROVE  /\ at \in DOMAIN calls /\ next \in DOMAIN calls[at]
         /\ Target \in Targets /\ Indicator \in Indicators \cup {Invalid}
<1>1. at \in DOMAIN calls /\ next \in DOMAIN calls[at]
  BY CallsType DEF Looking, TypeOK
<1>2. Target \in Targets
  BY <1>1, CallsType DEF Target
<1>3. QED
  BY <1>1, <1>2, NormalAssumption DEF Indicator

\* After one target, its call has one more target served.
LEMMA ServedTarget ==
  ASSUME TypeOK, Looking, next' = next + 1, UNCHANGED <<at, calls>>
  PROVE  /\ Served(at)' = Served(at) \cup {Target}
         /\ \A k \in DOMAIN calls : k # at => Served(k)' = Served(k)
<1>1. at \in DOMAIN calls /\ next \in DOMAIN calls[at] /\ next \in Nat
  BY TargetType DEF TypeOK
<1>2. \A m \in DOMAIN calls[at] : m \in Nat
  BY <1>1, CallsType
<1>3. \A m \in DOMAIN calls[at] : m < next + 1 <=> m < next \/ m = next
  BY <1>1, <1>2
<1>4. at \in Nat
  BY DEF TypeOK
<1>5. ~(at < at)
  BY <1>4
<1>6. Served(at)' = Served(at) \cup {Target}
  <2>1. Served(at)' = {calls[at][n] : n \in {m \in DOMAIN calls[at] : m < next + 1}}
    BY <1>5 DEF Served
  <2>2. Served(at) = {calls[at][n] : n \in {m \in DOMAIN calls[at] : m < next}}
    BY <1>5 DEF Served
  <2>3. QED
    BY <1>1, <1>3, <2>1, <2>2 DEF Target
<1>7. \A k \in DOMAIN calls : k # at => Served(k)' = Served(k)
  BY DEF Served
<1>8. QED
  BY <1>6, <1>7

\* How a target is served with the report r or with nothing.
ServedWith(r) ==
    /\ Looking /\ UNCHANGED <<config, at>>
    /\ Take(r)
    /\ warnings \subseteq warnings' /\ warnings' \subseteq Targets
    /\ \/ /\ Indicator = Invalid /\ r = Nothing /\ UNCHANGED memo
          /\ mode = "open" /\ Target \in warnings'
       \/ /\ Indicator \in Indicators /\ r \in Reports \cup {Nothing}
          /\ r \in Reports => r.indicator = Indicator
          /\ r = Nothing => mode = "open" /\ \E w \in warnings' : Normal[w] = Indicator
          /\ memo' = [memo EXCEPT ![Indicator] = r]
          /\ memo[Indicator] \in {Unasked, r}

LEMMA ServedMemo ==
  ASSUME TypeOK, MemoSound, NEW r, ServedWith(r)
  PROVE  /\ memo' \in [Indicators -> Reports \cup {Unasked, Nothing}]
         /\ MemoSound'
         /\ \A i \in Indicators : memo[i] # Unasked => memo'[i] = memo[i]
         /\ Indicator \in Indicators => memo'[Indicator] = r
         /\ \A i \in Indicators \ {Indicator} : memo'[i] = memo[i]
<1>1. memo \in [Indicators -> Reports \cup {Unasked, Nothing}]
  BY DEF TypeOK
<1>2. mode' = mode
  BY DEF ServedWith, config
<1>3. CASE Indicator = Invalid
  BY <1>1, <1>2, <1>3, NormalAssumption DEF ServedWith, MemoSound
<1>4. CASE Indicator \in Indicators
  <2>1. /\ r \in Reports \cup {Nothing}
        /\ r \in Reports => r.indicator = Indicator
        /\ r = Nothing => mode = "open" /\ \E w \in warnings' : Normal[w] = Indicator
        /\ memo' = [memo EXCEPT ![Indicator] = r]
        /\ memo[Indicator] \in {Unasked, r}
        /\ warnings \subseteq warnings'
    BY <1>4, NormalAssumption DEF ServedWith
  <2> DEFINE i == Indicator
  <2> HIDE DEF i
  <2>2. /\ memo'[i] = r
        /\ \A j \in Indicators \ {i} : memo'[j] = memo[j]
        /\ memo' \in [Indicators -> Reports \cup {Unasked, Nothing}]
    BY <1>1, <1>4, <2>1 DEF i
  <2>3. ASSUME NEW j \in Indicators
        PROVE  /\ memo'[j] \in Reports => memo'[j].indicator = j
               /\ memo'[j] = Nothing => mode = "open" /\ \E w \in warnings' : Normal[w] = j
    <3>1. CASE j = i
      BY <2>1, <2>2, <3>1 DEF i
    <3>2. CASE j # i
      BY <2>1, <2>2, <3>2 DEF MemoSound
    <3>3. QED
      BY <3>1, <3>2
  <2>4. QED
    BY <1>2, <2>1, <2>2, <2>3 DEF MemoSound, i
<1>5. QED
  BY <1>3, <1>4, TargetType DEF ServedWith

\* Serving a target leaves what is known of the others as it is.
LEMMA ServedGaps ==
  ASSUME TypeOK, MemoSound, GapsKnown, NEW r, ServedWith(r)
  PROVE  GapsKnown'
<1>1. /\ at \in DOMAIN calls /\ Target \in Targets
      /\ Indicator \in Indicators \cup {Invalid} /\ Indicator = Normal[Target]
      /\ UNCHANGED <<at, calls, mode>> /\ next' = next + 1
      /\ warnings \subseteq warnings'
  BY TargetType DEF ServedWith, config, Take, Indicator
<1>2. /\ Served(at)' = Served(at) \cup {Target}
      /\ \A k \in DOMAIN calls : k # at => Served(k)' = Served(k)
  BY <1>1, ServedTarget DEF ServedWith
<1>3. /\ \A i \in Indicators : memo[i] # Unasked => memo'[i] = memo[i]
      /\ Indicator \in Indicators => memo'[Indicator] = r
  BY ServedMemo
<1>4. \A k \in DOMAIN calls : \A t \in Served(k) :
         /\ Normal[t] \in Indicators => memo'[Normal[t]] = memo[Normal[t]] /\ memo[Normal[t]] # Unasked
         /\ Normal[t] = Invalid => mode = "open" /\ \E w \in warnings : Normal[w] = Invalid
  BY <1>3 DEF GapsKnown
<1>5. ASSUME NEW k \in DOMAIN calls
      PROVE  {i \in {Normal[t] : t \in Served(k)} \cap Indicators : memo'[i] \in Reports} = Answered(k)
  BY <1>4 DEF Answered
<1>6. results' = [results EXCEPT ![at] = Merge(@, r)]
      /\ results \in [DOMAIN calls -> Matches]
  BY CallsType DEF ServedWith, Take, TypeOK
<1>7. ASSUME NEW k \in DOMAIN calls, k # at
      PROVE  /\ results'[k].targets = Answered(k)'
             /\ results'[k].verdicts = {memo'[i].verdict : i \in Answered(k)'}
             /\ \A t \in Served(k)' :
                   /\ Normal[t] \in Indicators => memo'[Normal[t]] # Unasked
                   /\ Normal[t] = Invalid =>
                         mode' = "open" /\ \E w \in warnings' : Normal[w] = Invalid
  <2>1. Served(k)' = Served(k) /\ results'[k] = results[k]
    BY <1>2, <1>6, <1>7
  <2>2. Answered(k)' = Answered(k)
    BY <1>5, <2>1 DEF Answered
  <2>3. \A i \in Answered(k) : memo'[i] = memo[i]
    BY <1>4 DEF Answered
  <2>4. QED
    BY <1>1, <1>4, <2>1, <2>2, <2>3 DEF GapsKnown
<1>8. /\ results'[at].targets = Answered(at)'
      /\ results'[at].verdicts = {memo'[i].verdict : i \in Answered(at)'}
      /\ \A t \in Served(at)' :
            /\ Normal[t] \in Indicators => memo'[Normal[t]] # Unasked
            /\ Normal[t] = Invalid =>
                  mode' = "open" /\ \E w \in warnings' : Normal[w] = Invalid
  <2>1. results'[at] = Merge(results[at], r)
    BY <1>1, <1>6
  <2>2. \A i \in Answered(at) : memo'[i] = memo[i]
    BY <1>1, <1>4 DEF Answered
  <2>3. CASE r \in Reports
    <3>1. Indicator \in Indicators /\ r.indicator = Indicator /\ r # Nothing
          /\ memo'[Indicator] = r
      BY <1>3, <2>3, AnswersAssumption DEF ServedWith
    <3>2. Answered(at)' = Answered(at) \cup {Indicator}
      BY <1>1, <1>2, <1>5, <2>3, <3>1 DEF Answered
    <3>3. /\ results'[at].targets = results[at].targets \cup {Indicator}
          /\ results'[at].verdicts = results[at].verdicts \cup {r.verdict}
      BY <2>1, <3>1 DEF Merge
    <3>4. {memo'[i].verdict : i \in Answered(at) \cup {Indicator}}
            = {memo[i].verdict : i \in Answered(at)} \cup {r.verdict}
      BY <2>2, <3>1
    <3>5. Unasked \notin Reports /\ Indicator # Invalid
      BY <3>1, AnswersAssumption, NormalAssumption
    <3>6. QED
      BY <1>1, <1>2, <1>4, <2>3, <3>1, <3>2, <3>3, <3>4, <3>5 DEF GapsKnown
  <2>4. CASE r \notin Reports
    <3>1. r = Nothing /\ results'[at] = results[at]
      BY <2>1, <2>4 DEF ServedWith, Merge
    <3>2. Indicator \in Indicators => memo'[Indicator] \notin Reports /\ memo'[Indicator] # Unasked
      BY <1>3, <2>4, <3>1, AnswersAssumption
    <3>3. Answered(at)' = Answered(at)
      BY <1>1, <1>2, <1>5, <3>2 DEF Answered
    <3>4. Indicator = Invalid => mode = "open" /\ \E w \in warnings' : Normal[w] = Invalid
      BY <1>1, NormalAssumption DEF ServedWith
    <3>5. QED
      BY <1>1, <1>2, <1>4, <2>2, <3>1, <3>2, <3>3, <3>4 DEF GapsKnown
  <2>5. QED
    BY <2>3, <2>4
<1>9. QED
  BY <1>1, <1>7, <1>8 DEF GapsKnown

LEMMA ServedType ==
  ASSUME TypeOK, MemoSound, NEW r, ServedWith(r)
  PROVE  /\ at' \in 1..(Len(calls') + 1) /\ next' \in Nat \ {0}
         /\ at' \leq Len(calls') => next' \leq Len(calls'[at']) + 1
         /\ results' \in [1..Len(calls') -> Matches]
         /\ memo' \in [Indicators -> Reports \cup {Unasked, Nothing}]
         /\ warnings' \subseteq Targets
         /\ mode' \in Modes /\ hasKey' \in BOOLEAN /\ timeout' \in Timeouts /\ calls' \in Calls
<1>1. /\ Looking /\ UNCHANGED <<mode, hasKey, timeout, calls, at>>
      /\ next' = next + 1 /\ results' = [results EXCEPT ![at] = Merge(@, r)]
      /\ warnings' \subseteq Targets
      /\ r \in Reports \cup {Nothing}
  BY DEF ServedWith, config, Take
<1>2. Merge(results[at], r) \in Matches
  <2>1. results[at] \in Matches
    BY <1>1, CallsType, TargetType DEF TypeOK
  <2>2. QED
    BY <1>1, <2>1 DEF Merge, Matches, Reports
<1>3. next \in DOMAIN calls[at] /\ at \in DOMAIN calls
  BY <1>1, TargetType
<1>4. next + 1 \in Nat \ {0} /\ next + 1 \leq Len(calls[at]) + 1
  BY <1>3, CallsType
<1>5. QED
  BY <1>1, <1>2, <1>4, ServedMemo DEF TypeOK

-----------------------------------------------------------------------------
(* The invariant *)

LEMMA InitInv == Init => Inv
<1> SUFFICES ASSUME Init PROVE Inv
  OBVIOUS
<1>1. /\ calls \in Seq(Seq(Targets))
      /\ Len(calls) \in Nat /\ DOMAIN calls = 1..Len(calls)
      /\ 1 \leq Len(calls) => calls[1] \in Seq(Targets) /\ Len(calls[1]) \in Nat
  BY CallsAssumption DEF Init
<1>2. NoMatches \in Matches
  BY DEF NoMatches, Matches
<1>3. TypeOK
  <2>1. at \in 1..(Len(calls) + 1) /\ next \in Nat \ {0}
        /\ (at \leq Len(calls) => next \leq Len(calls[at]) + 1)
    BY <1>1 DEF Init
  <2>2. results \in [1..Len(calls) -> Matches] /\ memo \in [Indicators -> Reports \cup {Unasked, Nothing}]
    BY <1>2 DEF Init
  <2>3. count \in 0..MaxLookups /\ clock \in Nat /\ asked \in Seq(Indicators)
    BY LimitsAssumption DEF Init
  <2>4. QED
    BY <2>1, <2>2, <2>3 DEF Init, TypeOK
<1>4. RequestsCounted
  BY DEF Init, RequestsCounted, IsInjective
<1>5. TimeSpent
  BY LimitsAssumption DEF Init, TimeSpent
<1>6. MemoSound
  BY AnswersAssumption DEF Init, MemoSound
<1>7. GapsKnown
  <2>1. \A k \in DOMAIN calls : Served(k) = {}
    BY <1>1, <1>3, CallsType DEF Init, Served
  <2>2. \A k \in DOMAIN calls : Answered(k) = {}
    BY <2>1 DEF Answered
  <2>3. QED
    BY <1>1, <2>1, <2>2 DEF Init, NoMatches, GapsKnown
<1>8. QED
  BY <1>3, <1>4, <1>5, <1>6, <1>7 DEF Inv, Init

\* A target served within the budget and in time.
LEMMA ServedStep ==
  ASSUME Inv, NEW r, ServedWith(r), UNCHANGED pc,
         count' \in 0..MaxLookups, clock' \in Nat, available' \in BOOLEAN,
         asked' \in Seq(Indicators), RequestsCounted', TimeSpent'
  PROVE  Inv'
<1>1. pc = "looking" /\ TypeOK /\ MemoSound /\ GapsKnown
  BY DEF Inv, ServedWith, Looking
<1>2. GapsKnown' /\ MemoSound'
  BY <1>1, ServedGaps, ServedMemo
<1>3. TypeOK'
  BY <1>1, ServedType DEF TypeOK
<1>4. QED
  BY <1>1, <1>2, <1>3 DEF Inv

\* A step that ends the evaluation and leaves the lookups as they are.
LEMMA EndStep ==
  ASSUME Inv, UNCHANGED <<config, at, next, results, memo, warnings, available>>,
         pc' \in {"raised", "killed"},
         count' \in 0..MaxLookups, clock' \in Nat,
         asked' \in Seq(Indicators), RequestsCounted', TimeSpent'
  PROVE  Inv'
<1>1. TypeOK'
  BY DEF Inv, TypeOK, config
<1>2. MemoSound'
  BY DEF Inv, MemoSound, config
<1>3. QED
  BY <1>1, <1>2 DEF Inv

\* Serving a target without a request leaves the requests counted.
LEMMA ServedRequests ==
  ASSUME Inv, NEW r, ServedWith(r), UNCHANGED <<pc, count, asked, clock, timeout>>
  PROVE  RequestsCounted' /\ TimeSpent'
<1>1. pc = "looking" /\ TypeOK /\ MemoSound /\ RequestsCounted /\ TimeSpent
  BY DEF Inv, ServedWith, Looking
<1>2. \A k \in DOMAIN asked : asked[k] \in Indicators
  BY <1>1 DEF TypeOK
<1>3. \A k \in DOMAIN asked : memo[asked[k]] # Unasked /\ memo'[asked[k]] = memo[asked[k]]
  BY <1>1, <1>2, ServedMemo DEF RequestsCounted
<1>4. QED
  BY <1>1, <1>3 DEF RequestsCounted, TimeSpent

\* A target that cannot be looked up.
LEMMA GiveUpStep ==
  ASSUME Inv, Looking,
         \/ Indicator = Invalid /\ GiveUp(UNCHANGED memo)
         \/ /\ Indicator \in Indicators /\ memo[Indicator] = Unasked
            /\ GiveUp(Remember(Indicator, Nothing)),
         UNCHANGED <<config, at, available>>,
         count' \in 0..MaxLookups, clock' \in Nat, asked' \in Seq(Indicators), TimeSpent',
         pc' = "raised" \/ ServedWith(Nothing) => RequestsCounted'
  PROVE  Inv'
<1>1. CASE mode = "closed" /\ pc' = "raised" /\ UNCHANGED <<results, next, memo, warnings>>
  BY <1>1, EndStep
<1>2. CASE /\ mode = "open" /\ warnings' = warnings \cup {Target} /\ Take(Nothing) /\ UNCHANGED pc
           /\ \/ Indicator = Invalid /\ UNCHANGED memo
              \/ /\ Indicator \in Indicators /\ memo[Indicator] = Unasked
                 /\ memo' = [memo EXCEPT ![Indicator] = Nothing]
  <2>1. Target \in Targets /\ Normal[Target] = Indicator /\ warnings \subseteq Targets
        /\ available \in BOOLEAN
    BY TargetType DEF Inv, TypeOK, Indicator
  <2>2. ServedWith(Nothing)
    BY <1>2, <2>1, AnswersAssumption DEF ServedWith
  <2>3. QED
    BY <1>2, <2>1, <2>2, ServedStep
<1>3. QED
  BY <1>1, <1>2 DEF GiveUp, Remember

\* A request is on an indicator that no earlier one was on.
LEMMA Requested ==
  ASSUME Inv, Askable, asked' = Append(asked, Indicator), count' = count + 1,
         pc' = "looking" =>
            /\ memo'[Indicator] # Unasked
            /\ \A i \in Indicators : memo[i] # Unasked => memo'[i] # Unasked
  PROVE  RequestsCounted' /\ asked' \in Seq(Indicators) /\ count' \in 0..MaxLookups
<1>1. /\ TypeOK /\ RequestsCounted /\ pc = "looking" /\ Looking
      /\ Indicator \in Indicators /\ memo[Indicator] = Unasked /\ count < MaxLookups
  BY TargetType DEF Inv, Askable, Looking
<1>2. asked \in Seq(Indicators) /\ count \in 0..MaxLookups /\ Len(asked) = count
      /\ \A k \in DOMAIN asked : asked[k] \in Indicators /\ memo[asked[k]] # Unasked
  BY <1>1 DEF TypeOK, RequestsCounted
<1> DEFINE i == Indicator
<1> HIDE DEF i
<1>3. /\ Len(asked') = count + 1 /\ asked' \in Seq(Indicators)
      /\ DOMAIN asked' = DOMAIN asked \cup {Len(asked) + 1}
      /\ asked'[Len(asked) + 1] = i
      /\ \A k \in DOMAIN asked : asked'[k] = asked[k]
      /\ Len(asked) + 1 \notin DOMAIN asked
  BY <1>1, <1>2 DEF i
<1>4. \A k \in DOMAIN asked : asked[k] # i
  BY <1>1, <1>2 DEF i
<1>5. IsInjective(asked')
  BY <1>1, <1>3, <1>4 DEF RequestsCounted, IsInjective
<1>6. pc' = "looking" => \A k \in DOMAIN asked' : memo'[asked'[k]] # Unasked
  BY <1>2, <1>3 DEF i
<1>7. count + 1 \in 0..MaxLookups
  BY <1>1, <1>2, LimitsAssumption
<1>8. QED
  BY <1>3, <1>5, <1>6, <1>7 DEF RequestsCounted

\* The time of one more request.
LEMMA RequestTime ==
  ASSUME Inv, NEW latency \in Latencies, clock' = clock + latency, count' = count + 1,
         pc' # "killed"
  PROVE  TimeSpent' /\ clock' \in Nat
<1>1. /\ count \in Nat /\ clock \in Nat /\ clock \leq count * Slowest
      /\ latency \in Nat /\ latency \leq Slowest /\ Slowest \in Nat
  BY LimitsAssumption DEF Inv, TypeOK, TimeSpent
<1>2. (count + 1) * Slowest = count * Slowest + Slowest /\ count * Slowest \in Nat
  BY <1>1
<1>3. QED
  BY <1>1, <1>2 DEF TimeSpent

LEMMA AskInv ==
  ASSUME Inv, NEW latency \in Latencies,
         NEW answer \in Statistics \cup {NotFound, Failed, Broke}, Ask(answer, latency)
  PROVE  Inv'
<1>1. /\ TypeOK /\ MemoSound /\ Looking /\ Askable /\ pc = "looking"
      /\ Indicator \in Indicators /\ memo[Indicator] = Unasked
      /\ memo \in [Indicators -> Reports \cup {Unasked, Nothing}]
      /\ Indicator # Invalid
  BY TargetType DEF Inv, Ask, Askable, Looking, TypeOK
<1>2. /\ asked' = Append(asked, Indicator) /\ count' = count + 1
      /\ clock' = clock + latency /\ UNCHANGED <<config, at>>
  BY DEF Ask, CountAfter
<1>3. pc' # "killed" => TimeSpent' /\ clock' \in Nat
  BY <1>2, RequestTime
<1>4. \A r : ServedWith(r) /\ r # Unasked =>
         /\ memo'[Indicator] # Unasked
         /\ \A i \in Indicators : memo[i] # Unasked => memo'[i] # Unasked
  BY <1>1, ServedMemo
<1>5. ASSUME pc' = "raised" \/ \E r : ServedWith(r) /\ r # Unasked
      PROVE  RequestsCounted' /\ asked' \in Seq(Indicators) /\ count' \in 0..MaxLookups
  BY <1>1, <1>2, <1>4, <1>5, Requested
<1>6. CASE answer = Broke /\ pc' = "raised"
           /\ UNCHANGED <<results, next, memo, warnings, available>>
  BY <1>2, <1>3, <1>5, <1>6, EndStep
<1>7. CASE answer = Failed /\ FailedRequest /\ UNCHANGED available
  <2>1. GiveUp(Remember(Indicator, Nothing))
    BY <1>7 DEF FailedRequest
  <2>2. pc' = "raised" \/ ServedWith(Nothing)
    <3>1. Target \in Targets /\ Normal[Target] = Indicator /\ warnings \subseteq Targets
      BY <1>1, TargetType DEF Indicator, TypeOK
    <3>2. QED
      BY <1>1, <1>2, <2>1, <3>1, AnswersAssumption DEF GiveUp, Remember, ServedWith
  <2>3. RequestsCounted' /\ asked' \in Seq(Indicators) /\ count' \in 0..MaxLookups
    BY <1>5, <2>2, AnswersAssumption
  <2>4. pc' # "killed"
    BY <1>1, <2>1 DEF GiveUp
  <2>5. QED
    BY <1>1, <1>2, <1>3, <1>7, <2>1, <2>3, <2>4, GiveUpStep
<1>8. CASE /\ answer \in Statistics \cup {NotFound}
           /\ Remember(Indicator, Report(Indicator, answer))
           /\ Take(Report(Indicator, answer))
           /\ available' = TRUE
           /\ UNCHANGED <<warnings, pc>>
  <2> DEFINE r == Report(Indicator, answer)
  <2>1. r \in Reports /\ r.indicator = Indicator /\ r # Unasked /\ r # Nothing
    BY <1>1, <1>8, ReportType, AnswersAssumption
  <2> HIDE DEF r
  <2>2. ServedWith(r)
    BY <1>1, <1>2, <1>8, <2>1 DEF ServedWith, Remember, TypeOK, r
  <2>3. RequestsCounted' /\ asked' \in Seq(Indicators) /\ count' \in 0..MaxLookups
    BY <1>5, <2>1, <2>2
  <2>4. pc' # "killed" /\ available' \in BOOLEAN /\ UNCHANGED pc
    BY <1>1, <1>8
  <2>5. QED
    BY <1>3, <2>2, <2>3, <2>4, ServedStep
<1>9. QED
  BY <1>6, <1>7, <1>8 DEF Ask

\* The next call starts with no target served.
LEMMA NextCallInv == Inv /\ NextCall => Inv'
<1> SUFFICES ASSUME Inv, NextCall PROVE Inv'
  OBVIOUS
<1>1. /\ TypeOK /\ GapsKnown /\ pc = "looking" /\ pc' = pc
      /\ at \leq Len(calls) /\ next > Len(calls[at])
      /\ at' = at + 1 /\ next' = 1
      /\ UNCHANGED <<mode, hasKey, timeout, calls, results, memo, count, warnings,
                     available, clock, asked>>
  BY DEF Inv, NextCall, config
<1>2. at \in 1..(Len(calls) + 1) /\ Len(calls) \in Nat /\ next \in Nat
  BY <1>1, CallsType DEF TypeOK
<1>3. TypeOK'
  <2>1. at' \in 1..(Len(calls) + 1) /\ next' \in Nat \ {0}
    BY <1>1, <1>2
  <2>2. at' \leq Len(calls) => Len(calls[at']) \in Nat
    BY <1>1, <2>1, CallsType
  <2>3. at' \leq Len(calls) => next' \leq Len(calls[at']) + 1
    BY <1>1, <2>2
  <2>4. QED
    BY <1>1, <2>1, <2>3 DEF TypeOK
<1>4. ASSUME NEW k \in DOMAIN calls
      PROVE  Served(k)' = Served(k)
  <2>1. k \in Nat /\ \A m \in DOMAIN calls[k] : m \in 1..Len(calls[k])
    BY <1>1, CallsType
  <2>2. \A m \in DOMAIN calls[k] :
           k < at' \/ (k = at' /\ m < next') <=> k < at \/ (k = at /\ m < next)
    BY <1>1, <1>2, <2>1, CallsType
  <2>3. QED
    BY <1>1, <2>2 DEF Served
<1>5. \A k \in DOMAIN calls : Answered(k)' = Answered(k)
  BY <1>1, <1>4 DEF Answered
<1>6. GapsKnown'
  BY <1>1, <1>4, <1>5 DEF GapsKnown
<1>7. QED
  BY <1>1, <1>3, <1>6 DEF Inv, RequestsCounted, TimeSpent, MemoSound

LEMMA NextInv == Inv /\ [Next]_vars => Inv'
<1> SUFFICES ASSUME Inv, [Next]_vars PROVE Inv'
  OBVIOUS
<1>1. /\ TypeOK /\ MemoSound /\ RequestsCounted /\ TimeSpent
      /\ count \in 0..MaxLookups /\ clock \in Nat /\ asked \in Seq(Indicators) /\ available \in BOOLEAN
  BY DEF Inv, TypeOK
<1>2. CASE InvalidTarget
  <2>1. pc' = "raised" \/ ServedWith(Nothing) => RequestsCounted'
    BY <1>1, <1>2, ServedRequests
    DEF InvalidTarget, GiveUp, RequestsCounted, ServedWith, config
  <2>2. TimeSpent'
    BY <1>1, <1>2 DEF InvalidTarget, GiveUp, TimeSpent, config, Looking
  <2>3. QED
    BY <1>1, <1>2, <2>1, <2>2, GiveUpStep DEF InvalidTarget
<1>3. CASE Unable
  <2>1. pc' = "raised" \/ ServedWith(Nothing) => RequestsCounted'
    BY <1>1, <1>3, ServedRequests
    DEF Unable, GiveUp, RequestsCounted, ServedWith, config
  <2>2. TimeSpent'
    BY <1>1, <1>3 DEF Unable, GiveUp, TimeSpent, config, Looking
  <2>3. Indicator \in Indicators
    BY <1>1, <1>3, TargetType DEF Unable
  <2>4. QED
    BY <1>1, <1>3, <2>1, <2>2, <2>3, GiveUpStep DEF Unable
<1>4. CASE Memoized
  <2> DEFINE r == memo[Indicator]
  <2>1. /\ Looking /\ Indicator \in Indicators /\ r \in Reports \cup {Nothing}
        /\ memo = [memo EXCEPT ![Indicator] = r] /\ warnings \subseteq Targets
    BY <1>1, <1>4, TargetType DEF Memoized, TypeOK
  <2>2. /\ r \in Reports => r.indicator = Indicator
        /\ r = Nothing => mode = "open" /\ \E w \in warnings : Normal[w] = Indicator
    BY <1>1, <2>1 DEF MemoSound
  <2> HIDE DEF r
  <2>3. ServedWith(r)
    BY <1>4, <2>1, <2>2 DEF Memoized, ServedWith, r
  <2>4. UNCHANGED <<pc, count, asked, clock, timeout, available>>
    BY <1>4 DEF Memoized, config
  <2>5. QED
    BY <1>1, <2>3, <2>4, ServedRequests, ServedStep
<1>5. ASSUME NEW latency \in Latencies,
             NEW answer \in Statistics \cup {NotFound, Failed, Broke}, Ask(answer, latency)
      PROVE  Inv'
  BY <1>5, AskInv
<1>6. ASSUME NEW latency \in Latencies, Kill(latency)
      PROVE  Inv'
  <2>1. /\ timeout \in Nat /\ Slowest \in Nat /\ latency \in Nat /\ latency \leq Slowest
        /\ count \in Nat /\ MaxLookups \in Nat /\ count + 1 \leq MaxLookups
        /\ clock \leq count * Slowest /\ clock + latency > timeout
    BY <1>1, <1>6, LimitsAssumption DEF Kill, Askable, TypeOK, TimeSpent
  <2>2. (count + 1) * Slowest = count * Slowest + Slowest /\ count * Slowest \in Nat
    BY <2>1
  <2>3. (count + 1) * Slowest \leq MaxLookups * Slowest
    BY <2>1
  <2>4. timeout < MaxLookups * Slowest
    BY <1>1, <2>1, <2>2, <2>3
  <2>5. TimeSpent'
    BY <1>1, <1>6, <2>4 DEF Kill, TimeSpent, config
  <2>6. RequestsCounted'
    BY <1>1, <1>6 DEF Kill, RequestsCounted
  <2>7. QED
    BY <1>1, <1>6, <2>5, <2>6, EndStep DEF Kill
<1>7. CASE NextCall
  BY <1>7, NextCallInv
<1>8. CASE Evaluate
  <2>1. /\ pc = "looking" /\ at > Len(calls) /\ pc' = "evaluated" /\ GapsKnown
        /\ UNCHANGED <<mode, hasKey, timeout, calls, at, next, results, memo, count, warnings,
                       available, clock, asked>>
    BY <1>8 DEF Evaluate, config, Inv
  <2>2. GapsKnown'
    BY <2>1 DEF GapsKnown, Answered, Served
  <2>3. QED
    BY <1>1, <2>1, <2>2 DEF Inv, TypeOK, RequestsCounted, TimeSpent, MemoSound
<1>9. CASE UNCHANGED vars
  BY <1>9 DEF vars, Inv, TypeOK, RequestsCounted, TimeSpent, MemoSound, GapsKnown, Answered, Served
<1>10. QED
  BY <1>2, <1>3, <1>4, <1>5, <1>6, <1>7, <1>8, <1>9 DEF Next

-----------------------------------------------------------------------------
(* Theorems *)

\* The inductive invariant of the lookups of one hook process (_lookup of
\* VirusTotalEnricher and the memo, the budget and the time it keeps).
THEOREM LookupsSound == Spec => []Inv
<1>1. QED
  BY InitInv, NextInv, PTL DEF Spec

\* The state of the lookups keeps its type, whatever the responses hold.
THEOREM LookupsTyped == Spec => []TypeOK
<1>1. Inv => TypeOK
  BY DEF Inv
<1>2. QED
  BY <1>1, LookupsSound, PTL

\* No indicator is requested twice by one hook process, and no more of them
\* than max_lookups: failed requests are counted and remembered as well.
THEOREM NoneAskedTwice == Spec => []AskedOnce
<1>1. Inv => AskedOnce
  BY LimitsAssumption DEF Inv, TypeOK, RequestsCounted, AskedOnce
<1>2. QED
  BY <1>1, LookupsSound, PTL

\* A call that has been served was served all its targets.
LEMMA AllServed ==
  ASSUME TypeOK, at > Len(calls), NEW k \in DOMAIN calls
  PROVE  Served(k) = Range(calls[k]) /\ Answered(k) = Reported(k)
<1>1. k < at
  BY CallsType
<1>2. Served(k) = Range(calls[k])
  BY <1>1 DEF Served, Range
<1>3. QED
  BY <1>2 DEF Answered, Reported

\* The matches on which an evaluation goes on are those of the targets that
\* were answered; without a warning, in closed mode always, these are all.
THEOREM MatchesComplete == Spec => []GapsAreKnown
<1>1. ASSUME Inv PROVE GapsAreKnown
  <2> SUFFICES ASSUME pc = "evaluated", NEW k \in DOMAIN calls
               PROVE  /\ results[k].targets = Reported(k)
                      /\ results[k].verdicts = {memo[i].verdict : i \in Reported(k)}
                      /\ \A t \in Range(calls[k]) :
                            Normal[t] \notin Reported(k) =>
                               mode = "open" /\ \E w \in warnings : Normal[w] = Normal[t]
    BY DEF GapsAreKnown
  <2>1. TypeOK /\ MemoSound /\ GapsKnown /\ at > Len(calls)
    BY <1>1 DEF Inv
  <2>2. Served(k) = Range(calls[k]) /\ Answered(k) = Reported(k)
    BY <2>1, AllServed
  <2>3. ASSUME NEW t \in Range(calls[k]), Normal[t] \notin Reported(k)
        PROVE  mode = "open" /\ \E w \in warnings : Normal[w] = Normal[t]
    <3>1. t \in Targets /\ Normal[t] \in Indicators \cup {Invalid}
      BY <2>1, CallsType, NormalAssumption DEF Range
    <3>2. CASE Normal[t] = Invalid
      BY <2>1, <2>2, <3>2 DEF GapsKnown
    <3>3. CASE Normal[t] \in Indicators
      <4>1. memo[Normal[t]] \notin Reports /\ memo[Normal[t]] # Unasked
        BY <2>1, <2>2, <2>3, <3>3 DEF GapsKnown, Reported
      <4>2. memo[Normal[t]] = Nothing
        BY <2>1, <3>3, <4>1 DEF TypeOK
      <4>3. QED
        BY <2>1, <3>3, <4>2 DEF MemoSound
    <3>4. QED
      BY <3>1, <3>2, <3>3
  <2>4. QED
    BY <2>1, <2>2, <2>3 DEF GapsKnown
<1>2. QED
  BY <1>1, LookupsSound, PTL

\* A harness that allows for max_lookups of the slowest requests gets an answer.
THEOREM AnsweredInTime == Spec => []AnswersInTime
<1>1. Inv => AnswersInTime
  <2> SUFFICES ASSUME Inv PROVE AnswersInTime
    OBVIOUS
  <2>1. MaxLookups * Slowest \in Nat /\ timeout \in Nat
    BY LimitsAssumption DEF Inv, TypeOK
  <2>2. QED
    BY <2>1 DEF Inv, TimeSpent, AnswersInTime
<1>2. QED
  BY <1>1, LookupsSound, PTL
=============================================================================
