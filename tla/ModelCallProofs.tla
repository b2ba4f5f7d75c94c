--------------------------- MODULE ModelCallProofs ---------------------------
(***************************************************************************)
(* The safety of a model call for every number of tiers and retries: text  *)
(* of one provider, no tier passed over, retries as configured, tokens     *)
(* carried over from attempt to attempt.                                   *)
(***************************************************************************)
EXTENDS ModelCall, TLAPS

AtProvider == phase \in {"probe", "open", "stream", "parse"}

\* The router is at or above the tier asked for, and has been at every tier
\* between.
Climbing == AtProvider => minTier <= current

\* Nothing was passed on before the stream of the current provider began, and
\* then exactly its content.
Commitment ==
    /\ phase \in {"probe", "open"} => heard = {} /\ answer.content = "none"
    /\ phase = "stream" => (heard = {} <=> answer.content = "none")

\* No call exceeds its retries.
WithinRetries == attempt <= Retries

\* What was reported and is not counted is what the executor is looking at,
\* at most one report per attempt.
Accounts ==
    /\ tokens <= reported
    /\ phase \notin {"parse", "done"} => reported <= attempt
    /\ reported <= attempt + 1
    /\ kind # "micro" /\ phase \notin {"parse", "done"} => tokens = reported
    /\ kind # "micro" /\ phase = "parse" => tokens + usage = reported
    /\ phase = "parse" => tokens + usage <= reported

CallInv ==
    /\ TypeOK /\ Climbing /\ Commitment /\ WithinRetries /\ Accounts
    /\ OneVoice /\ NoTierPassedOver /\ RetriesAsConfigured /\ TokensCarriedOver

LEMMA FreshAnswer == Fresh \in Answers /\ Fresh.content = "none"
  BY DEF Fresh, Answers

LEMMA CallInit == Init => CallInv
  <1> SUFFICES ASSUME Init PROVE CallInv
    OBVIOUS
  <1> USE HighestAssumption, MaxRetriesAssumption
  <1>1. relaxed \in BOOLEAN /\ escalate \in BOOLEAN /\ answer \in Answers /\ answer.content = "none"
    BY FreshAnswer DEF Init
  <1>2. TypeOK
    BY <1>1 DEF Init, TypeOK, Tiers, Faults, Retryable
  <1>3. Climbing /\ Commitment /\ WithinRetries /\ Accounts
    BY <1>1 DEF Init, Climbing, Commitment, WithinRetries, Accounts, AtProvider, Retries
  <1>4. OneVoice /\ NoTierPassedOver /\ RetriesAsConfigured /\ TokensCarriedOver
    BY DEF Init, OneVoice, NoTierPassedOver, RetriesAsConfigured, TokensCarriedOver, Tiers
  <1> QED
    BY <1>2, <1>3, <1>4 DEF CallInv

\* The tier a retry starts at is configured and directly above the last one.
LEMMA RetryTierStep ==
    ASSUME NEW m \in Tiers, escalate \in BOOLEAN
    PROVE  RetryTier(m) \in Tiers /\ m <= RetryTier(m) /\ RetryTier(m) <= m + 1
  BY HighestAssumption DEF RetryTier, Tiers

\* An attempt that ends at a provider keeps the invariant, whatever ended it:
\* the tokens, if it was looking at any, are counted or not to be counted.
LEMMA EndAttemptKeeps ==
    ASSUME CallInv, AtProvider, NEW f \in Faults, EndAttempt(f),
           UNCHANGED <<nodeVars, current, relaxed, answer, heard, tried, usage, reported>>,
           tokens' \in Nat, tokens' <= reported,
           kind # "micro" /\ ~(kind = "content" /\ f = "unparsed") => tokens' = reported,
           f = "unavailable" /\ heard = {} => current = Highest
    PROVE  CallInv'
  <1> USE HighestAssumption, MaxRetriesAssumption
  <1> DEFINE same == UNCHANGED <<kind, escalate, start, current, relaxed, answer, heard, tried,
                                 usage, reported>>
  <1>0. same
    BY DEF nodeVars
  <1>1. /\ minTier \in Tiers /\ minTier <= current /\ current <= Highest
        /\ \A t \in Tiers : start <= t /\ t <= current => t \in tried
    BY DEF CallInv, TypeOK, Climbing, AtProvider, NoTierPassedOver, Tiers
  <1>2. CASE f \in Retryable /\ attempt < Retries
    <2>1. /\ phase' = "call" /\ attempt' = attempt + 1 /\ minTier' = RetryTier(minTier)
          /\ fault' = f /\ retried' = retried \cup {f} /\ result' = result
      BY <1>2 DEF EndAttempt, TryAgain
    <2>2. minTier' \in Tiers /\ minTier' <= minTier + 1
      BY <2>1, <1>1, RetryTierStep DEF CallInv, TypeOK
    <2>3. attempt' <= Retries /\ Retries' = Retries /\ attempt' \in 0..MaxRetries
      BY <1>0, <1>2, <2>1 DEF Retries, CallInv, TypeOK
    <2>4. kind # "micro"
      BY <1>2 DEF Retries, CallInv, TypeOK
    <2>5. tokens' = reported
      BY <2>4, <1>2 DEF Retryable
    <2>6. TypeOK'
      BY <1>0, <2>1, <2>2, <2>3, <2>5, <1>2 DEF TypeOK, CallInv, Accounts, Tiers
    <2>7. NoTierPassedOver'
      <3>1. \A t \in Tiers : start <= t /\ t < minTier' => t \in tried
        BY <1>1, <2>2 DEF Tiers, CallInv, TypeOK
      <3> QED
        BY <3>1, <1>0, <2>1 DEF NoTierPassedOver
    <2>8. (Climbing /\ Commitment /\ WithinRetries /\ OneVoice)'
      BY <1>0, <1>2, <2>1, <2>3 DEF CallInv, Climbing, Commitment, WithinRetries, OneVoice,
         AtProvider, Retries
    <2>10. RetriesAsConfigured'
      <3>1. f \notin {"refused", "broken", "unparsed"}
        BY <1>2 DEF Retryable
      <3> QED
        BY <3>1, <2>1 DEF CallInv, RetriesAsConfigured
    <2>11. TokensCarriedOver'
      BY <1>0, <2>1, <2>5 DEF TokensCarriedOver, CallInv, TypeOK
    <2>9. Accounts'
      BY <1>0, <2>1, <2>5, <2>4 DEF CallInv, TypeOK, Accounts
    <2> QED
      BY <2>6, <2>7, <2>8, <2>9, <2>10, <2>11 DEF CallInv
  <1>3. CASE ~(f \in Retryable /\ attempt < Retries)
    <2>1. /\ phase' = "done" /\ fault' = f /\ result' \in {"failed", "default"}
          /\ attempt' = attempt /\ minTier' = minTier /\ retried' = retried
      BY <1>3 DEF EndAttempt, GiveUp
    <2>2. f \in Retryable => attempt = Retries
      BY <1>3 DEF CallInv, TypeOK, WithinRetries, Retries
    <2>3. TypeOK'
      BY <1>0, <2>1 DEF TypeOK, CallInv, Accounts
    <2>4. NoTierPassedOver'
      <3>1. f = "unavailable" /\ heard = {} => \A t \in Tiers : start <= t => t \in tried
        BY <1>1 DEF Tiers
      <3> QED
        BY <3>1, <1>0, <2>1 DEF NoTierPassedOver, CallInv
    <2>5. (Climbing /\ Commitment /\ WithinRetries /\ OneVoice)'
      BY <1>0, <2>1 DEF CallInv, Climbing, Commitment, WithinRetries, OneVoice, AtProvider, Retries
    <2>6. RetriesAsConfigured'
      BY <1>0, <2>1, <2>2 DEF CallInv, RetriesAsConfigured, Retries
    <2>7. TokensCarriedOver' /\ Accounts'
      BY <1>0, <2>1 DEF CallInv, TypeOK, TokensCarriedOver, Accounts
    <2> QED
      BY <2>3, <2>4, <2>5, <2>6, <2>7 DEF CallInv
  <1> QED
    BY <1>2, <1>3

LEMMA RaiseKeeps ==
    ASSUME CallInv, phase \in {"probe", "open", "stream"}, NEW f \in Faults, Raise(f),
           f = "unavailable" => heard # {}
    PROVE  CallInv'
  <1>1. /\ tokens \in Nat /\ tokens <= reported /\ AtProvider
        /\ kind # "micro" => tokens = reported
    BY DEF CallInv, TypeOK, Accounts, AtProvider
  <1>2. EndAttempt(f) /\ UNCHANGED <<nodeVars, current, relaxed, answer, heard, tried, usage,
                                      reported>> /\ tokens' = tokens
    BY DEF Raise, callVars, countVars
  <1> QED
    BY <1>1, <1>2, EndAttemptKeeps

LEMMA FallThroughKeeps ==
    ASSUME CallInv, phase \in {"probe", "open", "stream"}, heard = {}, FallThrough
    PROVE  CallInv'
  <1> USE HighestAssumption, MaxRetriesAssumption
  <1>0. UNCHANGED <<kind, escalate, start, usage, tokens, reported, heard>>
    BY DEF FallThrough, nodeVars, countVars
  <1>1. CASE current < Highest
    <2>1. /\ phase' = "probe" /\ current' = current + 1 /\ tried' = tried \cup {current + 1}
          /\ relaxed' = FALSE /\ answer' = Fresh
          /\ UNCHANGED <<attempt, minTier, fault, retried, result>>
      BY <1>1 DEF FallThrough, loopVars
    <2>2. minTier <= current /\ \A t \in Tiers : start <= t /\ t <= current => t \in tried
      BY DEF CallInv, Climbing, AtProvider, NoTierPassedOver
    <2>3. TypeOK'
      <3>1. relaxed' \in BOOLEAN /\ answer' \in Answers
        BY <2>1, FreshAnswer
      <3>2. current' \in Tiers /\ tried' \subseteq Tiers
        BY <1>1, <2>1 DEF CallInv, TypeOK, Tiers
      <3> QED
        BY <1>0, <2>1, <3>1, <3>2 DEF CallInv, TypeOK
    <2>4. NoTierPassedOver'
      <3>1. \A t \in Tiers : start <= t /\ t <= current' => t \in tried'
        BY <2>1, <2>2 DEF Tiers, CallInv, TypeOK
      <3> QED
        BY <3>1, <1>0, <2>1 DEF NoTierPassedOver, CallInv
    <2>5. (Climbing /\ Commitment /\ OneVoice)'
      BY <1>0, <2>1, <2>2, FreshAnswer DEF CallInv, TypeOK, Climbing, Commitment, OneVoice,
                                           AtProvider, Tiers
    <2>6. (WithinRetries /\ Accounts /\ RetriesAsConfigured /\ TokensCarriedOver)'
      BY <1>0, <2>1 DEF CallInv, WithinRetries, Accounts, RetriesAsConfigured, TokensCarriedOver, Retries
    <2> QED
      BY <2>3, <2>4, <2>5, <2>6 DEF CallInv
  <1>2. CASE ~(current < Highest)
    <2>1. EndAttempt("unavailable") /\ UNCHANGED <<current, relaxed, answer, tried>>
      BY <1>2 DEF FallThrough
    <2>2. /\ tokens \in Nat /\ tokens <= reported /\ AtProvider /\ current = Highest
          /\ kind # "micro" => tokens = reported
      BY <1>2 DEF CallInv, TypeOK, Accounts, AtProvider, Tiers
    <2>3. "unavailable" \in Faults /\ "unavailable" # "unparsed"
      BY DEF Faults, Retryable
    <2>4. UNCHANGED <<nodeVars, current, relaxed, answer, heard, tried, usage, reported>>
      BY <1>0, <2>1 DEF nodeVars
    <2> QED
      BY <1>0, <2>1, <2>2, <2>3, <2>4, EndAttemptKeeps
  <1> QED
    BY <1>1, <1>2

LEMMA RouteKeeps == ASSUME CallInv, Route PROVE CallInv'
  <1> USE HighestAssumption, MaxRetriesAssumption
  <1>0. /\ phase = "call" /\ heard' = {} /\ usage' = 0
        /\ UNCHANGED <<kind, escalate, start, tokens, reported>>
    BY DEF Route, nodeVars
  <1>1. CASE minTier > Highest
    <2>1. /\ phase' = "done" /\ fault' = "refused" /\ result' \in {"failed", "default"}
          /\ UNCHANGED <<attempt, minTier, retried, current, relaxed, answer, tried>>
      BY <1>1 DEF Route, EndAttempt, GiveUp, Retryable
    <2>2. TypeOK'
      BY <1>0, <2>1 DEF CallInv, TypeOK, Faults, Retryable
    <2>3. (NoTierPassedOver /\ RetriesAsConfigured /\ TokensCarriedOver /\ Accounts)'
      BY <1>0, <2>1 DEF CallInv, TypeOK, NoTierPassedOver, RetriesAsConfigured, TokensCarriedOver,
                        Accounts, Retryable
    <2>4. (Climbing /\ Commitment /\ WithinRetries /\ OneVoice)'
      BY <1>0, <2>1 DEF CallInv, Climbing, Commitment, WithinRetries, OneVoice, AtProvider, Retries
    <2> QED
      BY <2>2, <2>3, <2>4 DEF CallInv
  <1>2. CASE ~(minTier > Highest)
    <2>1. /\ phase' = "probe" /\ current' = minTier /\ tried' = tried \cup {minTier}
          /\ relaxed' = FALSE /\ answer' = Fresh
          /\ UNCHANGED <<attempt, minTier, fault, retried, result>>
      BY <1>2 DEF Route, loopVars
    <2>2. minTier \in Tiers
      BY <1>2 DEF CallInv, TypeOK, Tiers
    <2>3. TypeOK'
      <3>1. relaxed' \in BOOLEAN /\ answer' \in Answers
        BY <2>1, FreshAnswer
      <3>2. current' \in Tiers /\ tried' \subseteq Tiers
        BY <2>1, <2>2 DEF CallInv, TypeOK
      <3> QED
        BY <1>0, <2>1, <3>1, <3>2 DEF CallInv, TypeOK
    <2>4. NoTierPassedOver'
      <3>1. \A t \in Tiers : start <= t /\ t <= minTier => t \in tried'
        BY <2>1, <2>2 DEF CallInv, TypeOK, NoTierPassedOver, Tiers
      <3> QED
        BY <3>1, <1>0, <2>1 DEF NoTierPassedOver, CallInv
    <2>5. (Climbing /\ Commitment /\ OneVoice)'
      BY <1>0, <2>1, <2>2, FreshAnswer DEF Climbing, Commitment, OneVoice, AtProvider, Tiers
    <2>6. (WithinRetries /\ Accounts /\ RetriesAsConfigured /\ TokensCarriedOver)'
      BY <1>0, <2>1 DEF CallInv, WithinRetries, Accounts, RetriesAsConfigured, TokensCarriedOver, Retries
    <2> QED
      BY <2>3, <2>4, <2>5, <2>6 DEF CallInv
  <1> QED
    BY <1>1, <1>2

\* Steps of one provider's call that neither leave it nor end the attempt.
LEMMA ProviderKeeps ==
    ASSUME CallInv, ProbeHealthy \/ RequestAccepted \/ RequestRelaxed \/ StreamEvent
    PROVE  CallInv'
  <1>1. /\ UNCHANGED <<kind, escalate, start, attempt, minTier, fault, retried, usage, tokens,
                       reported, current, tried, result>>
        /\ AtProvider /\ AtProvider' /\ phase # "parse" /\ phase' # "parse"
    BY DEF ProbeHealthy, RequestAccepted, RequestRelaxed, StreamEvent, nodeVars, loopVars,
           countVars, callVars, AtProvider
  <1>2. answer' \in Answers /\ relaxed' \in BOOLEAN /\ heard' \subseteq {current}
    <2>1. CASE StreamEvent
      <3>1. answer \in Answers /\ relaxed' = relaxed /\ heard \subseteq {current}
        BY <2>1 DEF CallInv, TypeOK, OneVoice, StreamEvent
      <3>2. answer' \in Additions
        BY <2>1 DEF StreamEvent
      <3>3. answer' \in Answers
        BY <3>1, <3>2 DEF Additions, Answers
      <3>4. heard' = heard \/ heard' = heard \cup {current}
        BY <2>1 DEF StreamEvent
      <3> QED
        BY <3>1, <3>3, <3>4, <2>1 DEF CallInv, TypeOK
    <2>2. CASE ~StreamEvent
      BY <2>2 DEF CallInv, TypeOK, OneVoice, ProbeHealthy, RequestAccepted, RequestRelaxed, callVars
    <2> QED
      BY <2>1, <2>2
  <1>3. TypeOK'
    <2>1. phase' \in {"open", "stream"} /\ heard' \subseteq Tiers
      BY <1>1, <1>2 DEF ProbeHealthy, RequestAccepted, RequestRelaxed, StreamEvent, CallInv, TypeOK
    <2> QED
      BY <1>1, <1>2, <2>1 DEF CallInv, TypeOK
  <1>4. Commitment'
    <2>1. CASE StreamEvent
      <3>1. /\ phase = "stream" /\ phase' = "stream" /\ answer \in Answers /\ answer' \in Additions
            /\ heard' = IF answer'.content # answer.content THEN heard \cup {current} ELSE heard
        BY <2>1 DEF StreamEvent, CallInv, TypeOK
      <3>2. answer'.content # answer.content => answer'.content # "none"
        BY <3>1 DEF Additions, Answers
      <3> QED
        BY <3>1, <3>2 DEF CallInv, Commitment
    <2>2. CASE RequestAccepted
      BY <2>2 DEF RequestAccepted, callVars, CallInv, Commitment
    <2>3. CASE ProbeHealthy \/ RequestRelaxed
      BY <2>3 DEF ProbeHealthy, RequestRelaxed, callVars, CallInv, Commitment
    <2> QED
      BY <2>1, <2>2, <2>3
  <1> QED
    BY <1>1, <1>2, <1>3, <1>4 DEF CallInv, Climbing, WithinRetries, Accounts, OneVoice,
       NoTierPassedOver, RetriesAsConfigured, TokensCarriedOver, AtProvider, Retries

\* The provider's call ends with something to look at, or the executor has
\* made something of it.
LEMMA ParseKeeps ==
    ASSUME CallInv, StreamEnds \/ TextEmpty \/ TextUnparsed \/ TextParsed
    PROVE  CallInv'
  <1> USE HighestAssumption, MaxRetriesAssumption
  <1>1. CASE StreamEnds
    <2>1. /\ phase = "stream" /\ phase' = "parse"
          /\ heard' = heard \/ heard' = heard \cup {current}
          /\ usage' \in 0..1 /\ reported' = reported + usage'
          /\ UNCHANGED <<kind, escalate, start, attempt, minTier, fault, retried, tokens, current,
                         relaxed, answer, tried, result>>
      BY <1>1 DEF StreamEnds, nodeVars, loopVars
    <2>2. /\ reported \in Nat /\ attempt \in Nat /\ reported <= attempt /\ attempt <= MaxRetries
          /\ (usage' = 0 /\ reported' = reported) \/ (usage' = 1 /\ reported' = reported + 1)
      <3>1. /\ reported \in Nat /\ attempt \in Nat /\ reported <= attempt /\ attempt <= MaxRetries
        BY <2>1 DEF CallInv, TypeOK, Accounts
      <3>2. usage' = 0 \/ usage' = 1
        BY <2>1
      <3>3. reported + 0 = reported
        BY <3>1
      <3>4. reported' = reported + usage'
        BY <2>1
      <3> QED
        BY <3>1, <3>2, <3>3, <3>4
    <2>3. TypeOK' /\ OneVoice'
      <3>1. heard' \subseteq Tiers /\ OneVoice'
        BY <2>1 DEF CallInv, TypeOK, OneVoice
      <3>2. reported' \in 0..MaxRetries + 1
        BY <2>2
      <3> QED
        BY <2>1, <3>1, <3>2 DEF CallInv, TypeOK
    <2>4. Accounts'
      <3>1. tokens \in Nat /\ tokens <= reported /\ (kind # "micro" => tokens = reported)
        BY <2>1 DEF CallInv, TypeOK, Accounts
      <3>2. tokens <= reported' /\ reported' <= attempt + 1 /\ tokens + usage' <= reported'
        BY <2>2, <3>1
      <3>3. kind # "micro" => tokens + usage' = reported'
        BY <2>2, <3>1
      <3> QED
        BY <2>1, <3>2, <3>3 DEF Accounts
    <2>5. TokensCarriedOver'
      BY <2>1, <2>4 DEF TokensCarriedOver, Accounts
    <2> QED
      BY <2>1, <2>3, <2>4, <2>5 DEF CallInv, Climbing, Commitment, WithinRetries,
         NoTierPassedOver, RetriesAsConfigured, AtProvider, Retries
  <1>2. ASSUME TextEmpty \/ TextUnparsed PROVE CallInv'
    <2>1. PICK f \in {"empty", "unparsed"} :
            /\ EndAttempt(f)
            /\ tokens' = IF f = "unparsed" /\ kind = "content" THEN tokens ELSE tokens + Counted
      BY <1>2 DEF TextEmpty, TextUnparsed
    <2>2. /\ phase = "parse" /\ AtProvider
          /\ UNCHANGED <<nodeVars, current, relaxed, answer, heard, tried, usage, reported>>
      BY <1>2 DEF TextEmpty, TextUnparsed, ParseStep, callVars, AtProvider
    <2>3. /\ tokens \in Nat /\ usage \in Nat /\ tokens + usage <= reported /\ reported \in Nat
          /\ kind # "micro" => tokens + usage = reported
      BY <2>2 DEF CallInv, TypeOK, Accounts
    <2>4. tokens' \in Nat /\ tokens' <= reported
      BY <2>1, <2>3 DEF Counted
    <2>5. kind # "micro" /\ ~(kind = "content" /\ f = "unparsed") => tokens' = reported
      BY <2>1, <2>3 DEF Counted
    <2>6. f \in Faults /\ f # "unavailable"
      BY DEF Faults, Retryable
    <2> QED
      BY <2>1, <2>2, <2>4, <2>5, <2>6, EndAttemptKeeps
  <1>3. CASE TextParsed
    <2>1. /\ phase = "parse" /\ phase' = "done" /\ result' = "completed" /\ fault' = "none"
          /\ tokens' = tokens + Counted
          /\ UNCHANGED <<kind, escalate, start, attempt, minTier, retried, usage, reported,
                         current, relaxed, answer, heard, tried>>
      BY <1>3 DEF TextParsed, ParseStep, nodeVars, callVars
    <2>2. /\ tokens \in Nat /\ usage \in Nat /\ tokens + usage <= reported
          /\ reported \in 0..MaxRetries + 1
          /\ kind # "micro" => tokens + usage = reported
      BY <2>1 DEF CallInv, TypeOK, Accounts
    <2>3. tokens' \in 0..MaxRetries + 1 /\ tokens' <= reported
          /\ (kind # "micro" => tokens' = reported)
      BY <2>1, <2>2 DEF Counted
    <2>4. TypeOK' /\ Accounts' /\ TokensCarriedOver'
      BY <2>1, <2>3 DEF CallInv, TypeOK, Accounts, TokensCarriedOver
    <2> QED
      BY <2>1, <2>4 DEF CallInv, Climbing, Commitment, WithinRetries, OneVoice, NoTierPassedOver,
         RetriesAsConfigured, AtProvider, Retries, Retryable
  <1> QED
    BY <1>1, <1>2, <1>3

LEMMA CallInductive == Spec => []CallInv
  <1>1. CallInv /\ [Next]_vars => CallInv'
    <2> SUFFICES ASSUME CallInv, [Next]_vars PROVE CallInv'
      OBVIOUS
    <2>1. CASE UNCHANGED vars
      BY <2>1 DEF vars, nodeVars, loopVars, countVars, callVars, CallInv, TypeOK, Climbing,
         Commitment, WithinRetries, Accounts, OneVoice, NoTierPassedOver, RetriesAsConfigured,
         TokensCarriedOver, AtProvider, Retries
    <2>2. CASE Route
      BY <2>2, RouteKeeps
    <2>3. CASE ProbeHealthy \/ RequestAccepted \/ RequestRelaxed \/ StreamEvent
      BY <2>3, ProviderKeeps
    <2>4. CASE StreamEnds \/ TextEmpty \/ TextUnparsed \/ TextParsed
      BY <2>4, ParseKeeps
    <2>5. CASE ProbeUnhealthy \/ RequestUnavailable \/ StreamEmpty
      <3>1. phase \in {"probe", "open", "stream"} /\ FallThrough
        BY <2>5 DEF ProbeUnhealthy, RequestUnavailable, StreamEmpty
      <3>2. heard = {}
        BY <2>5 DEF ProbeUnhealthy, RequestUnavailable, StreamEmpty, Silent, CallInv, Commitment
      <3> QED
        BY <3>1, <3>2, FallThroughKeeps
    <2>6. CASE StreamTimesOut
      <3>1. "unavailable" \in Faults
        BY DEF Faults, Retryable
      <3> QED
        BY <2>6, <3>1, FallThroughKeeps, RaiseKeeps DEF StreamTimesOut
    <2>7. CASE ProbeRaises \/ RequestFails \/ StreamDropped \/ StreamOnlyReasoned
      <3>1. \E f \in {"refused", "broken", "dropped"} :
              Raise(f) /\ phase \in {"probe", "open", "stream"}
        BY <2>7 DEF ProbeRaises, RequestFails, StreamDropped, StreamOnlyReasoned
      <3>2. \A f \in {"refused", "broken", "dropped"} : f \in Faults /\ f # "unavailable"
        BY DEF Faults
      <3> QED
        BY <3>1, <3>2, RaiseKeeps
    <2> QED
      BY <2>1, <2>2, <2>3, <2>4, <2>5, <2>6, <2>7 DEF Next
  <1> QED
    BY <1>1, CallInit, PTL DEF Spec

\* The text a node is given is never stitched together from two providers.
THEOREM OneVoiceHolds == Spec => []OneVoice
  BY CallInductive, PTL DEF CallInv

\* Falling through and escalating visit the tiers one by one.
THEOREM NoTierPassedOverHolds == Spec => []NoTierPassedOver
  BY CallInductive, PTL DEF CallInv

\* Timeouts, outages and blank answers are retried until the retries are used
\* up, and bad requests, broken ones and unusable texts never
\* (_execute_llm_node, _execute_decision).
THEOREM RetriesAsConfiguredHolds == Spec => []RetriesAsConfigured
  BY CallInductive, PTL DEF CallInv

\* Whatever the number of retries, none of them forgets or doubles the tokens
\* of the attempts before it; what _execute_llm_node and the micro-calls do
\* lose is the subject of AllTokensCounted.
THEOREM TokensCarriedOverHolds == Spec => []TokensCarriedOver
  BY CallInductive, PTL DEF CallInv

=============================================================================
