------------------------------ MODULE ModelCall ------------------------------
(***************************************************************************)
(* One model call of a node: the retry loops of Executor._execute_llm_node *)
(* and _execute_decision and the tool micro-calls, over                    *)
(* TierRouter.complete, over OpenAICompatProvider.is_healthy and complete. *)
(*                                                                         *)
(* Abstracted: what was said.  A provider's answer is what _StreamState    *)
(* keeps of it; every usage report counts one token; whether a text parses *)
(* is open.                                                                *)
(***************************************************************************)
EXTENDS Integers, FiniteSets

CONSTANTS
    Highest,        \* tiers are numbered 0..Highest (Settings.tiers)
    MaxRetries      \* ResilienceConfig.max_llm_node_retries

ASSUME HighestAssumption == Highest \in Nat
ASSUME MaxRetriesAssumption == MaxRetries \in Nat

Tiers == 0..Highest

VARIABLES
    kind,       \* "content", "decision" or "micro" (arguments, shape check)
    escalate,   \* ResilienceConfig.escalate_tier_on_retry
    start,      \* the tier _select_tier chose
    phase,      \* "call" the router, "probe" a provider, "open" a request,
                \* "stream" its events, "parse" what came, "done"
    attempt,    \* retries so far
    minTier,    \* attempt_tier
    current,    \* the router's provider
    relaxed,    \* attempted_reasoning_retry of that provider
    answer,     \* its _StreamState
    heard,      \* tiers whose chunks make up the text of this attempt
    usage,      \* tokens reported with the text of this attempt
    tokens,     \* tokens counted for the node
    reported,   \* tokens reported to the executor in all attempts
    tried,      \* tiers probed so far
    fault,      \* what ended the last attempt, "none" if nothing went wrong
    retried,    \* the faults after which there was another attempt
    result      \* "none", "completed", "failed", or "default": a decision's
                \* default branch, no arguments, no shape objection

nodeVars  == <<kind, escalate, start>>
loopVars  == <<attempt, minTier, fault, retried>>
countVars == <<usage, tokens, reported>>
callVars  == <<current, relaxed, answer, heard, tried>>
vars == <<nodeVars, phase, loopVars, countVars, callVars, result>>

Kinds     == {"content", "decision", "micro"}
Retryable == {"unavailable", "empty"}
Faults    == Retryable \cup {"refused", "broken", "dropped", "unparsed"}

\* _StreamState: content so far, and whether reasoning, a tool call, a finish
\* reason or token count were seen.
Answers == [content : {"none", "blank", "text"}, reasoning : BOOLEAN, tool : BOOLEAN,
            finish : BOOLEAN]
Fresh   == [content |-> "none", reasoning |-> FALSE, tool |-> FALSE, finish |-> FALSE]

TypeOK ==
    /\ kind \in Kinds /\ escalate \in BOOLEAN
    /\ start \in 0..Highest + 1
    /\ phase \in {"call", "probe", "open", "stream", "parse", "done"}
    /\ attempt \in 0..MaxRetries
    /\ minTier \in Nat /\ (attempt > 0 => minTier \in Tiers)
    /\ current \in Tiers
    /\ relaxed \in BOOLEAN
    /\ answer \in Answers
    /\ heard \subseteq Tiers /\ tried \subseteq Tiers
    /\ usage \in 0..1
    /\ tokens \in 0..MaxRetries + 1 /\ reported \in 0..MaxRetries + 1
    /\ fault \in Faults \cup {"none"} /\ retried \subseteq Faults
    /\ result \in {"none", "completed", "failed", "default"}

\* An unvalidated plan may force a tier there is no provider for.
Init ==
    /\ kind \in Kinds /\ escalate \in BOOLEAN
    /\ start \in 0..Highest + 1
    /\ phase = "call"
    /\ attempt = 0 /\ minTier = start
    /\ current = 0 /\ relaxed = FALSE /\ answer = Fresh
    /\ heard = {} /\ tried = {}
    /\ usage = 0 /\ tokens = 0 /\ reported = 0
    /\ fault = "none" /\ retried = {}
    /\ result = "none"

-----------------------------------------------------------------------------
(* The node's retry loop (executor.py). *)

\* The micro-calls are made once.
Retries == IF kind = "micro" THEN 0 ELSE MaxRetries

\* A bug to catch: the best tier right away.
RetryTierHighest(previous) == IF escalate THEN Highest ELSE previous

\* _retry_tier.
RetryTier(previous) ==
    IF ~escalate THEN previous
    ELSE IF previous < Highest THEN previous + 1 ELSE Highest

GiveUp(f) ==
    /\ phase' = "done"
    /\ result' = IF kind = "content" THEN "failed" ELSE "default"
    /\ fault' = f
    /\ UNCHANGED <<attempt, minTier, retried>>

TryAgain(f) ==
    /\ phase' = "call"
    /\ attempt' = attempt + 1
    /\ minTier' = RetryTier(minTier)
    /\ fault' = f /\ retried' = retried \cup {f}
    /\ UNCHANGED result

\* A bug to catch: every exception is retried.
EndAttemptAlike(f) == IF attempt < Retries THEN TryAgain(f) ELSE GiveUp(f)

\* A retryable fault starts another attempt while there is one left.
EndAttempt(f) == IF f \in Retryable /\ attempt < Retries THEN TryAgain(f) ELSE GiveUp(f)

-----------------------------------------------------------------------------
(* The router (providers/router.py). *)

\* A new attempt has no text yet; no provider may serve the tier.
Route ==
    /\ phase = "call"
    /\ heard' = {} /\ usage' = 0
    /\ IF minTier > Highest
       THEN /\ EndAttempt("refused")
            /\ UNCHANGED <<current, relaxed, answer, tried>>
       ELSE /\ phase' = "probe"
            /\ current' = minTier /\ tried' = tried \cup {minTier}
            /\ relaxed' = FALSE /\ answer' = Fresh
            /\ UNCHANGED <<loopVars, result>>
    /\ UNCHANGED <<nodeVars, tokens, reported>>

\* A bug to catch: after the last provider the router starts over.
FallThroughAround ==
    /\ phase' = "probe"
    /\ current' = IF current < Highest THEN current + 1 ELSE minTier
    /\ tried' = tried \cup {current'}
    /\ relaxed' = FALSE /\ answer' = Fresh
    /\ UNCHANGED <<nodeVars, loopVars, countVars, heard, result>>

\* On to the next provider; after the last one the call is unavailable.
FallThrough ==
    /\ IF current < Highest
       THEN /\ phase' = "probe"
            /\ current' = current + 1 /\ tried' = tried \cup {current + 1}
            /\ relaxed' = FALSE /\ answer' = Fresh
            /\ UNCHANGED <<loopVars, result>>
       ELSE /\ EndAttempt("unavailable")
            /\ UNCHANGED <<current, relaxed, answer, tried>>
    /\ UNCHANGED <<nodeVars, countVars, heard>>

\* An exception the router lets through.
Raise(f) ==
    /\ EndAttempt(f)
    /\ UNCHANGED <<nodeVars, countVars, callVars>>

-----------------------------------------------------------------------------
(* The provider (providers/openai_compat.py). *)

\* is_healthy: a good answer, a page that is not JSON, a 404.
ProbeHealthy ==
    /\ phase = "probe"
    /\ phase' = "open"
    /\ UNCHANGED <<nodeVars, loopVars, countVars, callVars, result>>

\* A bad status, no connection, a timeout.
ProbeUnhealthy == phase = "probe" /\ FallThrough

\* A transport error of another kind.
ProbeRaises == phase = "probe" /\ Raise("broken")

RequestAccepted ==
    /\ phase = "open"
    /\ phase' = "stream"
    /\ UNCHANGED <<nodeVars, loopVars, countVars, callVars, result>>

\* _reasoning_retry_body: once, without disabled reasoning.
RequestRelaxed ==
    /\ phase = "open"
    /\ ~relaxed
    /\ relaxed' = TRUE
    /\ UNCHANGED <<nodeVars, phase, loopVars, countVars, current, answer, heard, tried, result>>

\* _raise_for_status: 401, 403, 404, 429 and 5xx; no connection, a timeout.
RequestUnavailable == phase = "open" /\ FallThrough

\* 400 and 422; any other status, or a transport error of another kind.
RequestFails == phase = "open" /\ \E f \in {"refused", "broken"} : Raise(f)

\* What one more event can add.
Additions ==
    {[answer EXCEPT !.content = "text"], [answer EXCEPT !.reasoning = TRUE],
     [answer EXCEPT !.tool = TRUE], [answer EXCEPT !.finish = TRUE],
     [answer EXCEPT !.content = IF @ = "none" THEN "blank" ELSE @]}

\* One event of the stream, as _parse_event and apply see it.  Content is
\* passed on as a chunk, which commits the router to this provider.
StreamEvent ==
    /\ phase = "stream"
    /\ answer' \in Additions \ {answer}
    /\ heard' = IF answer'.content # answer.content THEN heard \cup {current} ELSE heard
    /\ UNCHANGED <<nodeVars, phase, loopVars, countVars, current, relaxed, tried, result>>

\* A bug to catch: fallthrough after output was passed on.
StreamTimesOutAnyway == phase = "stream" /\ FallThrough

\* A timeout before the first chunk is the router's business, after it the
\* node's.
StreamTimesOut ==
    /\ phase = "stream"
    /\ IF heard = {} THEN FallThrough ELSE Raise("unavailable")

\* The connection is lost in mid-stream: a transport error that is neither a
\* timeout nor a ConnectError is not turned into a ProviderUnavailableError.
StreamDropped == phase = "stream" /\ Raise("dropped")

OnlyReasoning == answer.content = "none" /\ answer.reasoning /\ ~answer.tool
Silent == answer.content = "none" /\ ~answer.reasoning /\ ~answer.tool /\ ~answer.finish

StreamOnlyReasoned == phase = "stream" /\ OnlyReasoning /\ Raise("refused")

\* No chunk at all: the next provider.
StreamEmpty == phase = "stream" /\ Silent /\ FallThrough

\* The last chunk: a tool call as text if there was no other, the usage.
StreamEnds ==
    /\ phase = "stream"
    /\ ~OnlyReasoning /\ ~Silent
    /\ phase' = "parse"
    /\ heard' = IF answer.tool \/ answer.finish THEN heard \cup {current} ELSE heard
    /\ usage' \in IF answer.finish THEN {0, 1} ELSE {0}
    /\ reported' = reported + usage'
    /\ UNCHANGED <<nodeVars, loopVars, tokens, current, relaxed, answer, tried, result>>

-----------------------------------------------------------------------------
(* The node makes something of the text (executor.py). *)

Blank == answer.content = "blank" \/ (answer.content = "none" /\ ~answer.tool)

\* What the executor counts; the micro-calls' tokens are thrown away.
Counted == IF kind = "micro" THEN 0 ELSE usage

ParseStep ==
    /\ phase = "parse"
    /\ UNCHANGED <<nodeVars, usage, reported, callVars>>

\* A bug to catch: the tokens of an empty answer are dropped.
TextEmptyForgets ==
    /\ ParseStep
    /\ Blank
    /\ EndAttempt("empty")
    /\ UNCHANGED tokens

\* _EmptyLLMOutputError carries its tokens.
TextEmpty ==
    /\ ParseStep
    /\ Blank
    /\ EndAttempt("empty")
    /\ tokens' = tokens + Counted

\* No JSON, nothing to salvage, or a confidence that is no number.  A content
\* node's failure carries no tokens of this attempt.
TextUnparsed ==
    /\ ParseStep
    /\ answer.content = "text"
    /\ EndAttempt("unparsed")
    /\ tokens' = IF kind = "content" THEN tokens ELSE tokens + Counted

\* The field, the raw text, or what the streamer salvages of it.
TextParsed ==
    /\ ParseStep
    /\ ~Blank
    /\ phase' = "done"
    /\ result' = "completed"
    /\ fault' = "none"
    /\ tokens' = tokens + Counted
    /\ UNCHANGED <<attempt, minTier, retried>>

-----------------------------------------------------------------------------
Next ==
    \/ Route
    \/ ProbeHealthy \/ ProbeUnhealthy \/ ProbeRaises
    \/ RequestAccepted \/ RequestRelaxed \/ RequestUnavailable \/ RequestFails
    \/ StreamEvent \/ StreamTimesOut \/ StreamDropped
    \/ StreamOnlyReasoned \/ StreamEmpty \/ StreamEnds
    \/ TextEmpty \/ TextUnparsed \/ TextParsed

Spec == Init /\ [][Next]_vars

\* Probes and requests have timeouts, and max_tokens bounds a stream.
FairSpec == Spec /\ WF_vars(Next)

-----------------------------------------------------------------------------
(* Properties. *)

\* The text of an attempt is the work of one provider: whatever was passed on
\* came from the provider the router is at, never from one it left behind.
OneVoice == heard \subseteq {current}

\* Neither falling through nor escalating leaps over a tier: every tier from
\* the node's own up to the one in use has been probed in this or an earlier
\* attempt, and a call that found nobody has been to all of them.
NoTierPassedOver ==
    /\ \A t \in Tiers : start <= t /\ t < minTier => t \in tried
    /\ phase \notin {"call", "done"} => \A t \in Tiers : start <= t /\ t <= current => t \in tried
    /\ phase = "done" /\ fault = "unavailable" /\ heard = {} =>
         \A t \in Tiers : start <= t => t \in tried

\* A node gives up on a timeout, an outage or a blank answer only when its
\* retries are used up, and is never called again after a bad request, a
\* broken one or a text that does not parse.  Lost connections are the
\* subject of DroppedIsRetried.
RetriesAsConfigured ==
    /\ phase = "done" /\ fault \in Retryable => attempt = Retries
    /\ retried \cap {"refused", "broken", "unparsed"} = {}

\* A mid-stream disconnect is a retry-safe failure (README.md,
\* docs/specs/node-resilience.md): the node gives up on it only when its
\* retries are used up.  OpenAICompatProvider lets the transport error
\* through, and the node fails at once.
DroppedIsRetried == phase = "done" /\ fault = "dropped" => attempt = Retries

\* A retry neither forgets the tokens of the attempts before it nor counts
\* them twice, and a node that completes, falls back on its default branch or
\* fails for any other reason than its text reports those of all attempts
\* (_execute_llm_node, _execute_decision).  Micro-calls are made once and
\* count nothing: see AllTokensCounted.
TokensCarriedOver ==
    /\ tokens <= reported
    /\ kind # "micro" /\ phase = "call" => tokens = reported
    /\ kind # "micro" /\ phase = "done" /\ ~(kind = "content" /\ fault = "unparsed") =>
         tokens = reported

\* The tokens of a node are those of every call it made, failed attempts
\* included (docs/evals.md, docs/specs/node-resilience.md).  A content node
\* whose text does not parse loses its last attempt's (_execute_llm_node's
\* catch-all builds a result without tokens), and the micro-calls of a tool
\* node are never counted (_extract_args and _check_output_shape drop the count).
AllTokensCounted == phase = "done" => tokens = reported

\* Every call comes to a result.
CallEnds == <>(phase = "done")

=============================================================================
