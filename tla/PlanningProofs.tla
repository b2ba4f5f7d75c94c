---------------------------- MODULE PlanningProofs ----------------------------
(***************************************************************************)
(* Planning for every set of payloads, every number of attempts and every  *)
(* limit of the validator: feedback is fresh, the outcome is the recorded  *)
(* one, the topological sort is exact, the repair costs no plan, and what  *)
(* is accepted is what the executor's theorems assume of a plan.           *)
(***************************************************************************)
EXTENDS Planning, FiniteSetTheorems, SequenceTheorems, WellFoundedInduction, TLAPS

\* The loop works exactly while the task is being planned, within its attempts.
LoopState ==
    /\ attempt \in 0..MaxReplanAttempts
    /\ phase \in {"idle", "asking", "validating"}
    /\ phase # "idle" => status = "planning"

OutcomeInv == rejected_answer_feedback \in Int /\ LoopState /\ FeedbackIsFresh /\ OutcomeIsRecorded

LEMMA OutcomeInit == Init => OutcomeInv
  BY PlanningAssumption DEF Init, OutcomeInv, LoopState, FeedbackIsFresh, OutcomeIsRecorded, ErrorType, Never

LEMMA OutcomeStep == OutcomeInv /\ [Next]_vars => OutcomeInv'
  <1> SUFFICES ASSUME OutcomeInv, [Next]_vars PROVE OutcomeInv'
    OBVIOUS
  <1> USE PlanningAssumption DEF OutcomeInv, LoopState, FeedbackIsFresh, OutcomeIsRecorded, Never, Attempts
  <1>1. CASE Run \/ Revise
    BY <1>1 DEF Run, Revise, StartPlanning
  <1>2. ASSUME NEW answer \in Answers, PlannerFails(answer) PROVE OutcomeInv'
    <2>1. CASE ErrorType(answer) # "rejection"
      <3>1. RetryWithContext(answer)
        BY <1>2, <2>1 DEF PlannerFails
      <3>2. ~(answer = "stall" /\ ErrorType(answer) \in {"schema", "validation"})
        BY DEF ErrorType
      <3> QED
        BY <1>2, <3>1, <3>2 DEF PlannerFails, RetryWithContext, Continue
    <2>2. CASE RetryRejected
      BY <1>2, <2>2 DEF PlannerFails, RetryRejected, Continue, validator
    <2>3. CASE ErrorType(answer) = "rejection" /\ Settle("rejected")
                 /\ ~(Retryable(answer) /\ attempt < Attempts - 1)
      <3>1. answer \in {"answerable", "refused"}
        BY <2>3 DEF ErrorType, Answers
      <3>2. /\ recorded' = [answer |-> answer, attempt |-> attempt]
            /\ status' = "rejected" /\ phase' = "idle" /\ attempt' = attempt
            /\ rejected_answer_feedback' = rejected_answer_feedback
        BY <1>2, <2>3, <3>1 DEF PlannerFails, Settle, Record
      <3>3. answer = "answerable" => attempt >= Attempts - 1
        BY <2>3 DEF Retryable
      <3> QED
        BY <3>1, <3>2, <3>3, <2>3
    <2> QED
      BY <1>2, <2>1, <2>2, <2>3 DEF PlannerFails
  <1>3. ASSUME NEW p \in Payloads, PlannerAnswers(p) PROVE OutcomeInv'
    BY <1>3 DEF PlannerAnswers
  <1>4. CASE PlannerRaisesValueError
    BY <1>4 DEF PlannerRaisesValueError, Continue
  <1>5. CASE PlannerRaises \/ Cancel
    BY <1>5 DEF PlannerRaises, Cancel, Settle
  <1>6. CASE Validate
    BY <1>6 DEF Validate
  <1>7. CASE PlanInvalid
    BY <1>7 DEF PlanInvalid, RetryWithContext, Continue
  <1>8. CASE PlanSuspicious
    BY <1>8 DEF PlanSuspicious, Continue
  <1>9. CASE PlanReady
    BY <1>9 DEF PlanReady, Settle, Record, validator
  <1>10. CASE UNCHANGED vars
    BY <1>10 DEF vars
  <1> QED
    BY <1>1, <1>2, <1>3, <1>4, <1>5, <1>6, <1>7, <1>8, <1>9, <1>10 DEF Next, Loop

LEMMA OutcomeInvHolds == Spec => []OutcomeInv
  BY OutcomeInit, OutcomeStep, PTL DEF Spec

\* Every prompt that quotes an earlier attempt quotes the one just before it,
\* and one complaint about it; guidance on an older refusal is only ever
\* repeated beside a newer complaint, for every way the attempts may fail
\* (_plan_with_retry).
THEOREM FeedbackIsFreshHolds == Spec => []FeedbackIsFresh
  <1>1. OutcomeInv => FeedbackIsFresh
    BY DEF OutcomeInv
  <1> QED
    BY <1>1, OutcomeInvHolds, PTL

\* A plan that is presented and a rejection are the last attempt on record.
THEOREM OutcomeIsRecordedHolds == Spec => []OutcomeIsRecorded
  <1>1. OutcomeInv => OutcomeIsRecorded
    BY DEF OutcomeInv
  <1> QED
    BY <1>1, OutcomeInvHolds, PTL

-----------------------------------------------------------------------------
(* Type correctness.                                                       *)

LEMMA TypeStep == OutcomeInv /\ TypeOK /\ [Next]_vars => TypeOK'
  <1> SUFFICES ASSUME OutcomeInv, TypeOK, [Next]_vars PROVE TypeOK'
    OBVIOUS
  <1> USE PlanningAssumption DEF TypeOK, OutcomeInv, LoopState, Never, Attempts, Ended
  <1>1. ASSUME StartPlanning, revisions' \in 0..MaxRevisions PROVE TypeOK'
    <2>1. /\ status' = "planning" /\ phase' = "asking" /\ attempt' = 0 /\ thinking' = FALSE
          /\ stage' = "idle" /\ verdict' = "none"
          /\ {prior_reasoning', validation_feedback', rejected_answer_feedback'} = {Never}
      BY <1>1 DEF StartPlanning, Discard
    <2>2. 0 \in 0..MaxReplanAttempts /\ {Never} \subseteq Never..MaxReplanAttempts
      OBVIOUS
    <2> QED
      BY <1>1, <2>1, <2>2
  <1>2. CASE Run \/ Revise
    BY <1>1, <1>2 DEF Run, Revise
  <1>3. ASSUME NEW answer \in Answers, PlannerFails(answer) PROVE TypeOK'
    <2>1. UNCHANGED <<revisions, stage, verdict>>
      BY <1>3 DEF PlannerFails, validator
    <2>2. CASE RetryWithContext(answer)
      BY <2>1, <2>2 DEF RetryWithContext, Continue
    <2>3. CASE RetryRejected
      BY <2>1, <2>3 DEF RetryRejected, Continue
    <2>4. CASE Settle("rejected")
      BY <2>1, <2>4 DEF Settle
    <2> QED
      BY <1>3, <2>2, <2>3, <2>4 DEF PlannerFails
  <1>4. ASSUME NEW p \in Payloads, PlannerAnswers(p) PROVE TypeOK'
    BY <1>4 DEF PlannerAnswers, Call
  <1>5. CASE PlannerRaisesValueError
    BY <1>5 DEF PlannerRaisesValueError, Continue, validator
  <1>6. CASE PlannerRaises \/ Cancel
    BY <1>6 DEF PlannerRaises, Cancel, Settle, validator
  <1>7. CASE Validate
    <2>1. stage' \in {"check", "sort", "nested", "done"} /\ verdict' \in {"none", "valid"} \cup Errors
      <3>1. /\ PreSortError(plan, Top) # "none" => PreSortError(plan, Top) \in Errors
            /\ PostSortError(plan, Top, sorted[Top]) # "none" => PostSortError(plan, Top, sorted[Top]) \in Errors
        BY DEF PreSortError, PostSortError, Errors
      <3>2. CASE CheckFails
        BY <3>1, <3>2 DEF CheckFails, Raise, Errors
      <3>3. CASE SortFails
        BY <3>1, <3>3 DEF SortFails, Raise
      <3>4. CASE BuildGraph \/ PopNode \/ SortEnds \/ EnterSubplan \/ WriteOrder
        BY <3>4 DEF BuildGraph, PopNode, SortEnds, EnterSubplan, WriteOrder
      <3> QED
        BY <1>7, <3>2, <3>3, <3>4 DEF Validate, ValidatorNext
    <2> QED
      BY <1>7, <2>1 DEF Validate
  <1>8. CASE PlanInvalid
    BY <1>8 DEF PlanInvalid, RetryWithContext, Continue, Discard
  <1>9. CASE PlanSuspicious
    BY <1>9 DEF PlanSuspicious, Continue, Discard
  <1>10. CASE PlanReady
    BY <1>10 DEF PlanReady, Settle, validator
  <1>11. CASE UNCHANGED vars
    BY <1>11 DEF vars
  <1> QED
    BY <1>2, <1>3, <1>4, <1>5, <1>6, <1>7, <1>8, <1>9, <1>10, <1>11 DEF Next, Loop

\* Planning keeps to its types, and to its number of attempts (_plan_with_retry).
THEOREM PlanningTypes == Spec => []TypeOK
  <1>1. Init => TypeOK
    <2> SUFFICES ASSUME Init PROVE TypeOK
      OBVIOUS
    <2>1. 0 \in 0..MaxReplanAttempts /\ 0 \in 0..MaxRevisions /\ {Never} \subseteq Never..MaxReplanAttempts
      BY PlanningAssumption DEF Never
    <2>2. {prior_reasoning, validation_feedback, rejected_answer_feedback} = {Never} /\ thinking = FALSE
      BY DEF Init
    <2> QED
      BY <2>1, <2>2 DEF Init, ValidatorInit, TypeOK
  <1> QED
    BY <1>1, TypeStep, OutcomeInvHolds, PTL DEF Spec

-----------------------------------------------------------------------------
(* Kahn's loop, for one plan.                                              *)

Elems(q) == {q[i] : i \in 1..Len(q)}
Once(q)  == \A i, j \in 1..Len(q) : q[i] = q[j] => i = j

\* The state of the loop: what is sorted and what is queued are the nodes all
\* of whose sources are sorted, in_degree counts the sources that are not, and
\* the order so far is topological.
Kahn(p, s, ids, q, deg) ==
    /\ ids \in Seq(IdsOf(p, s)) /\ q \in Seq(IdsOf(p, s))
    /\ Once(ids) /\ Once(q) /\ Elems(ids) \cap Elems(q) = {}
    /\ \A b \in IdsOf(p, s) : deg[b] = Cardinality(Sources(p, s, b) \ Elems(ids))
    /\ \A b \in IdsOf(p, s) :
          Sources(p, s, b) \subseteq Elems(ids) <=> b \in Elems(ids) \cup Elems(q)
    /\ \A j \in 1..Len(ids) : \A a \in Sources(p, s, ids[j]) : \E i \in 1..(j - 1) : ids[i] = a

LEMMA IntervalLength ==
    ASSUME NEW m \in Nat, NEW n \in Nat, 1..m = 1..n
    PROVE  m = n
  <1>1. (m > 0 => m \in 1..n) /\ (n > 0 => n \in 1..m)
    OBVIOUS
  <1> QED
    BY <1>1

LEMMA IntervalEnd ==
    ASSUME NEW n \in Nat, NEW i \in 1..n
    PROVE  i = n \/ i \in 1..(n - 1)
  OBVIOUS

LEMMA InjectionFacts ==
    ASSUME NEW S, NEW T, NEW f
    PROVE  f \in Injection(S, T) <=> f \in [S -> T] /\ \A x, y \in S : f[x] = f[y] => x = y
  BY Zenon DEF Injection, IsInjective

LEMMA AscendingFacts ==
    ASSUME NEW S, IsFiniteSet(S), NEW q \in Ascending(S)
    PROVE  q \in Seq(S) /\ Elems(q) = S /\ Once(q)
  <1> DEFINE n == Cardinality(S)
  <1>1. n \in Nat /\ IsFiniteSet(1..n) /\ Cardinality(1..n) = n
    BY FS_CardinalityType, FS_Interval
  <1>2. q \in [1..n -> S] /\ \A x \in S : \E i \in 1..n : q[i] = x
    BY DEF Ascending
  <1> HIDE DEF n
  <1>3. q \in Surjection(1..n, S)
    BY <1>2 DEF Surjection
  <1>4. q \in Injection(1..n, S)
    BY <1>1, <1>3, FS_SurjSameCardinalityImpliesInj DEF n
  <1>5. q \in Seq(S) /\ Len(q) = n
    <2>1. q \in Seq(S)
      BY <1>1, <1>2, SeqDef
    <2>2. Len(q) \in Nat /\ DOMAIN q = 1..Len(q) /\ DOMAIN q = 1..n
      BY <2>1, <1>2, LenProperties
    <2> QED
      BY <2>1, <2>2, <1>1, IntervalLength
  <1> QED
    <2>1. \A i, j \in 1..n : q[i] = q[j] => i = j
      BY <1>4, InjectionFacts
    <2> QED
      BY <1>2, <1>5, <2>1 DEF Elems, Once

\* A sequence without repetitions has as many elements as it is long.
LEMMA OnceCardinality ==
    ASSUME NEW S, NEW q \in Seq(S), Once(q)
    PROVE  IsFiniteSet(Elems(q)) /\ Cardinality(Elems(q)) = Len(q)
  <1> DEFINE n == Len(q)
  <1>1. n \in Nat /\ IsFiniteSet(1..n) /\ Cardinality(1..n) = n /\ q \in [1..n -> S]
    <2>1. n \in Nat /\ q \in [1..n -> S]
      BY LenProperties
    <2> HIDE DEF n
    <2>2. IsFiniteSet(1..n) /\ Cardinality(1..n) = n
      BY <2>1, FS_Interval
    <2> QED
      BY <2>1, <2>2
  <1>2. q \in Surjection(1..n, Elems(q)) /\ q \in Injection(1..n, Elems(q))
    <2>1. q \in [1..n -> Elems(q)] /\ \A x \in Elems(q) : \E i \in 1..n : q[i] = x
      BY <1>1 DEF Elems
    <2>2. \A i, j \in 1..n : q[i] = q[j] => i = j
      BY DEF Once
    <2> QED
      BY <2>1, <2>2, InjectionFacts, Zenon DEF Surjection
  <1> QED
    BY <1>1, <1>2, FS_Surjection

\* The ids of a finite list of nodes, which are as many as the nodes exactly
\* when no two nodes share one.
LEMMA IdsFinite ==
    ASSUME NEW p, NEW s, IsFiniteSet(MembersOf(p, s))
    PROVE  /\ IsFiniteSet(IdsOf(p, s))
           /\ Cardinality(IdsOf(p, s)) <= Cardinality(MembersOf(p, s))
           /\ Cardinality(IdsOf(p, s)) = Cardinality(MembersOf(p, s)) <=>
                 \A j, k \in MembersOf(p, s) : p[j].id = p[k].id => j = k
  <1> DEFINE M == MembersOf(p, s)
             I == IdsOf(p, s)
             f == [k \in M |-> p[k].id]
  <1>1. f \in Surjection(M, I)
    <2>1. f \in [M -> I] /\ \A x \in I : \E k \in M : f[k] = x
      BY DEF IdsOf
    <2> QED
      BY <2>1, Zenon DEF Surjection
  <1>2. f \in Injection(M, I) <=> \A j, k \in M : p[j].id = p[k].id => j = k
    <2>1. f \in [M -> I] /\ \A k \in M : f[k] = p[k].id
      BY <1>1 DEF Surjection
    <2>2. f \in Injection(M, I) <=> \A j, k \in M : f[j] = f[k] => j = k
      BY <2>1, InjectionFacts
    <2> QED
      BY <2>1, <2>2
  <1> HIDE DEF f
  <1> QED
    BY <1>1, <1>2, FS_Surjection

LEMMA SourcesFinite ==
    ASSUME NEW p, NEW s, IsFiniteSet(IdsOf(p, s)), NEW b, NEW D
    PROVE  IsFiniteSet(Sources(p, s, b) \ D) /\ Cardinality(Sources(p, s, b) \ D) \in Nat
           /\ (Cardinality(Sources(p, s, b) \ D) = 0 <=> Sources(p, s, b) \subseteq D)
  <1>1. Sources(p, s, b) \ D \in SUBSET IdsOf(p, s)
    BY DEF Sources
  <1>2. IsFiniteSet(Sources(p, s, b) \ D)
    BY <1>1, FS_Subset
  <1> QED
    BY <1>2, FS_CardinalityType, FS_EmptySet

LEMMA KahnStart ==
    ASSUME NEW p, NEW s, IsFiniteSet(IdsOf(p, s)),
           NEW q \in Ascending({b \in IdsOf(p, s) : Sources(p, s, b) = {}})
    PROVE  Kahn(p, s, <<>>, q, [b \in IdsOf(p, s) |-> Cardinality(Sources(p, s, b))])
  <1> DEFINE I == IdsOf(p, s)
             Z == {b \in I : Sources(p, s, b) = {}}
  <1>1. IsFiniteSet(Z)
    BY FS_Subset
  <1>2. q \in Seq(Z) /\ Elems(q) = Z /\ Once(q)
    BY <1>1, AscendingFacts
  <1>3. q \in Seq(I)
    BY <1>2, SeqMonotonic
  <1>4. Elems(<<>>) = {} /\ Once(<<>>) /\ <<>> \in Seq(I) /\ Len(<<>>) = 0
    BY EmptySeq DEF Elems, Once
  <1> QED
    <2>1. \A b \in I : Cardinality(Sources(p, s, b)) = Cardinality(Sources(p, s, b) \ Elems(<<>>))
      <3>1. \A b : Sources(p, s, b) \ {} = Sources(p, s, b)
        OBVIOUS
      <3> QED
        BY <3>1, <1>4
    <2>2. \A b \in I : Sources(p, s, b) \subseteq Elems(<<>>) <=> b \in Elems(<<>>) \cup Elems(q)
      BY <1>2, <1>4
    <2>3. \A j \in 1..Len(<<>>) : FALSE
      BY <1>4
    <2> HIDE DEF Z
    <2> QED
      BY <1>2, <1>3, <1>4, <2>1, <2>2, <2>3 DEF Kahn

LEMMA KahnStep ==
    ASSUME NEW p, NEW s, IsFiniteSet(IdsOf(p, s)), NEW ids, NEW q, NEW deg, Kahn(p, s, ids, q, deg),
           q # <<>>,
           NEW new \in Ascending({b \in IdsOf(p, s) : Edge(p, s, Head(q), b) /\ deg[b] = 1})
    PROVE  Kahn(p, s, Append(ids, Head(q)), Tail(q) \o new,
                [b \in IdsOf(p, s) |-> IF Edge(p, s, Head(q), b) THEN deg[b] - 1 ELSE deg[b]])
  <1> DEFINE I == IdsOf(p, s)
             x == Head(q)
             Z == {b \in I : Edge(p, s, x, b) /\ deg[b] = 1}
             D == Elems(ids)
             Src(b) == Sources(p, s, b)
             ids2 == Append(ids, x)
             q2 == Tail(q) \o new
             deg2 == [b \in I |-> IF Edge(p, s, x, b) THEN deg[b] - 1 ELSE deg[b]]
  <1>1. /\ ids \in Seq(I) /\ q \in Seq(I) /\ Once(ids) /\ Once(q) /\ D \cap Elems(q) = {}
        /\ \A b \in I : deg[b] = Cardinality(Src(b) \ D)
        /\ \A b \in I : Src(b) \subseteq D <=> b \in D \cup Elems(q)
        /\ \A j \in 1..Len(ids) : \A a \in Src(ids[j]) : \E i \in 1..(j - 1) : ids[i] = a
    BY DEF Kahn
  <1>2. new \in Seq(Z) /\ Elems(new) = Z /\ Once(new) /\ new \in Seq(I)
    <2>1. Z \in SUBSET I
      OBVIOUS
    <2>2. IsFiniteSet(Z)
      BY <2>1, FS_Subset
    <2> QED
      BY <2>1, <2>2, AscendingFacts, SeqMonotonic
  <1>3. /\ x \in I /\ Tail(q) \in Seq(I) /\ Len(Tail(q)) = Len(q) - 1 /\ x = q[1] /\ Len(q) \in Nat
        /\ Len(q) >= 1 /\ \A i \in 1..Len(Tail(q)) : Tail(q)[i] = q[i + 1]
    BY <1>1, HeadTailProperties, EmptySeq, LenProperties
  <1>4. /\ Once(Tail(q)) /\ x \notin Elems(Tail(q)) /\ Elems(q) = {x} \cup Elems(Tail(q))
    <2>1. Once(Tail(q))
      BY <1>1, <1>3 DEF Once
    <2>2. x \notin Elems(Tail(q))
      BY <1>1, <1>3 DEF Once, Elems
    <2>3. \A y \in Elems(q) : y = x \/ y \in Elems(Tail(q))
      <3> SUFFICES ASSUME NEW i \in 1..Len(q), q[i] # x PROVE q[i] \in Elems(Tail(q))
        BY DEF Elems
      <3>1. i - 1 \in 1..Len(Tail(q)) /\ Tail(q)[i - 1] = q[i]
        BY <1>3
      <3> QED
        BY <3>1 DEF Elems
    <2>4. \A y \in Elems(Tail(q)) : y \in Elems(q)
      BY <1>3 DEF Elems
    <2>5. x \in Elems(q)
      BY <1>3 DEF Elems
    <2> QED
      BY <2>1, <2>2, <2>3, <2>4, <2>5
  <1>5. /\ ids2 \in Seq(I) /\ Len(ids2) = Len(ids) + 1 /\ Len(ids) \in Nat
        /\ \A i \in 1..Len(ids) : ids2[i] = ids[i]
        /\ ids2[Len(ids) + 1] = x
    BY <1>1, <1>3, AppendProperties, LenProperties
  <1>6. x \notin D
    BY <1>1, <1>4
  <1> HIDE DEF x, ids2, q2, deg2, Z
  <1>7. Elems(ids2) = D \cup {x} /\ Once(ids2)
    <2>1. 1..Len(ids2) = 1..Len(ids) \cup {Len(ids) + 1}
      BY <1>5
    <2>2. Elems(ids2) = D \cup {x}
      BY <1>5, <2>1 DEF Elems
    <2>3. Once(ids2)
      BY <1>1, <1>5, <1>6, <2>1 DEF Elems, Once
    <2> QED
      BY <2>2, <2>3
  <1>8. Src(x) \subseteq D
    BY <1>1, <1>3, <1>4
  <1>9. \A b \in I : Edge(p, s, x, b) <=> x \in Src(b)
    BY <1>3 DEF Sources
  <1>10. Z \cap (D \cup Elems(q)) = {}
    <2> SUFFICES ASSUME NEW b \in I, deg[b] = 1, b \in D \cup Elems(q) PROVE FALSE
      BY DEF Z
    <2>1. Src(b) \subseteq D
      BY <1>1
    <2>2. Cardinality(Src(b) \ D) = 0
      BY <2>1, SourcesFinite
    <2>3. deg[b] = Cardinality(Src(b) \ D)
      BY <1>1
    <2> QED
      BY <2>2, <2>3
  <1>11. q2 \in Seq(I) /\ Elems(q2) = Elems(Tail(q)) \cup Z /\ Once(q2)
    <2> DEFINE m == Len(Tail(q))
    <2>1. /\ q2 \in Seq(I) /\ Len(q2) = m + Len(new) /\ m \in Nat /\ Len(new) \in Nat
          /\ \A i \in 1..(m + Len(new)) : q2[i] = IF i <= m THEN Tail(q)[i] ELSE new[i - m]
      BY <1>2, <1>3, ConcatProperties, LenProperties DEF q2
    <2>2. \A i \in 1..m : q2[i] = Tail(q)[i]
      BY <2>1
    <2>3. \A i \in 1..Len(new) : i + m \in 1..Len(q2) /\ q2[i + m] = new[i]
      BY <2>1
    <2>4. \A i \in 1..Len(q2) : i \in 1..m \/ (i - m \in 1..Len(new) /\ q2[i] = new[i - m])
      BY <2>1
    <2>5. Elems(q2) \subseteq Elems(Tail(q)) \cup Elems(new)
      BY <2>1, <2>2, <2>4 DEF Elems
    <2>6. Elems(Tail(q)) \cup Elems(new) \subseteq Elems(q2)
      <3>1. 1..m \subseteq 1..Len(q2)
        BY <2>1
      <3> QED
        BY <3>1, <2>2, <2>3 DEF Elems
    <2>7. Once(q2)
      <3> SUFFICES ASSUME NEW i \in 1..Len(q2), NEW j \in 1..Len(q2), q2[i] = q2[j] PROVE i = j
        BY DEF Once
      <3>1. CASE i \in 1..m /\ j \in 1..m
        BY <3>1, <2>2, <1>4 DEF Once
      <3>2. CASE i - m \in 1..Len(new) /\ q2[i] = new[i - m] /\ j - m \in 1..Len(new) /\ q2[j] = new[j - m]
        <4>1. i - m = j - m
          BY <3>2, <1>2 DEF Once
        <4> QED
          BY <4>1, <2>1
      <3>3. Elems(Tail(q)) \cap Elems(new) = {}
        BY <1>2, <1>4, <1>10
      <3>4. \A k \in 1..m : q2[k] \in Elems(Tail(q))
        BY <2>2 DEF Elems
      <3>5. \A k \in 1..Len(q2) : k - m \in 1..Len(new) /\ q2[k] = new[k - m] => q2[k] \in Elems(new)
        BY DEF Elems
      <3> QED
        BY <2>4, <3>1, <3>2, <3>3, <3>4, <3>5
    <2> QED
      BY <2>1, <2>5, <2>6, <2>7, <1>2
  <1>12. Elems(ids2) \cap Elems(q2) = {}
    BY <1>1, <1>4, <1>7, <1>10, <1>11
  <1>13. ASSUME NEW b \in I
         PROVE  /\ deg2[b] = Cardinality(Src(b) \ Elems(ids2))
                /\ Src(b) \subseteq Elems(ids2) <=> b \in Elems(ids2) \cup Elems(q2)
    <2>1. /\ IsFiniteSet(Src(b) \ D) /\ Cardinality(Src(b) \ D) \in Nat
          /\ deg[b] = Cardinality(Src(b) \ D)
      BY <1>1, SourcesFinite
    <2>2. Src(b) \ Elems(ids2) = (Src(b) \ D) \ {x}
      BY <1>7
    <2>3. Cardinality(Src(b) \ Elems(ids2)) = IF x \in Src(b) \ D THEN deg[b] - 1 ELSE deg[b]
      <3> DEFINE R == Src(b) \ D
      <3> HIDE DEF R
      <3>1. IsFiniteSet(R) /\ Cardinality(R) = deg[b] /\ Src(b) \ Elems(ids2) = R \ {x}
        BY <2>1, <2>2 DEF R
      <3>2. Cardinality(R \ {x}) = IF x \in R THEN Cardinality(R) - 1 ELSE Cardinality(R)
        BY <3>1, FS_RemoveElement
      <3> QED
        BY <3>1, <3>2 DEF R
    <2>4. deg2[b] = Cardinality(Src(b) \ Elems(ids2))
      BY <2>3, <1>6, <1>9 DEF deg2
    <2>5. Src(b) \subseteq Elems(ids2) <=> Cardinality(Src(b) \ Elems(ids2)) = 0
      BY SourcesFinite
    <2>6. deg[b] = 0 <=> b \in D \cup Elems(q)
      BY <1>1, SourcesFinite
    <2>7. Src(b) \subseteq Elems(ids2) <=> deg[b] = 0 \/ b \in Z
      <3>1. x \in Src(b) \ D <=> Edge(p, s, x, b)
        BY <1>6, <1>9
      <3>2. CASE Edge(p, s, x, b)
        <4>1. deg[b] # 0
          <5>1. ~(Src(b) \subseteq D)
            BY <3>1, <3>2
          <5> QED
            BY <5>1, <1>1, SourcesFinite
        <4>2. b \in Z <=> deg[b] = 1
          BY <3>2 DEF Z
        <4> QED
          BY <4>1, <4>2, <3>1, <3>2, <2>1, <2>3, <2>5
      <3>3. CASE ~Edge(p, s, x, b)
        <4>1. b \notin Z
          BY <3>3 DEF Z
        <4> QED
          BY <4>1, <3>1, <3>3, <2>3, <2>5
      <3> QED
        BY <3>2, <3>3
    <2>8. b \in Elems(ids2) \cup Elems(q2) <=> b \in D \cup Elems(q) \cup Z
      BY <1>4, <1>7, <1>11
    <2> QED
      BY <2>4, <2>6, <2>7, <2>8
  <1>14. \A j \in 1..Len(ids2) : \A a \in Src(ids2[j]) : \E i \in 1..(j - 1) : ids2[i] = a
    <2> SUFFICES ASSUME NEW j \in 1..Len(ids2), NEW a \in Src(ids2[j])
                 PROVE  \E i \in 1..(j - 1) : ids2[i] = a
      OBVIOUS
    <2>1. CASE j \in 1..Len(ids)
      <3>1. PICK i \in 1..(j - 1) : ids[i] = a
        BY <2>1, <1>1, <1>5
      <3>2. i \in 1..Len(ids)
        BY <2>1, <1>5
      <3> QED
        BY <3>1, <3>2, <1>5
    <2>2. CASE j = Len(ids) + 1
      <3>1. a \in D
        BY <2>2, <1>5, <1>8
      <3>2. PICK i \in 1..Len(ids) : ids[i] = a
        BY <3>1 DEF Elems
      <3>3. i \in 1..(j - 1) /\ ids2[i] = a
        BY <3>2, <2>2, <1>5
      <3> QED
        BY <3>3
    <2> QED
      BY <2>1, <2>2, <1>5
  <1> HIDE DEF Src, D
  <1> QED
    BY <1>5, <1>7, <1>11, <1>12, <1>13, <1>14 DEF Kahn, ids2, q2, deg2, x, Src

\* The queue has run dry: with every node sorted the order is topological, and
\* otherwise an id is repeated or the nodes left wait for each other.
LEMMA KahnDone ==
    ASSUME NEW p, NEW s, IsFiniteSet(MembersOf(p, s)), NEW ids, NEW q, NEW deg,
           Kahn(p, s, ids, q, deg), q = <<>>
    PROVE  /\ Len(ids) = Cardinality(MembersOf(p, s)) => Topological(p, s, ids)
           /\ Len(ids) # Cardinality(MembersOf(p, s)) => Unsortable(p, s)
  <1> DEFINE M == MembersOf(p, s)
             I == IdsOf(p, s)
             D == Elems(ids)
  <1>1. /\ ids \in Seq(I) /\ Once(ids) /\ Elems(q) = {}
        /\ \A b \in I : Sources(p, s, b) \subseteq D <=> b \in D
        /\ \A j \in 1..Len(ids) : \A a \in Sources(p, s, ids[j]) : \E i \in 1..(j - 1) : ids[i] = a
    <2>1. Elems(q) = {}
      BY EmptySeq DEF Elems
    <2> QED
      BY <2>1 DEF Kahn
  <1>2. /\ IsFiniteSet(I) /\ Cardinality(I) <= Cardinality(M) /\ Cardinality(I) \in Nat
        /\ Cardinality(M) \in Nat
        /\ Cardinality(I) = Cardinality(M) <=> \A j, k \in M : p[j].id = p[k].id => j = k
    BY IdsFinite, FS_CardinalityType
  <1>3. /\ D \in SUBSET I /\ IsFiniteSet(D) /\ Cardinality(D) = Len(ids) /\ Len(ids) \in Nat
        /\ Cardinality(D) <= Cardinality(I) /\ (Cardinality(I) = Cardinality(D) => I = D)
    <2>1. Len(ids) \in Nat /\ \A i \in 1..Len(ids) : ids[i] \in I
      BY <1>1, LenProperties
    <2>2. D \in SUBSET I
      BY <2>1 DEF Elems
    <2>3. IsFiniteSet(D) /\ Cardinality(D) = Len(ids)
      BY <1>1, OnceCardinality
    <2> QED
      BY <2>1, <2>2, <2>3, <1>2, FS_Subset
  <1>4. ASSUME Len(ids) = Cardinality(M) PROVE Topological(p, s, ids)
    <2>1. I = D
      BY <1>2, <1>3, <1>4
    <2>2. \A k \in M : \E i \in 1..Len(ids) : ids[i] = p[k].id
      BY <2>1 DEF IdsOf, Elems
    <2>3. \A i, j \in 1..Len(ids) : ids[i] = ids[j] => i = j
      BY <1>1 DEF Once
    <2>4. ASSUME NEW i \in 1..Len(ids), NEW j \in 1..Len(ids), Edge(p, s, ids[i], ids[j])
          PROVE  i < j
      <3>1. ids[i] \in Sources(p, s, ids[j])
        BY <2>4, <1>1, <1>3 DEF Sources, Elems
      <3>2. PICK h \in 1..(j - 1) : ids[h] = ids[i]
        BY <3>1, <1>1
      <3>3. h \in 1..Len(ids)
        BY <1>3
      <3> QED
        BY <3>2, <3>3, <2>3
    <2>5. ASSUME NEW k \in M, NEW i \in 1..Len(ids), NEW j \in 1..Len(ids)
          PROVE  /\ ids[j] = p[k].id /\ ids[i] \in p[k].context_needed => i < j
                 /\ p[k].type = "decision" /\ ids[i] = p[k].id
                       /\ ids[j] \in p[k].branches["yes"] \cup p[k].branches["no"] => i < j
      <3>1. ids[j] = p[k].id /\ ids[i] \in p[k].context_needed => Edge(p, s, ids[i], ids[j])
        BY DEF Edge
      <3>2. p[k].type = "decision" => BranchIds(p[k]) = p[k].branches["yes"] \cup p[k].branches["no"]
        BY DEF BranchIds
      <3>3. ids[i] = p[k].id /\ ids[j] \in BranchIds(p[k]) => Edge(p, s, ids[i], ids[j])
        BY DEF Edge
      <3> QED
        BY <3>1, <3>2, <3>3, <2>4
    <2> QED
      BY <2>2, <2>3, <2>5, <1>4 DEF Topological
  <1>5. ASSUME Len(ids) # Cardinality(M),
               ~\E j, k \in M : j # k /\ p[j].id = p[k].id
        PROVE  \E S \in (SUBSET I) \ {{}} :
                  \A b \in S : \E k \in M :
                      \/ p[k].id = b /\ p[k].context_needed \cap S # {}
                      \/ p[k].type = "decision" /\ p[k].id \in S
                            /\ b \in p[k].branches["yes"] \cup p[k].branches["no"]
    <2>1. Cardinality(I) = Cardinality(M)
      BY <1>2, <1>5
    <2>2. D # I
      BY <1>3, <1>5, <2>1
    <2> DEFINE S == I \ D
    <2>3. S \in (SUBSET I) \ {{}}
      BY <1>3, <2>2
    <2>4. ASSUME NEW b \in S
          PROVE  \E k \in M :
                      \/ p[k].id = b /\ p[k].context_needed \cap S # {}
                      \/ p[k].type = "decision" /\ p[k].id \in S
                            /\ b \in p[k].branches["yes"] \cup p[k].branches["no"]
      <3>1. PICK a \in Sources(p, s, b) : a \notin D
        BY <1>1
      <3>2. a \in S /\ Edge(p, s, a, b)
        BY <3>1 DEF Sources
      <3>3. PICK k \in M : \/ p[k].id = b /\ a \in p[k].context_needed
                           \/ p[k].id = a /\ b \in BranchIds(p[k])
        BY <3>2 DEF Edge
      <3> QED
        BY <3>2, <3>3 DEF BranchIds
    <2> QED
      BY <2>3, <2>4
  <1> QED
    BY <1>4, <1>5 DEF Unsortable

-----------------------------------------------------------------------------
(* The validator: every frame of the recursion.                            *)

\* The nodes are a list, and the orders belong to the plans in it.
Shape ==
    /\ Len(plan) \in Nat /\ DOMAIN plan = 1..Len(plan)
    /\ DOMAIN sorted = 0..Len(plan) /\ DOMAIN order = 0..Len(plan)

\* The frames below the top have sorted their plan; the top one has not begun,
\* is in Kahn's loop, or is done with its own.
Frames ==
    /\ verdict = "none"
    /\ stack \in Seq(0..Len(plan)) /\ stack # <<>>
    /\ \A i \in 1..(Len(stack) - 1) : Topological(plan, stack[i], sorted[stack[i]])
    /\ stage = "nested" => Topological(plan, Top, sorted[Top])
    /\ stage \in {"check", "sort"} =>
          \A i \in 1..(Len(stack) - 1) : stack[i] # Top
    /\ stage = "check" => sorted[Top] = <<>>
    /\ stage = "sort" => Kahn(plan, Top, sorted[Top], queue, in_degree)

Written == \A s \in DOMAIN order : order[s] # <<>> => Topological(plan, s, order[s])

SortInv ==
    /\ stage \in {"idle", "check", "sort", "nested", "done"}
    /\ stage = "idle" => order = <<>> /\ verdict = "none"
    /\ stage # "idle" => Shape
    /\ stage \in {"check", "sort", "nested"} => Frames
    /\ Written
    /\ verdict = "cycle" => Unsortable(plan, Top)

LEMMA SortInvImplies == SortInv => SortExact
  BY DEF SortInv, SortExact, Frames, Written

LEMMA MembersFinite ==
    ASSUME Shape, NEW s
    PROVE  IsFiniteSet(MembersOf(plan, s)) /\ IsFiniteSet(IdsOf(plan, s))
  <1>1. MembersOf(plan, s) \in SUBSET (1..Len(plan)) /\ IsFiniteSet(1..Len(plan))
    BY FS_Interval DEF Shape, MembersOf
  <1> QED
    BY <1>1, FS_Subset, IdsFinite

LEMMA DiscardKeeps ==
    ASSUME Discard
    PROVE  SortInv'
  <1>1. stage' = "idle" /\ order' = <<>> /\ verdict' = "none" /\ DOMAIN order' = {}
    BY DEF Discard
  <1> QED
    BY <1>1 DEF SortInv, Written

\* validate is called with a plan that is a list.
LEMMA CallKeeps ==
    ASSUME NEW S, NEW p \in Seq(S), Call(p)
    PROVE  SortInv'
  <1>1. /\ plan' = p /\ stage' = "check" /\ stack' = <<0>> /\ verdict' = "none"
        /\ sorted' = [s \in 0..Len(p) |-> <<>>] /\ order' = [s \in 0..Len(p) |-> <<>>]
    BY DEF Call, Outer
  <1>2. Len(p) \in Nat /\ DOMAIN p = 1..Len(p)
    BY LenProperties
  <1>3. Shape'
    BY <1>1, <1>2 DEF Shape
  <1>4. /\ stack' \in Seq(0..Len(plan')) /\ stack' # <<>> /\ Len(stack') = 1 /\ Top' = 0
    BY <1>1, <1>2 DEF Top
  <1>5. Frames'
    BY <1>1, <1>2, <1>4 DEF Frames
  <1>6. Written'
    BY <1>1 DEF Written
  <1> QED
    BY <1>1, <1>3, <1>5, <1>6 DEF SortInv

\* An error ends the validation; the orders stay.
LEMMA RaiseKeeps ==
    ASSUME SortInv, stage \in {"check", "sort"}, NEW error, Raise(error),
           error = "cycle" => Unsortable(plan, Top)
    PROVE  SortInv'
  <1>1. stage' = "done" /\ verdict' = error /\ UNCHANGED <<plan, stack, sorted, order>>
    BY DEF Raise
  <1> QED
    BY <1>1 DEF SortInv, Shape, Written, Top

LEMMA ValidatorKeeps ==
    ASSUME SortInv, ValidatorNext
    PROVE  SortInv'
  <1>1. CASE CheckFails
    <2>1. PreSortError(plan, Top) # "cycle"
      BY DEF PreSortError
    <2> QED
      BY <1>1, <2>1, RaiseKeeps DEF CheckFails
  <1>2. CASE BuildGraph
    <2>1. /\ stage = "check" /\ stage' = "sort" /\ UNCHANGED <<plan, stack, sorted, order, verdict>>
          /\ in_degree' = [b \in IdsOf(plan, Top) |-> Cardinality(Sources(plan, Top, b))]
          /\ queue' \in Ascending({b \in IdsOf(plan, Top) : Sources(plan, Top, b) = {}})
      BY <1>2 DEF BuildGraph
    <2>2. Shape /\ Frames /\ Written /\ sorted[Top] = <<>>
      BY <2>1 DEF SortInv, Frames
    <2>3. Kahn(plan, Top, <<>>, queue', in_degree')
      BY <2>1, <2>2, MembersFinite, KahnStart
    <2>4. Top' = Top /\ Shape' /\ Written'
      BY <2>1, <2>2 DEF Top, Shape, Written
    <2>5. Kahn(plan, Top, sorted[Top], queue, in_degree)'
      BY <2>1, <2>2, <2>3, <2>4
    <2>6. Frames'
      BY <2>1, <2>2, <2>4, <2>5 DEF Frames
    <2> QED
      BY <2>1, <2>2, <2>4, <2>6 DEF SortInv, Frames
  <1>3. CASE PopNode
    <2> DEFINE I == IdsOf(plan, Top)
               x == Head(queue)
    <2>1. /\ stage = "sort" /\ queue # <<>> /\ UNCHANGED <<plan, stage, stack, order, verdict>>
          /\ sorted' = [sorted EXCEPT ![Top] = Append(@, x)]
      BY <1>3 DEF PopNode
    <2>2. /\ Shape /\ Frames /\ Written /\ Kahn(plan, Top, sorted[Top], queue, in_degree)
          /\ \A i \in 1..(Len(stack) - 1) : stack[i] # Top
      BY <2>1 DEF SortInv, Frames
    <2>3. /\ Top \in 0..Len(plan) /\ Len(stack) \in Nat \ {0}
          /\ \A i \in 1..Len(stack) : stack[i] \in 0..Len(plan)
      BY <2>2, EmptySeq, ElementOfSeq DEF Frames, Top
    <2>4. /\ sorted'[Top] = Append(sorted[Top], x)
          /\ \A s \in 0..Len(plan) : s # Top => sorted'[s] = sorted[s]
          /\ DOMAIN sorted' = 0..Len(plan)
      BY <2>1, <2>2, <2>3 DEF Shape
    <2>5. in_degree' = [b \in I |-> IF Edge(plan, Top, x, b) THEN in_degree[b] - 1 ELSE in_degree[b]]
      BY <1>3 DEF PopNode
    <2>6. PICK new \in Ascending({b \in I : Edge(plan, Top, x, b) /\ in_degree[b] = 1}) :
             queue' = Tail(queue) \o new
      <3>1. {b \in {c \in I : Edge(plan, Top, x, c)} : in_degree[b] = 1}
               = {b \in I : Edge(plan, Top, x, b) /\ in_degree[b] = 1}
        OBVIOUS
      <3> QED
        BY <1>3, <3>1 DEF PopNode
    <2>7. Kahn(plan, Top, sorted'[Top], queue', in_degree')
      BY <2>1, <2>2, <2>4, <2>5, <2>6, MembersFinite, KahnStep
    <2>8. Top' = Top /\ Shape'
      BY <2>1, <2>2, <2>4 DEF Top, Shape
    <2>9. Kahn(plan, Top, sorted[Top], queue, in_degree)'
      BY <2>1, <2>7, <2>8
    <2>10. Written'
      BY <2>1, <2>2 DEF Written
    <2>11. \A i \in 1..(Len(stack) - 1) : sorted'[stack[i]] = sorted[stack[i]]
      BY <2>2, <2>3, <2>4
    <2>12. Frames'
      BY <2>1, <2>2, <2>8, <2>9, <2>11 DEF Frames
    <2> QED
      BY <2>1, <2>2, <2>8, <2>10, <2>12 DEF SortInv, Frames
  <1>4. CASE SortFails
    <2>1. /\ stage = "sort" /\ Shape /\ Kahn(plan, Top, sorted[Top], queue, in_degree) /\ queue = <<>>
      BY <1>4 DEF SortFails, SortInv, Frames
    <2>2. PostSortError(plan, Top, sorted[Top]) = "cycle" => Unsortable(plan, Top)
      BY <2>1, MembersFinite, KahnDone DEF PostSortError
    <2> QED
      BY <1>4, <2>1, <2>2, RaiseKeeps DEF SortFails
  <1>5. CASE SortEnds
    <2>1. /\ stage = "sort" /\ Shape /\ Frames /\ Written
          /\ Kahn(plan, Top, sorted[Top], queue, in_degree) /\ queue = <<>>
          /\ stage' = "nested"
          /\ UNCHANGED <<plan, stack, in_degree, queue, sorted, order, verdict>>
      BY <1>5 DEF SortEnds, SortInv, Frames
    <2>2. Len(sorted[Top]) = Cardinality(MembersOf(plan, Top))
      BY <1>5 DEF SortEnds, PostSortError
    <2>3. Topological(plan, Top, sorted[Top])
      BY <2>1, <2>2, MembersFinite, KahnDone
    <2>4. Top' = Top /\ Shape' /\ Written'
      BY <2>1 DEF Top, Shape, Written
    <2>5. Frames'
      BY <2>1, <2>3, <2>4 DEF Frames
    <2> QED
      BY <2>1, <2>4, <2>5 DEF SortInv, Frames
  <1>6. CASE EnterSubplan
    <2>1. /\ stage = "nested" /\ stage' = "check"
          /\ UNCHANGED <<plan, in_degree, queue, sorted, order, verdict>>
      BY <1>6 DEF EnterSubplan
    <2>2. PICK k \in Unchecked : stack' = Append(stack, k)
      BY <1>6 DEF EnterSubplan
    <2>3. Shape /\ Frames /\ Written
      BY <2>1 DEF SortInv
    <2>4. k \in 0..Len(plan) /\ sorted[k] = <<>> /\ MembersOf(plan, k) # {}
      BY <2>3 DEF Unchecked, HoldersIn, MembersOf, Shape
    <2>5. ~Topological(plan, k, sorted[k])
      <3>1. Cardinality(MembersOf(plan, k)) # 0 /\ Len(<<>>) = 0
        BY <2>3, <2>4, MembersFinite, FS_EmptySet
      <3> QED
        BY <2>4, <3>1 DEF Topological
    <2>6. /\ stack' \in Seq(0..Len(plan)) /\ stack' # <<>> /\ Len(stack') = Len(stack) + 1
          /\ Len(stack) \in Nat /\ Top' = k /\ \A i \in 1..Len(stack) : stack'[i] = stack[i]
      BY <2>2, <2>3, <2>4, AppendProperties, LenProperties DEF Frames, Top
    <2>7. \A i \in 1..Len(stack) : Topological(plan, stack[i], sorted[stack[i]])
      <3> SUFFICES ASSUME NEW i \in 1..Len(stack)
                   PROVE  Topological(plan, stack[i], sorted[stack[i]])
        OBVIOUS
      <3>1. CASE i = Len(stack)
        BY <3>1, <2>1, <2>3 DEF Frames, Top
      <3>2. CASE i \in 1..(Len(stack) - 1)
        BY <3>2, <2>3 DEF Frames
      <3>3. i = Len(stack) \/ i \in 1..(Len(stack) - 1)
        BY <2>6, IntervalEnd
      <3> QED
        BY <3>1, <3>2, <3>3
    <2>8. \A i \in 1..(Len(stack') - 1) : stack'[i] # k /\ Topological(plan, stack'[i], sorted[stack'[i]])
      BY <2>5, <2>6, <2>7
    <2>9. Shape' /\ Written'
      BY <2>1, <2>3 DEF Shape, Written
    <2>10. Frames'
      BY <2>1, <2>3, <2>4, <2>6, <2>8 DEF Frames
    <2> QED
      BY <2>1, <2>3, <2>9, <2>10 DEF SortInv, Frames
  <1>7. CASE WriteOrder
    <2> DEFINE n == Len(stack) - 1
    <2>1. /\ stage = "nested" /\ UNCHANGED <<plan, in_degree, queue, sorted>>
          /\ order' = [order EXCEPT ![Top] = sorted[Top]]
          /\ stack' = SubSeq(stack, 1, n)
          /\ IF Len(stack) = 1 THEN stage' = "done" /\ verdict' = "valid"
                               ELSE stage' = "nested" /\ verdict' = verdict
      BY <1>7 DEF WriteOrder
    <2>2. Shape /\ Frames /\ Written /\ Topological(plan, Top, sorted[Top]) /\ verdict = "none"
      BY <2>1 DEF SortInv, Frames
    <2>3. /\ Top \in 0..Len(plan) /\ Len(stack) \in Nat \ {0}
          /\ \A i \in 1..Len(stack) : stack[i] \in 0..Len(plan)
      BY <2>2, EmptySeq, ElementOfSeq DEF Frames, Top
    <2>4. Shape'
      BY <2>1, <2>2 DEF Shape
    <2>5. Written'
      BY <2>1, <2>2, <2>3 DEF Written, Shape
    <2>6. CASE Len(stack) = 1
      BY <2>1, <2>2, <2>4, <2>5, <2>6 DEF SortInv
    <2>7. CASE Len(stack) # 1
      <3>1. /\ stack' \in Seq(0..Len(plan)) /\ Len(stack') = n /\ n \in Nat \ {0}
            /\ \A i \in 1..n : stack'[i] = stack[i]
        <4>1. n \in Nat \ {0} /\ 1 \in Int /\ n \in Int /\ \A i \in 1..n : stack[i] \in 0..Len(plan)
          BY <2>3, <2>7
        <4> HIDE DEF n
        <4>2. /\ SubSeq(stack, 1, n) \in Seq(0..Len(plan))
              /\ Len(SubSeq(stack, 1, n)) = n
          BY <4>1, SubSeqProperties
        <4>3. \A i \in 1..n : SubSeq(stack, 1, n)[i] = stack[i]
          BY <4>1, SubSeqProperties
        <4> QED
          BY <2>1, <4>1, <4>2, <4>3 DEF n
      <3>2. Top' = stack[n] /\ n \in 1..(Len(stack) - 1) /\ stack' # <<>>
        BY <3>1, EmptySeq DEF Top
      <3>3. \A i \in 1..(Len(stack) - 1) : Topological(plan, stack[i], sorted[stack[i]])
        BY <2>2 DEF Frames
      <3>4. \A i \in 1..(Len(stack') - 1) : Topological(plan, stack'[i], sorted[stack'[i]])
        BY <3>1, <3>3
      <3>5. Topological(plan, Top', sorted[Top'])
        BY <3>2, <3>3
      <3>6. stage' = "nested" /\ verdict' = "none"
        BY <2>1, <2>2, <2>7
      <3>7. Frames'
        BY <2>1, <3>1, <3>2, <3>4, <3>5, <3>6 DEF Frames
      <3> QED
        BY <2>4, <2>5, <3>6, <3>7 DEF SortInv
    <2> QED
      BY <2>6, <2>7
  <1> QED
    BY <1>1, <1>2, <1>3, <1>4, <1>5, <1>6, <1>7 DEF ValidatorNext

\* What the repair makes of a payload: its nodes, and one more in every plan it completes.
LEMMA RepairedNodes ==
    ASSUME NEW p \in Payloads, NEW r \in Repaired(p)
    PROVE  /\ \E S : r \in Seq(S)
           /\ Len(p) \in Nat /\ DOMAIN p = 1..Len(p) /\ DOMAIN p \subseteq DOMAIN r
           /\ \A k \in DOMAIN p : r[k] = p[k]
           /\ \A k \in DOMAIN r \ DOMAIN p :
                 k > Len(p) /\ \E s \in Incomplete(p) : r[k] = ResultNode(p, s)
           /\ \A s \in Incomplete(p) : \E c \in DOMAIN r \ DOMAIN p :
                 /\ r[c] = ResultNode(p, s)
                 /\ \A k \in DOMAIN r \ DOMAIN p : r[k] = ResultNode(p, s) => k = c
  <1> DEFINE n == Len(p)
             m == Cardinality(Incomplete(p))
  <1>1. p \in Seq(NodeShape) /\ n \in Nat /\ DOMAIN p = 1..n
    BY PlanningAssumption, LenProperties
  <1>2. IsFiniteSet(Incomplete(p)) /\ m \in Nat
    <2>1. Incomplete(p) \in SUBSET (0..n) /\ IsFiniteSet(0..n)
      BY <1>1, FS_Interval DEF Incomplete, Outer
    <2> QED
      BY <2>1, FS_Subset, FS_CardinalityType
  <1>3. PICK q \in Ascending(Incomplete(p)) : r = p \o [i \in 1..m |-> ResultNode(p, q[i])]
    BY DEF Repaired
  <1> DEFINE added == [i \in 1..m |-> ResultNode(p, q[i])]
             S == NodeShape \cup {ResultNode(p, q[i]) : i \in 1..m}
  <1> HIDE DEF n, m
  <1>4. q \in [1..m -> Incomplete(p)] /\ Elems(q) = Incomplete(p) /\ Once(q) /\ Len(q) = m
    <2>1. q \in [1..m -> Incomplete(p)]
      BY DEF Ascending, m
    <2>2. q \in Seq(Incomplete(p)) /\ Elems(q) = Incomplete(p) /\ Once(q)
      BY <1>2, AscendingFacts
    <2>3. Len(q) \in Nat /\ DOMAIN q = 1..Len(q) /\ DOMAIN q = 1..m
      BY <2>1, <2>2, LenProperties
    <2>4. Len(q) = m
      BY <2>3, <1>2, IntervalLength
    <2> QED
      BY <2>1, <2>2, <2>4
  <1>5. added \in Seq(S) /\ Len(added) = m /\ \A i \in 1..m : added[i] = ResultNode(p, q[i])
    <2>1. added \in [1..m -> S] /\ DOMAIN added = 1..m
      OBVIOUS
    <2>2. added \in Seq(S)
      BY <1>2, <2>1, SeqDef
    <2>3. Len(added) \in Nat /\ DOMAIN added = 1..Len(added)
      BY <2>2, LenProperties
    <2>4. Len(added) = m
      BY <2>1, <2>3, <1>2, IntervalLength
    <2> QED
      BY <2>2, <2>4
  <1>6. p \in Seq(S)
    BY <1>1, SeqMonotonic
  <1>7. r = p \o added
    BY <1>3
  <1> HIDE DEF added, S
  <1>8. /\ r \in Seq(S) /\ Len(r) = n + m
        /\ \A i \in 1..(n + m) : r[i] = IF i <= n THEN p[i] ELSE added[i - n]
    BY <1>5, <1>6, <1>7, ConcatProperties DEF n
  <1>9. DOMAIN r = 1..(n + m)
    BY <1>8, LenProperties
  <1>10. DOMAIN p \subseteq DOMAIN r /\ \A k \in DOMAIN p : r[k] = p[k]
    <2>1. \A k \in 1..n : k \in 1..(n + m) /\ k <= n
      BY <1>1, <1>2
    <2> QED
      BY <1>1, <1>8, <1>9, <2>1
  <1>11. ASSUME NEW k \in DOMAIN r \ DOMAIN p
         PROVE  k > n /\ k - n \in 1..m /\ r[k] = ResultNode(p, q[k - n])
    <2>1. k \in 1..(n + m) /\ k \notin 1..n
      BY <1>1, <1>9
    <2>2. k > n /\ k - n \in 1..m
      BY <1>1, <1>2, <2>1
    <2> QED
      BY <1>1, <1>5, <1>8, <2>1, <2>2
  <1>12. ASSUME NEW s \in Incomplete(p)
         PROVE  \E c \in DOMAIN r \ DOMAIN p :
                   /\ r[c] = ResultNode(p, s)
                   /\ \A k \in DOMAIN r \ DOMAIN p : r[k] = ResultNode(p, s) => k = c
    <2>1. PICK i \in 1..m : q[i] = s
      BY <1>4 DEF Elems
    <2>2. n + i \in DOMAIN r \ DOMAIN p /\ (n + i) - n = i
      BY <1>1, <1>2, <1>9
    <2>3. r[n + i] = ResultNode(p, s)
      BY <1>11, <2>1, <2>2
    <2>4. ASSUME NEW k \in DOMAIN r \ DOMAIN p, r[k] = ResultNode(p, s) PROVE k = n + i
      <3>1. k - n \in 1..m /\ r[k] = ResultNode(p, q[k - n]) /\ k \in 1..(n + m)
        BY <1>9, <1>11
      <3>2. ResultNode(p, q[k - n]).scope = q[k - n] /\ ResultNode(p, s).scope = s
        BY DEF ResultNode
      <3>3. q[k - n] = q[i]
        BY <2>1, <2>4, <3>1, <3>2
      <3>4. k - n = i
        BY <1>4, <3>1, <3>3 DEF Once
      <3> QED
        BY <3>1, <3>4, <1>1, <1>2
    <2> QED
      BY <2>2, <2>3, <2>4
  <1> QED
    BY <1>1, <1>4, <1>8, <1>10, <1>11, <1>12 DEF n

LEMMA SortInit == Init => SortInv
  BY DEF Init, ValidatorInit, SortInv, Written

LEMMA SortStep == SortInv /\ [Next]_vars => SortInv'
  <1> SUFFICES ASSUME SortInv, [Next]_vars PROVE SortInv'
    OBVIOUS
  <1>1. CASE Run \/ Revise \/ PlanInvalid \/ PlanSuspicious
    BY <1>1, DiscardKeeps DEF Run, Revise, StartPlanning, PlanInvalid, PlanSuspicious
  <1>2. ASSUME NEW p \in Payloads, PlannerAnswers(p) PROVE SortInv'
    <2>1. PICK r \in Repaired(p) : Call(r)
      BY <1>2 DEF PlannerAnswers
    <2>2. PICK S : r \in Seq(S)
      BY RepairedNodes
    <2> QED
      BY <2>1, <2>2, CallKeeps
  <1>3. CASE Validate
    BY <1>3, ValidatorKeeps DEF Validate
  <1>4. CASE UNCHANGED validator
    BY <1>4 DEF validator, SortInv, Shape, Frames, Written, Top
  <1>5. ASSUME NEW answer \in Answers, PlannerFails(answer) PROVE UNCHANGED validator
    BY <1>5 DEF PlannerFails
  <1>6. PlannerRaisesValueError \/ PlannerRaises \/ Cancel \/ PlanReady \/ UNCHANGED vars
           => UNCHANGED validator
    BY DEF PlannerRaisesValueError, PlannerRaises, Cancel, PlanReady, vars, validator
  <1> QED
    BY <1>1, <1>2, <1>3, <1>4, <1>5, <1>6 DEF Next, Loop

\* Kahn's loop is exact for every plan the planner may produce, of whatever
\* size and nesting, with ids repeated and edges of both kinds (topo_sort).
THEOREM SortExactHolds == Spec => []SortExact
  BY SortInit, SortStep, SortInvImplies, PTL DEF Spec

-----------------------------------------------------------------------------
(* The repair, for one payload.                                            *)

LEMMA LeastOf ==
    ASSUME NEW T, T \subseteq Nat, T # {}
    PROVE  \E x \in T : \A y \in T : x <= y
  <1> DEFINE R == OpToRel(<, Nat)
  <1>1. IsWellFoundedOn(R, Nat)
    BY NatLessThanWellFounded, Zenon
  <1>2. \A x, y \in Nat : y < x => <<y, x>> \in R
    BY DEF OpToRel
  <1> HIDE DEF R
  <1>3. PICK x \in T : \A y \in T : ~ (<<y, x>> \in R)
    BY <1>1, WFMin
  <1>4. ASSUME NEW y \in T PROVE x <= y
    <2>1. ~ (y < x)
      BY <1>2, <1>3
    <2> QED
      BY <2>1
  <1> QED
    BY <1>4

\* A finite set of numbers that is not empty has a greatest element: the smallest
\* set without one would still be without one when an element is taken away.
LEMMA GreatestExists ==
    ASSUME NEW S \in SUBSET Nat, IsFiniteSet(S), S # {}
    PROVE  \E i \in S : \A j \in S : j <= i
  <1> DEFINE Bad(J) == IsFiniteSet(J) /\ J # {} /\ ~\E i \in J : \A j \in J : j <= i
             T == {c \in Nat : \E J \in SUBSET Nat : Bad(J) /\ Cardinality(J) = c}
  <1> SUFFICES ASSUME Bad(S) PROVE FALSE
    OBVIOUS
  <1>1. T \subseteq Nat /\ T # {}
    BY FS_CardinalityType
  <1>2. PICK c \in T : \A d \in T : c <= d
    <2> HIDE DEF T
    <2> QED
      BY <1>1, LeastOf
  <1>3. PICK J \in SUBSET Nat : Bad(J) /\ Cardinality(J) = c
    OBVIOUS
  <1>4. PICK x : x \in J
    BY <1>3
  <1>5. IsFiniteSet(J \ {x}) /\ Cardinality(J \ {x}) = c - 1 /\ c \in Nat
    BY <1>3, <1>4, FS_RemoveElement
  <1>6. Cardinality(J \ {x}) \in Nat
    BY <1>5, FS_CardinalityType
  <1>7. ~Bad(J \ {x})
    <2>1. Bad(J \ {x}) => c - 1 \in T
      BY <1>5, <1>6
    <2>2. ~(c <= c - 1)
      BY <1>5
    <2> QED
      BY <1>2, <2>1, <2>2
  <1>8. CASE J \ {x} = {}
    <2>1. \A j \in J : j = x
      BY <1>8
    <2> QED
      BY <1>3, <1>4, <2>1
  <1>9. CASE J \ {x} # {}
    <2>1. PICK y \in J \ {x} : \A j \in J \ {x} : j <= y
      BY <1>5, <1>7, <1>9
    <2>2. x \in Nat /\ y \in Nat /\ \A j \in J : j \in Nat /\ (j = x \/ j <= y)
      BY <1>4, <2>1
    <2>3. CASE x <= y
      <3>1. \A j \in J : j <= y
        BY <2>2, <2>3
      <3> QED
        BY <1>3, <2>1, <3>1
    <2>4. CASE y <= x
      <3>1. \A j \in J : j <= x
        BY <2>2, <2>4
      <3> QED
        BY <1>3, <1>4, <3>1
    <2> QED
      BY <2>2, <2>3, <2>4
  <1> QED
    BY <1>8, <1>9

\* The plans of a payload, nested ones named by the node that holds them.
PlansIn(p) == {Outer} \cup {k \in DOMAIN p : p[k].subplan}

\* The checks of one plan.
Passes(p, s) ==
    /\ PreSortError(p, s) = "none"
    /\ RefsExist(p, s)
    /\ ~Unsortable(p, s)
    /\ ~NestsTooDeep(p, s)
    /\ Cardinality(HoldersIn(p, s)) <= MaxSubplansPerPlan

LEMMA AcceptablePasses ==
    ASSUME NEW p
    PROVE  Acceptable(p) <=> \A s \in PlansIn(p) : Passes(p, s)
  BY DEF Acceptable, PlansIn, Passes

\* Every node of S waits for one of S.
Waiting(p, s, S) ==
    \A b \in S : \E k \in MembersOf(p, s) :
        \/ p[k].id = b /\ p[k].context_needed \cap S # {}
        \/ p[k].type = "decision" /\ p[k].id \in S
              /\ b \in p[k].branches["yes"] \cup p[k].branches["no"]

LEMMA UnsortableIsWaiting ==
    ASSUME NEW p, NEW s
    PROVE  Unsortable(p, s) <=>
              \/ \E j, k \in MembersOf(p, s) : j # k /\ p[j].id = p[k].id
              \/ \E S \in (SUBSET IdsOf(p, s)) \ {{}} : Waiting(p, s, S)
  BY Zenon DEF Unsortable, Waiting

DecisionsOf(p, s) == {k \in MembersOf(p, s) : p[k].type = "decision"}

LEMMA SameDecisionsNest ==
    ASSUME NEW p, NEW r, NEW s, DecisionsOf(r, s) = DecisionsOf(p, s),
           \A k \in DecisionsOf(p, s) : r[k] = p[k], NestsTooDeep(r, s)
    PROVE  NestsTooDeep(p, s)
  <1> DEFINE D == DecisionsOf(p, s)
             N == 1..(MaxDecisionNesting + 1)
  <1>1. PICK c \in [N -> D] : \A i \in 1..MaxDecisionNesting : r[c[i + 1]].id \in BranchIds(r[c[i]])
    BY DEF NestsTooDeep, DecisionsOf
  <1>2. \A i \in 1..MaxDecisionNesting : i \in N /\ i + 1 \in N
    BY LimitsAssumption
  <1>3. \A i \in N : r[c[i]] = p[c[i]]
    BY <1>1
  <1>4. \A i \in 1..MaxDecisionNesting : p[c[i + 1]].id \in BranchIds(p[c[i]])
    <2> HIDE DEF N
    <2> QED
      BY <1>1, <1>2, <1>3
  <1> QED
    BY <1>1, <1>4 DEF NestsTooDeep, DecisionsOf

\* The checks of a plan read its own nodes only.
LEMMA SameNodesPass ==
    ASSUME NEW p, NEW r, NEW s, MembersOf(r, s) = MembersOf(p, s),
           \A k \in MembersOf(p, s) : r[k] = p[k], Passes(p, s)
    PROVE  Passes(r, s)
  <1> DEFINE M == MembersOf(p, s)
  <1>1. MembersOf(r, s) = M /\ \A k \in M : r[k] = p[k]
    OBVIOUS
  <1> HIDE DEF M
  <1>2. IdsOf(r, s) = IdsOf(p, s)
    BY <1>1 DEF IdsOf, M
  <1>3. HoldersIn(r, s) = HoldersIn(p, s)
    BY <1>1 DEF HoldersIn, M
  <1>4. PreSortError(r, s) = PreSortError(p, s)
    <2>1. WithinLimit(r, s) = WithinLimit(p, s)
      BY DEF WithinLimit
    <2>2. ContractsKept(r, s) <=> ContractsKept(p, s)
      BY <1>1 DEF ContractsKept, M
    <2>3. ToolsKnown(r, s) <=> ToolsKnown(p, s)
      BY <1>1 DEF ToolsKnown, M
    <2>4. TiersInRange(r, s) <=> TiersInRange(p, s)
      BY <1>1 DEF TiersInRange, M
    <2> QED
      BY <2>1, <2>2, <2>3, <2>4 DEF PreSortError
  <1>5. RefsExist(r, s) <=> RefsExist(p, s)
    BY <1>1, <1>2 DEF RefsExist, M
  <1>6. Unsortable(r, s) => Unsortable(p, s)
    <2>1. CASE \E j, k \in MembersOf(r, s) : j # k /\ r[j].id = r[k].id
      BY <1>1, <2>1 DEF Unsortable, M
    <2>2. ASSUME NEW S \in (SUBSET IdsOf(r, s)) \ {{}}, Waiting(r, s, S)
          PROVE  Unsortable(p, s)
      <3>1. Waiting(p, s, S)
        BY <1>1, <2>2 DEF Waiting, M
      <3> QED
        BY <1>2, <3>1, UnsortableIsWaiting
    <2> QED
      BY <2>1, <2>2, UnsortableIsWaiting
  <1>7. NestsTooDeep(r, s) => NestsTooDeep(p, s)
    <2>1. DecisionsOf(r, s) = DecisionsOf(p, s) /\ \A k \in DecisionsOf(p, s) : r[k] = p[k]
      BY <1>1 DEF DecisionsOf, M
    <2> QED
      BY <2>1, SameDecisionsNest
  <1> QED
    BY <1>3, <1>4, <1>5, <1>6, <1>7 DEF Passes

\* The new node: its id is above all others, and it refers to the plan's own nodes.
LEMMA ResultNodeIsNew ==
    ASSUME NEW p \in Payloads, NEW s \in Incomplete(p)
    PROVE  /\ ResultNode(p, s).id \notin IdsOf(p, s)
           /\ ResultNode(p, s).context_needed \subseteq IdsOf(p, s)
  <1> DEFINE I == IdsOf(p, s)
             C == TerminalSyntheses(p, s)
  <1>1. p \in Seq(NodeShape) /\ Len(p) \in Nat /\ DOMAIN p = 1..Len(p)
    BY PlanningAssumption, LenProperties
  <1>2. MembersOf(p, s) \in SUBSET (1..Len(p)) /\ IsFiniteSet(1..Len(p))
    BY <1>1, FS_Interval DEF MembersOf
  <1>3. IsFiniteSet(MembersOf(p, s)) /\ IsFiniteSet(I)
    BY <1>2, FS_Subset, IdsFinite
  <1>4. \A k \in MembersOf(p, s) : p[k] \in NodeShape
    BY <1>1, <1>2, ElementOfSeq
  <1>5. I \in SUBSET Nat
    BY <1>4 DEF IdsOf, NodeShape
  <1>6. C \subseteq MembersOf(p, s) /\ Cardinality(C) = 1
    BY DEF Incomplete, TerminalSyntheses
  <1>7. C # {}
    BY <1>6, FS_EmptySet
  <1>8. I # {} /\ {p[k].id : k \in C} \subseteq I
    BY <1>6, <1>7 DEF IdsOf
  <1>9. PICK i \in I : \A j \in I : j <= i
    BY <1>3, <1>5, <1>8, GreatestExists
  <1> DEFINE g == CHOOSE h \in I : \A j \in I : j <= h
  <1>10. g \in I /\ \A j \in I : j <= g
    BY <1>9
  <1>11. NextId(p, s) = 1 + g
    BY DEF NextId
  <1> HIDE DEF g, I
  <1>12. 1 + g \notin I
    <2>1. g \in Nat /\ ~(1 + g <= g)
      BY <1>5, <1>10
    <2> QED
      BY <1>10, <2>1
  <1>13. /\ ResultNode(p, s).id = 1 + g
         /\ ResultNode(p, s).context_needed = {p[k].id : k \in C}
    BY <1>11 DEF ResultNode
  <1> QED
    BY <1>8, <1>12, <1>13 DEF I

\* A plan that passes still does with the new node, when there is room for it.
LEMMA ResultNodePasses ==
    ASSUME NEW p \in Payloads, NEW s \in Incomplete(p), Passes(p, s),
           NEW r, NEW c, c \notin MembersOf(p, s),
           MembersOf(r, s) = MembersOf(p, s) \cup {c},
           \A k \in MembersOf(p, s) : r[k] = p[k],
           r[c] = ResultNode(p, s),
           Cardinality(MembersOf(p, s)) # IF s = Outer THEN MaxPlanNodes ELSE MaxSubplanNodes
    PROVE  Passes(r, s)
  <1> DEFINE M == MembersOf(p, s)
             I == IdsOf(p, s)
             x == r[c].id
  <1>1. MembersOf(r, s) = M \cup {c} /\ (\A k \in M : r[k] = p[k]) /\ c \notin M
    OBVIOUS
  <1>2. /\ x \notin I /\ r[c].type = "result" /\ r[c].context_needed \subseteq I
        /\ r[c].tool = "none" /\ r[c].decision = "none" /\ r[c].forced_tier = "none" /\ r[c].subplan = FALSE
    <2> DEFINE y == ResultNode(p, s)
    <2>1. y.id \notin I /\ y.context_needed \subseteq I
      BY ResultNodeIsNew
    <2>2. /\ y.type = "result" /\ y.tool = "none" /\ y.decision = "none"
          /\ y.forced_tier = "none" /\ y.subplan = FALSE
      BY DEF ResultNode
    <2> HIDE DEF y
    <2>3. r[c] = y
      BY DEF y
    <2> QED
      BY <2>1, <2>2, <2>3
  <1>3. IsFiniteSet(M) /\ Cardinality(M) \in Nat
    <2>1. Len(p) \in Nat /\ DOMAIN p = 1..Len(p)
      BY PlanningAssumption, LenProperties
    <2>2. M \in SUBSET (1..Len(p)) /\ IsFiniteSet(1..Len(p))
      BY <2>1, FS_Interval DEF MembersOf
    <2> QED
      BY <2>2, FS_Subset, FS_CardinalityType
  <1>4. IdsOf(r, s) = I \cup {x}
    BY <1>1 DEF IdsOf
  <1>5. /\ WithinLimit(p, s) /\ ContractsKept(p, s) /\ ToolsKnown(p, s) /\ TiersInRange(p, s)
        /\ RefsExist(p, s) /\ ~Unsortable(p, s) /\ ~NestsTooDeep(p, s)
        /\ Cardinality(HoldersIn(p, s)) <= MaxSubplansPerPlan
    BY DEF Passes, PreSortError
  <1>6. WithinLimit(r, s)
    <2>1. Cardinality(M \cup {c}) = Cardinality(M) + 1
      BY <1>1, <1>3, FS_AddElement
    <2> QED
      BY <1>1, <1>3, <1>5, <2>1, LimitsAssumption DEF WithinLimit
  <1> HIDE DEF M, I, x
  <1>7. ContractsKept(r, s) /\ ToolsKnown(r, s) /\ TiersInRange(r, s)
    <2>1. ContractsKept(r, s)
      BY <1>1, <1>2, <1>5 DEF ContractsKept, M
    <2>2. ToolsKnown(r, s)
      BY <1>1, <1>2, <1>5 DEF ToolsKnown, M
    <2>3. TiersInRange(r, s)
      BY <1>1, <1>2, <1>5 DEF TiersInRange, M
    <2> QED
      BY <2>1, <2>2, <2>3
  <1>8. RefsExist(r, s)
    <2>1. BranchIds(r[c]) = {}
      BY <1>2 DEF BranchIds
    <2> QED
      BY <1>1, <1>2, <1>4, <1>5, <2>1 DEF RefsExist, M, I
  <1>9. ~Unsortable(r, s)
    <2>1. \A j, k \in MembersOf(r, s) : r[j].id = r[k].id => j = k
      <3>1. \A j, k \in M : p[j].id = p[k].id => j = k
        BY <1>5, UnsortableIsWaiting DEF M
      <3>2. \A k \in M : p[k].id \in I
        BY DEF M, I, IdsOf
      <3> QED
        BY <1>1, <1>2, <3>1, <3>2 DEF x
    <2>2. ASSUME NEW S \in (SUBSET IdsOf(r, s)) \ {{}}, Waiting(r, s, S) PROVE FALSE
      <3> DEFINE S2 == S \ {x}
      <3>1. ASSUME NEW b \in S
            PROVE  \/ b = x /\ S2 # {}
                   \/ \E k \in M : \/ p[k].id = b /\ p[k].context_needed \cap S2 # {}
                                   \/ p[k].type = "decision" /\ p[k].id \in S2
                                         /\ b \in p[k].branches["yes"] \cup p[k].branches["no"]
        <4>1. PICK k \in M \cup {c} :
                 \/ r[k].id = b /\ r[k].context_needed \cap S # {}
                 \/ r[k].type = "decision" /\ r[k].id \in S
                       /\ b \in r[k].branches["yes"] \cup r[k].branches["no"]
          BY <2>2, <1>1 DEF Waiting
        <4>2. CASE k = c
          <5>1. r[c].id = b /\ r[c].context_needed \cap S # {}
            BY <4>1, <4>2, <1>2
          <5>2. b = x /\ r[c].context_needed \cap S2 # {}
            BY <5>1, <1>2 DEF x
          <5> QED
            BY <5>2
        <4>3. CASE k \in M
          <5>1. r[k] = p[k] /\ p[k].id \in I /\ p[k].context_needed \subseteq I
            BY <4>3, <1>1, <1>5 DEF M, I, IdsOf, RefsExist
          <5>2. p[k].id # x /\ p[k].context_needed \cap S = p[k].context_needed \cap S2
            BY <5>1, <1>2
          <5> QED
            BY <4>1, <4>3, <5>1, <5>2
        <4> QED
          BY <4>2, <4>3
      <3>2. S2 # {}
        <4>1. PICK b \in S : TRUE
          OBVIOUS
        <4>2. CASE b = x /\ S2 # {}
          BY <4>2
        <4>3. CASE \E k \in M : \/ p[k].id = b /\ p[k].context_needed \cap S2 # {}
                                \/ p[k].type = "decision" /\ p[k].id \in S2
                                      /\ b \in p[k].branches["yes"] \cup p[k].branches["no"]
          BY <4>3
        <4> QED
          BY <3>1, <4>2, <4>3
      <3>3. S2 \in (SUBSET I) \ {{}}
        BY <1>4, <3>2
      <3>4. \A b \in S2 : b \in S /\ b # x
        OBVIOUS
      <3> HIDE DEF S2
      <3>5. Waiting(p, s, S2)
        BY <3>1, <3>4 DEF Waiting, M
      <3> QED
        BY <1>5, <3>3, <3>5, UnsortableIsWaiting DEF I
    <2> QED
      BY <2>1, <2>2, UnsortableIsWaiting
  <1>10. ~NestsTooDeep(r, s)
    <2>1. DecisionsOf(r, s) = DecisionsOf(p, s) /\ \A k \in DecisionsOf(p, s) : r[k] = p[k]
      BY <1>1, <1>2 DEF DecisionsOf, M
    <2> QED
      BY <1>5, <2>1, SameDecisionsNest
  <1>11. HoldersIn(r, s) = HoldersIn(p, s)
    BY <1>1, <1>2 DEF HoldersIn, M
  <1> QED
    BY <1>5, <1>6, <1>7, <1>8, <1>9, <1>10, <1>11 DEF Passes, PreSortError

\* The repair adds no nested plan, and keeps nested plans on nodes that hold them.
LEMMA RepairedPlans ==
    ASSUME NEW p \in Payloads, NEW r \in Repaired(p)
    PROVE  /\ PlansIn(r) = PlansIn(p)
           /\ \A k \in DOMAIN r : r[k].scope \in PlansIn(r)
  <1>1. \A k \in DOMAIN r \ DOMAIN p : r[k].subplan = FALSE /\ r[k].scope \in Incomplete(p)
    <2> SUFFICES ASSUME NEW k \in DOMAIN r \ DOMAIN p
                 PROVE  r[k].subplan = FALSE /\ r[k].scope \in Incomplete(p)
      OBVIOUS
    <2>1. PICK s \in Incomplete(p) : r[k] = ResultNode(p, s)
      BY RepairedNodes
    <2>2. ResultNode(p, s).subplan = FALSE /\ ResultNode(p, s).scope = s
      BY DEF ResultNode
    <2> QED
      BY <2>1, <2>2
  <1>2. DOMAIN p \subseteq DOMAIN r /\ \A k \in DOMAIN p : r[k] = p[k]
    BY RepairedNodes
  <1>3. PlansIn(r) = PlansIn(p)
    BY <1>1, <1>2 DEF PlansIn
  <1>4. ASSUME NEW k \in DOMAIN p PROVE p[k].scope \in PlansIn(p)
    <2>1. p \in Seq(NodeShape) /\ WellNested(p) /\ Len(p) \in Nat /\ DOMAIN p = 1..Len(p)
      BY PlanningAssumption, LenProperties
    <2>2. p[k].scope \in Nat
      <3>1. p[k] \in NodeShape
        BY <2>1, ElementOfSeq
      <3> QED
        BY <3>1 DEF NodeShape
    <2>3. p[k].scope < k /\ (p[k].scope # Outer => p[p[k].scope].subplan)
      BY <2>1 DEF WellNested
    <2>4. p[k].scope # Outer => p[k].scope \in DOMAIN p
      BY <2>1, <2>2, <2>3 DEF Outer
    <2> QED
      BY <2>3, <2>4 DEF PlansIn
  <1>5. Incomplete(p) \subseteq PlansIn(p)
    BY DEF Incomplete, PlansIn
  <1> QED
    BY <1>1, <1>2, <1>3, <1>4, <1>5

\* The repair of one payload costs it nothing.
LEMMA RepairKeepsAcceptable ==
    ASSUME NEW p \in Payloads, NEW r \in Repaired(p), Acceptable(p),
           ~\E s \in Incomplete(p) :
               Cardinality(MembersOf(p, s)) = IF s = Outer THEN MaxPlanNodes ELSE MaxSubplanNodes
    PROVE  Acceptable(r)
  <1> SUFFICES ASSUME NEW s \in PlansIn(r) PROVE Passes(r, s)
    BY AcceptablePasses
  <1>1. Passes(p, s)
    BY AcceptablePasses, RepairedPlans
  <1>2. /\ DOMAIN p = 1..Len(p) /\ DOMAIN p \subseteq DOMAIN r
        /\ \A k \in DOMAIN p : r[k] = p[k]
        /\ \A k \in DOMAIN r \ DOMAIN p : \E t \in Incomplete(p) : r[k] = ResultNode(p, t)
        /\ \A t \in Incomplete(p) : \E c \in DOMAIN r \ DOMAIN p :
                 /\ r[c] = ResultNode(p, t)
                 /\ \A k \in DOMAIN r \ DOMAIN p : r[k] = ResultNode(p, t) => k = c
    BY RepairedNodes
  <1>3. \A t \in Incomplete(p) : ResultNode(p, t).scope = t
    BY DEF ResultNode
  <1>4. MembersOf(p, s) \subseteq DOMAIN p /\ \A k \in MembersOf(p, s) : r[k] = p[k]
    BY <1>2 DEF MembersOf
  <1>5. CASE s \in Incomplete(p)
    <2>1. PICK c \in DOMAIN r \ DOMAIN p :
             /\ r[c] = ResultNode(p, s)
             /\ \A k \in DOMAIN r \ DOMAIN p : r[k] = ResultNode(p, s) => k = c
      BY <1>2, <1>5
    <2>2. MembersOf(r, s) = MembersOf(p, s) \cup {c}
      <3>1. ASSUME NEW k \in DOMAIN r, r[k].scope = s PROVE k \in MembersOf(p, s) \cup {c}
        BY <1>2, <1>3, <2>1, <3>1 DEF MembersOf
      <3>2. c \in MembersOf(r, s)
        BY <1>3, <1>5, <2>1 DEF MembersOf
      <3>3. MembersOf(p, s) \subseteq MembersOf(r, s)
        BY <1>2 DEF MembersOf
      <3> QED
        BY <3>1, <3>2, <3>3 DEF MembersOf
    <2>3. c \notin MembersOf(p, s)
      BY <1>4, <2>1
    <2> QED
      BY <1>1, <1>4, <1>5, <2>1, <2>2, <2>3, ResultNodePasses
  <1>6. CASE s \notin Incomplete(p)
    <2>1. MembersOf(r, s) = MembersOf(p, s)
      BY <1>2, <1>3, <1>6 DEF MembersOf
    <2> QED
      BY <1>1, <1>4, <2>1, SameNodesPass
  <1> QED
    BY <1>5, <1>6

-----------------------------------------------------------------------------
(* The repair and the validator together.                                  *)

\* The plan under validation is the payload repaired, every frame is one of its
\* plans, and what ends in an error does not pass every check.
RepairInv ==
    /\ stage # "idle" => payload \in Payloads /\ plan \in Repaired(payload)
    /\ stage \in {"check", "sort", "nested"} =>
          \A i \in 1..Len(stack) : stack[i] \in PlansIn(plan)
    /\ stage = "done" /\ verdict # "valid" => ~Acceptable(plan)

LEMMA RepairInvImplies == RepairInv => RepairHarmless
  BY RepairKeepsAcceptable DEF RepairInv, RepairHarmless

\* An error is about a check that the plan on top fails.
LEMMA RaiseIsWarranted ==
    ASSUME SortInv, RepairInv, stage \in {"check", "sort"}, NEW error, Raise(error),
           UNCHANGED payload, ~Passes(plan, Top)
    PROVE  RepairInv'
  <1>1. stage' = "done" /\ UNCHANGED plan
    BY DEF Raise
  <1>2. Len(stack) \in 1..Len(stack)
    <2>1. stack \in Seq(0..Len(plan)) /\ stack # <<>>
      BY DEF SortInv, Frames
    <2>2. Len(stack) \in Nat /\ Len(stack) # 0
      BY <2>1, EmptySeq, LenProperties
    <2> QED
      BY <2>2
  <1>3. Top \in PlansIn(plan)
    BY <1>2 DEF RepairInv, Top
  <1>4. ~Acceptable(plan)
    BY <1>3, AcceptablePasses
  <1> QED
    BY <1>1, <1>4 DEF RepairInv

LEMMA ValidatorWarrants ==
    ASSUME SortInv, RepairInv, ValidatorNext, UNCHANGED payload
    PROVE  RepairInv'
  <1>1. CASE CheckFails
    <2>1. ~Passes(plan, Top)
      BY <1>1 DEF CheckFails, Passes
    <2> QED
      BY <1>1, <2>1, RaiseIsWarranted DEF CheckFails
  <1>2. CASE BuildGraph \/ PopNode \/ SortEnds
    <2>1. /\ stage \in {"check", "sort"} /\ stage' \in {"sort", "nested"} /\ UNCHANGED <<plan, stack, payload>>
      BY <1>2 DEF BuildGraph, PopNode, SortEnds
    <2> QED
      BY <2>1 DEF RepairInv
  <1>3. CASE SortFails
    <2>1. stage = "sort" /\ Shape /\ Kahn(plan, Top, sorted[Top], queue, in_degree) /\ queue = <<>>
      BY <1>3 DEF SortFails, SortInv, Frames
    <2>2. PostSortError(plan, Top, sorted[Top]) = "cycle" => Unsortable(plan, Top)
      BY <2>1, MembersFinite, KahnDone DEF PostSortError
    <2>3. PostSortError(plan, Top, sorted[Top]) \in {"cycle", "nesting", "subplan_limit"}
      BY <1>3 DEF SortFails, PostSortError
    <2>4. ~Passes(plan, Top)
      <3>1. PostSortError(plan, Top, sorted[Top]) = "nesting" => NestsTooDeep(plan, Top)
        BY DEF PostSortError
      <3>2. PostSortError(plan, Top, sorted[Top]) = "subplan_limit" =>
               Cardinality(HoldersIn(plan, Top)) > MaxSubplansPerPlan
        BY DEF PostSortError
      <3>3. Cardinality(HoldersIn(plan, Top)) \in Nat
        <4>1. HoldersIn(plan, Top) \in SUBSET MembersOf(plan, Top)
          BY DEF HoldersIn
        <4> QED
          BY <4>1, <2>1, MembersFinite, FS_Subset, FS_CardinalityType
      <3> QED
        BY <2>2, <2>3, <3>1, <3>2, <3>3, LimitsAssumption DEF Passes
    <2> QED
      BY <1>3, <2>4, RaiseIsWarranted DEF SortFails
  <1>4. CASE EnterSubplan
    <2>1. stage = "nested" /\ stage' = "check" /\ UNCHANGED <<plan, payload>>
      BY <1>4 DEF EnterSubplan
    <2>2. PICK k \in Unchecked : stack' = Append(stack, k)
      BY <1>4 DEF EnterSubplan
    <2>3. k \in PlansIn(plan)
      <3>1. payload \in Payloads /\ plan \in Repaired(payload)
        BY <2>1 DEF RepairInv
      <3>2. \A j \in DOMAIN plan : plan[j].scope \in PlansIn(plan)
        BY <3>1, RepairedPlans
      <3> QED
        BY <3>2 DEF Unchecked, MembersOf
    <2>4. Frames /\ \A i \in 1..Len(stack) : stack[i] \in PlansIn(plan)
      BY <2>1 DEF SortInv, RepairInv
    <2>5. stack \in Seq(0..Len(plan)) /\ k \in 0..Len(plan)
      BY <2>1, <2>4 DEF Frames, SortInv, Shape, Unchecked, HoldersIn, MembersOf
    <2>6. /\ Len(stack) \in Nat /\ Len(stack') = Len(stack) + 1
          /\ \A i \in 1..Len(stack) : stack'[i] = stack[i]
          /\ stack'[Len(stack) + 1] = k
      BY <2>2, <2>5, AppendProperties, LenProperties
    <2>7. \A i \in 1..Len(stack') : i \in 1..Len(stack) \/ i = Len(stack) + 1
      BY <2>6
    <2>8. \A i \in 1..Len(stack') : stack'[i] \in PlansIn(plan)
      BY <2>3, <2>4, <2>6, <2>7
    <2> QED
      BY <2>1, <2>8 DEF RepairInv
  <1>5. CASE WriteOrder
    <2> DEFINE n == Len(stack) - 1
    <2>1. /\ stage = "nested" /\ UNCHANGED <<plan, payload>> /\ stack' = SubSeq(stack, 1, n)
          /\ IF Len(stack) = 1 THEN stage' = "done" /\ verdict' = "valid"
                               ELSE stage' = "nested" /\ verdict' = verdict
      BY <1>5 DEF WriteOrder
    <2>2. CASE Len(stack) = 1
      BY <2>1, <2>2 DEF RepairInv
    <2>3. CASE Len(stack) # 1
      <3>1. stack \in Seq(0..Len(plan)) /\ Len(stack) \in Nat \ {0}
        BY <2>1, EmptySeq, LenProperties DEF SortInv, Frames
      <3>2. \A i \in 1..n : i \in 1..Len(stack)
        BY <3>1
      <3>3. n \in Nat \ {0} /\ 1 \in Int /\ n \in Int /\ \A i \in 1..n : stack[i] \in 0..Len(plan)
        BY <2>3, <3>1, <3>2, ElementOfSeq
      <3> HIDE DEF n
      <3>4. Len(stack') = n /\ \A i \in 1..n : stack'[i] = stack[i]
        BY <2>1, <3>3, SubSeqProperties
      <3>5. \A i \in 1..Len(stack) : stack[i] \in PlansIn(plan)
        BY <2>1 DEF RepairInv
      <3>6. stage' = "nested"
        BY <2>1, <2>3
      <3> QED
        BY <2>1, <3>2, <3>4, <3>5, <3>6 DEF RepairInv
    <2> QED
      BY <2>2, <2>3
  <1> QED
    BY <1>1, <1>2, <1>3, <1>4, <1>5 DEF ValidatorNext

LEMMA RepairInit == Init => RepairInv
  BY DEF Init, ValidatorInit, RepairInv

LEMMA RepairStep == SortInv /\ RepairInv /\ [Next]_vars => RepairInv'
  <1> SUFFICES ASSUME SortInv, RepairInv, [Next]_vars PROVE RepairInv'
    OBVIOUS
  <1>1. CASE Run \/ Revise \/ PlanInvalid \/ PlanSuspicious
    <2>1. stage' = "idle"
      BY <1>1 DEF Run, Revise, StartPlanning, PlanInvalid, PlanSuspicious, Discard
    <2> QED
      BY <2>1 DEF RepairInv
  <1>2. ASSUME NEW p \in Payloads, PlannerAnswers(p) PROVE RepairInv'
    <2>1. PICK r \in Repaired(p) : Call(r)
      BY <1>2 DEF PlannerAnswers
    <2>2. payload' = p /\ plan' = r /\ stage' = "check" /\ stack' = <<Outer>>
      BY <1>2, <2>1 DEF PlannerAnswers, Call
    <2>3. \A i \in 1..Len(<<Outer>>) : <<Outer>>[i] = Outer
      OBVIOUS
    <2>4. Outer \in PlansIn(r)
      BY DEF PlansIn
    <2> QED
      BY <2>2, <2>3, <2>4 DEF RepairInv
  <1>3. CASE Validate
    BY <1>3, ValidatorWarrants DEF Validate
  <1>4. CASE UNCHANGED <<validator, payload>>
    BY <1>4 DEF validator, RepairInv
  <1>5. ASSUME NEW answer \in Answers, PlannerFails(answer) PROVE UNCHANGED <<validator, payload>>
    BY <1>5 DEF PlannerFails
  <1>6. PlannerRaisesValueError \/ PlannerRaises \/ Cancel \/ PlanReady \/ UNCHANGED vars
           => UNCHANGED <<validator, payload>>
    BY DEF PlannerRaisesValueError, PlannerRaises, Cancel, PlanReady, vars, validator
  <1> QED
    BY <1>1, <1>2, <1>3, <1>4, <1>5, <1>6 DEF Next, Loop

\* The repair never costs a plan (_repair_plan_payload), for every payload: what the
\* validator would have accepted as it came it accepts repaired, unless the plan the
\* new node goes to is at its limit.
THEOREM RepairHarmlessHolds == Spec => []RepairHarmless
  BY SortInit, SortStep, RepairInit, RepairStep, RepairInvImplies, PTL DEF Spec

-----------------------------------------------------------------------------
(* Accepted plans are validated ones.                                      *)

\* A strict total order on the first n numbers is the order of some numbering: each
\* number gets the count of those before it.
LEMMA RankingExists ==
    ASSUME NEW n \in Nat, NEW B,
           \A j \in 1..n : <<j, j>> \notin B,
           \A i, j, k \in 1..n : <<i, j>> \in B /\ <<j, k>> \in B => <<i, k>> \in B,
           \A j, k \in 1..n : j = k \/ <<j, k>> \in B \/ <<k, j>> \in B
    PROVE  \E r \in [1..n -> 1..n] :
              /\ \A j, k \in 1..n : <<j, k>> \in B <=> r[j] < r[k]
              /\ \A j, k \in 1..n : r[j] = r[k] => j = k
              /\ \A m \in 1..n : \E k \in 1..n : r[k] = m
  <1> DEFINE N == 1..n
             Below(k) == {j \in N : <<j, k>> \in B}
             r == [k \in N |-> Cardinality(Below(k)) + 1]
  <1>1. IsFiniteSet(N) /\ Cardinality(N) = n
    BY FS_Interval
  <1> HIDE DEF N
  <1>2. \A k \in N : IsFiniteSet(Below(k)) /\ Cardinality(Below(k)) \in Nat
    <2> SUFFICES ASSUME NEW k \in N PROVE IsFiniteSet(Below(k)) /\ Cardinality(Below(k)) \in Nat
      OBVIOUS
    <2>1. Below(k) \in SUBSET N
      OBVIOUS
    <2> HIDE DEF Below
    <2> QED
      BY <1>1, <2>1, FS_Subset, FS_CardinalityType
  <1>3. ASSUME NEW S, NEW T, IsFiniteSet(T), S \subseteq T, NEW x \in T, x \notin S
        PROVE  Cardinality(S) < Cardinality(T)
    <2>1. IsFiniteSet(T \ {x}) /\ Cardinality(T \ {x}) = Cardinality(T) - 1
      BY <1>3, FS_RemoveElement
    <2>2. S \in SUBSET (T \ {x})
      BY <1>3
    <2>3. IsFiniteSet(S) /\ Cardinality(S) <= Cardinality(T \ {x})
      BY <2>1, <2>2, FS_Subset
    <2>4. Cardinality(S) \in Nat /\ Cardinality(T) \in Nat
      BY <1>3, <2>3, FS_CardinalityType
    <2> QED
      BY <2>1, <2>3, <2>4
  <1>4. r \in [N -> N]
    <2> SUFFICES ASSUME NEW k \in N PROVE Cardinality(Below(k)) + 1 \in N
      OBVIOUS
    <2>1. Below(k) \subseteq N /\ k \notin Below(k)
      BY DEF N
    <2> HIDE DEF Below
    <2>2. Cardinality(Below(k)) < n
      BY <1>1, <1>3, <2>1
    <2>3. Cardinality(Below(k)) \in Nat
      BY <1>2
    <2> QED
      BY <2>2, <2>3 DEF N
  <1>5. ASSUME NEW j \in N, NEW k \in N, <<j, k>> \in B PROVE r[j] < r[k]
    <2>1. Below(j) \subseteq Below(k) /\ j \in Below(k) /\ j \notin Below(j)
      BY <1>5 DEF N
    <2>2. /\ IsFiniteSet(Below(k)) /\ Cardinality(Below(k)) \in Nat /\ Cardinality(Below(j)) \in Nat
          /\ r[j] = Cardinality(Below(j)) + 1 /\ r[k] = Cardinality(Below(k)) + 1
      BY <1>2
    <2> HIDE DEF Below, r
    <2>3. Cardinality(Below(j)) < Cardinality(Below(k))
      BY <1>3, <2>1, <2>2
    <2> QED
      BY <2>2, <2>3
  <1> HIDE DEF r
  <1>6. \A j, k \in N : r[j] \in Nat /\ r[k] \in Nat
    BY <1>4 DEF N
  <1>7. \A j, k \in N : (<<j, k>> \in B <=> r[j] < r[k]) /\ (r[j] = r[k] => j = k)
    <2> SUFFICES ASSUME NEW j \in N, NEW k \in N
                 PROVE  (<<j, k>> \in B <=> r[j] < r[k]) /\ (r[j] = r[k] => j = k)
      OBVIOUS
    <2>1. j = k \/ <<j, k>> \in B \/ <<k, j>> \in B
      BY DEF N
    <2>2. <<k, j>> \in B => r[k] < r[j]
      BY <1>5
    <2>3. <<j, k>> \in B => r[j] < r[k]
      BY <1>5
    <2> QED
      BY <1>6, <2>1, <2>2, <2>3
  <1>8. r \in Injection(N, N)
    BY <1>4, <1>7, InjectionFacts
  <1>9. r \in Surjection(N, N)
    BY <1>1, <1>8, FS_Injection
  <1>10. \A m \in N : \E k \in N : r[k] = m
    BY <1>9 DEF Surjection
  <1> QED
    BY <1>4, <1>7, <1>10 DEF N

\* What parsing and the repair give of a plan.
Parsed(p) ==
    /\ Len(p) \in Nat /\ DOMAIN p = 1..Len(p)
    /\ \A k \in DOMAIN p :
          /\ p[k].type \in Kinds
          /\ p[k].scope \in Nat /\ p[k].scope < k
          /\ p[k].scope # Outer => p[p[k].scope].subplan
          /\ p[k].decision = "none" => \A b \in YesNo : p[k].branches[b] = {}

LEMMA RepairedIsParsed ==
    ASSUME NEW p \in Payloads, NEW r \in Repaired(p)
    PROVE  Parsed(r)
  <1>1. /\ p \in Seq(NodeShape) /\ WellNested(p) /\ BranchesDeclared(p)
    BY PlanningAssumption
  <1>2. Len(r) \in Nat /\ DOMAIN r = 1..Len(r)
    <2>1. PICK S : r \in Seq(S)
      BY RepairedNodes
    <2> QED
      BY <2>1, LenProperties
  <1>3. /\ Len(p) \in Nat /\ DOMAIN p = 1..Len(p) /\ DOMAIN p \subseteq DOMAIN r
        /\ \A k \in DOMAIN p : r[k] = p[k]
        /\ \A k \in DOMAIN r \ DOMAIN p :
              k > Len(p) /\ \E s \in Incomplete(p) : r[k] = ResultNode(p, s)
    BY RepairedNodes
  <1>4. ASSUME NEW k \in DOMAIN r
        PROVE  /\ r[k].type \in Kinds
               /\ r[k].scope \in Nat /\ r[k].scope < k
               /\ r[k].decision = "none" => \A b \in YesNo : r[k].branches[b] = {}
    <2>1. CASE k \in DOMAIN p
      <3>1. p[k] \in NodeShape
        BY <1>1, <1>3, <2>1, ElementOfSeq
      <3>2. p[k].scope < k /\ (p[k].decision = "none" => \A b \in YesNo : p[k].branches[b] = {})
        BY <1>1, <2>1 DEF WellNested, BranchesDeclared
      <3>3. p[k].type \in Kinds /\ p[k].scope \in Nat
        BY <3>1 DEF NodeShape
      <3> QED
        BY <1>3, <2>1, <3>2, <3>3
    <2>2. CASE k \notin DOMAIN p
      <3>1. PICK s \in Incomplete(p) : r[k] = ResultNode(p, s)
        BY <1>3, <2>2
      <3>2. /\ ResultNode(p, s).type = "result" /\ ResultNode(p, s).scope = s
            /\ ResultNode(p, s).branches = [b \in YesNo |-> {}]
        BY DEF ResultNode
      <3>3. s \in 0..Len(p)
        BY <1>3 DEF Incomplete, Outer
      <3>4. k > Len(p) /\ k \in Nat
        BY <1>2, <1>3, <2>2
      <3>5. s \in Nat /\ s < k
        BY <1>3, <3>3, <3>4
      <3> QED
        BY <3>1, <3>2, <3>5 DEF Kinds, LLMKinds
    <2> QED
      BY <2>1, <2>2
  <1>5. \A k \in DOMAIN r : r[k].scope # Outer => r[r[k].scope].subplan
    BY RepairedPlans DEF PlansIn
  <1> QED
    BY <1>2, <1>4, <1>5 DEF Parsed

\* Every plan that has nodes is in its order and keeps the contracts.
Ordered(p, o) ==
    \A s \in 0..Len(p) : MembersOf(p, s) # {} =>
        /\ ContractsKept(p, s)
        /\ o[s] \in Seq(IdsOf(p, s))
        /\ Topological(p, s, o[s])

\* In its order a plan has each node at one place, and no other node there.
LEMMA PlaceIsOwn ==
    ASSUME NEW p, NEW s, IsFiniteSet(MembersOf(p, s)),
           NEW ids \in Seq(IdsOf(p, s)), Topological(p, s, ids)
    PROVE  \A j, k \in MembersOf(p, s) : p[j].id = p[k].id => j = k
  <1>1. /\ Len(ids) = Cardinality(MembersOf(p, s)) /\ Once(ids)
        /\ \A k \in MembersOf(p, s) : \E i \in 1..Len(ids) : ids[i] = p[k].id
    BY DEF Topological, Once
  <1>2. Elems(ids) = IdsOf(p, s)
    <2>1. \A i \in 1..Len(ids) : ids[i] \in IdsOf(p, s)
      BY ElementOfSeq
    <2> QED
      BY <1>1, <2>1 DEF Elems, IdsOf
  <1>3. Cardinality(IdsOf(p, s)) = Len(ids)
    BY <1>1, <1>2, OnceCardinality
  <1> QED
    BY <1>1, <1>3, IdsFinite

\* The place of node k in the order of its plan.
Place(k) == CHOOSE i \in 1..Len(order[plan[k].scope]) : order[plan[k].scope][i] = plan[k].id

\* j comes before k: its plan does, or it does in the order of their plan.
Precedes(j, k) ==
    \/ plan[j].scope < plan[k].scope
    \/ plan[j].scope = plan[k].scope /\ Place(j) < Place(k)

LEMMA PlaceFacts ==
    ASSUME Parsed(plan), Ordered(plan, order), NEW k \in 1..Len(plan)
    PROVE  /\ plan[k].scope \in 0..Len(plan) /\ k \in MembersOf(plan, plan[k].scope)
           /\ ContractsKept(plan, plan[k].scope)
           /\ Topological(plan, plan[k].scope, order[plan[k].scope])
           /\ Place(k) \in 1..Len(order[plan[k].scope]) /\ Place(k) \in Nat
           /\ order[plan[k].scope][Place(k)] = plan[k].id
           /\ \A j \in 1..Len(plan) : plan[j].scope = plan[k].scope /\ Place(j) = Place(k) => j = k
  <1> DEFINE s == plan[k].scope
  <1>1. /\ Len(plan) \in Nat /\ DOMAIN plan = 1..Len(plan)
        /\ \A j \in 1..Len(plan) : plan[j].scope \in Nat /\ plan[j].scope < j
    BY DEF Parsed
  <1>2. s \in 0..Len(plan)
    BY <1>1
  <1>3. k \in MembersOf(plan, s)
    BY <1>1 DEF MembersOf
  <1>4. ContractsKept(plan, s) /\ order[s] \in Seq(IdsOf(plan, s)) /\ Topological(plan, s, order[s])
    BY <1>2, <1>3 DEF Ordered
  <1>5. IsFiniteSet(MembersOf(plan, s))
    <2>1. MembersOf(plan, s) \in SUBSET (1..Len(plan)) /\ IsFiniteSet(1..Len(plan))
      BY <1>1, FS_Interval DEF MembersOf
    <2> QED
      BY <2>1, FS_Subset
  <1>6. \A j, h \in MembersOf(plan, s) : plan[j].id = plan[h].id => j = h
    BY <1>4, <1>5, PlaceIsOwn
  <1>7. ASSUME NEW j \in MembersOf(plan, s)
        PROVE  Place(j) \in 1..Len(order[s]) /\ order[s][Place(j)] = plan[j].id
    <2>1. \E i \in 1..Len(order[s]) : order[s][i] = plan[j].id
      BY <1>4 DEF Topological
    <2>2. plan[j].scope = s
      BY DEF MembersOf
    <2> HIDE DEF s
    <2> QED
      BY <2>1, <2>2 DEF Place
  <1>8. Len(order[s]) \in Nat
    BY <1>4, LenProperties
  <1>9. ASSUME NEW j \in 1..Len(plan), plan[j].scope = s, Place(j) = Place(k) PROVE j = k
    <2>1. j \in MembersOf(plan, s)
      BY <1>1, <1>9 DEF MembersOf
    <2> HIDE DEF s
    <2> QED
      BY <1>3, <1>6, <1>7, <1>9, <2>1
  <1>10. Place(k) \in Nat
    <2>1. Place(k) \in 1..Len(order[s])
      BY <1>3, <1>7
    <2> HIDE DEF s
    <2> QED
      BY <1>8, <2>1
  <1> QED
    BY <1>2, <1>3, <1>4, <1>7, <1>9, <1>10

\* A node comes after the holder of its plan, after what it needs and after the
\* decisions that list it.
LEMMA PrecedesFacts ==
    ASSUME Parsed(plan), Ordered(plan, order), NEW j \in 1..Len(plan), NEW k \in 1..Len(plan)
    PROVE  /\ plan[k].scope = j => Precedes(j, k)
           /\ plan[j].scope = plan[k].scope /\ plan[j].id \in plan[k].context_needed => Precedes(j, k)
           /\ plan[j].scope = plan[k].scope /\ plan[j].type = "decision"
                 /\ plan[k].id \in plan[j].branches["yes"] \cup plan[j].branches["no"] => Precedes(j, k)
  <1> DEFINE s == plan[k].scope
             ids == order[s]
  <1>1. DOMAIN plan = 1..Len(plan) /\ plan[j].scope < j
    BY DEF Parsed
  <1>2. plan[k].scope = j => Precedes(j, k)
    BY <1>1 DEF Precedes
  <1>3. ASSUME plan[j].scope = s
        PROVE  /\ j \in MembersOf(plan, s) /\ k \in MembersOf(plan, s) /\ Topological(plan, s, ids)
               /\ Place(j) \in 1..Len(ids) /\ ids[Place(j)] = plan[j].id
               /\ Place(k) \in 1..Len(ids) /\ ids[Place(k)] = plan[k].id
    <2>1. /\ k \in MembersOf(plan, s) /\ Topological(plan, s, ids)
          /\ Place(k) \in 1..Len(ids) /\ ids[Place(k)] = plan[k].id
      BY PlaceFacts
    <2>2. /\ j \in MembersOf(plan, plan[j].scope)
          /\ Place(j) \in 1..Len(order[plan[j].scope]) /\ order[plan[j].scope][Place(j)] = plan[j].id
      BY PlaceFacts
    <2> HIDE DEF s
    <2> QED
      BY <1>3, <2>1, <2>2
  <1> HIDE DEF s, ids
  <1>4. ASSUME plan[j].scope = s, plan[j].id \in plan[k].context_needed PROVE Place(j) < Place(k)
    BY <1>3, <1>4 DEF Topological
  <1>5. ASSUME plan[j].scope = s, plan[j].type = "decision",
               plan[k].id \in plan[j].branches["yes"] \cup plan[j].branches["no"]
        PROVE  Place(j) < Place(k)
    BY <1>3, <1>5 DEF Topological
  <1> QED
    BY <1>2, <1>4, <1>5 DEF Precedes, s

\* The numbering: plans in the order of their holders, each in its own order.
LEMMA NumberingExists ==
    ASSUME Parsed(plan), Ordered(plan, order)
    PROVE  \E r \in [1..Len(plan) -> 1..Len(plan)] :
              /\ \A j, k \in 1..Len(plan) : Precedes(j, k) <=> r[j] < r[k]
              /\ \A j, k \in 1..Len(plan) : r[j] = r[k] => j = k
              /\ \A m \in 1..Len(plan) : \E k \in 1..Len(plan) : r[k] = m
  <1> DEFINE n == Len(plan)
             B == {x \in (1..n) \X (1..n) : Precedes(x[1], x[2])}
  <1>1. n \in Nat
    BY DEF Parsed
  <1>2. \A k \in 1..n : plan[k].scope \in Nat /\ Place(k) \in Nat
    <2> SUFFICES ASSUME NEW k \in 1..n PROVE plan[k].scope \in Nat /\ Place(k) \in Nat
      OBVIOUS
    <2>1. Place(k) \in Nat
      BY PlaceFacts
    <2> QED
      BY <2>1 DEF Parsed
  <1>3. \A j, k \in 1..n : plan[j].scope = plan[k].scope /\ Place(j) = Place(k) => j = k
    BY PlaceFacts
  <1> HIDE DEF n
  <1>4. \A j, k \in 1..n : <<j, k>> \in B <=> Precedes(j, k)
    OBVIOUS
  <1> HIDE DEF B
  <1>5. \A j \in 1..n : ~Precedes(j, j)
    BY <1>2 DEF Precedes
  <1>6. \A i, j, k \in 1..n : Precedes(i, j) /\ Precedes(j, k) => Precedes(i, k)
    <2> SUFFICES ASSUME NEW i \in 1..n, NEW j \in 1..n, NEW k \in 1..n, Precedes(i, j), Precedes(j, k)
                 PROVE  Precedes(i, k)
      OBVIOUS
    <2>1. /\ plan[i].scope \in Nat /\ plan[j].scope \in Nat /\ plan[k].scope \in Nat
          /\ Place(i) \in Nat /\ Place(j) \in Nat /\ Place(k) \in Nat
      BY <1>2
    <2> QED
      BY <2>1 DEF Precedes
  <1>7. \A j, k \in 1..n : j = k \/ Precedes(j, k) \/ Precedes(k, j)
    <2> SUFFICES ASSUME NEW j \in 1..n, NEW k \in 1..n, j # k PROVE Precedes(j, k) \/ Precedes(k, j)
      OBVIOUS
    <2>1. /\ plan[j].scope \in Nat /\ plan[k].scope \in Nat /\ Place(j) \in Nat /\ Place(k) \in Nat
          /\ ~(plan[j].scope = plan[k].scope /\ Place(j) = Place(k))
      BY <1>2, <1>3
    <2> QED
      BY <2>1 DEF Precedes
  <1>8. \E r \in [1..n -> 1..n] :
              /\ \A j, k \in 1..n : <<j, k>> \in B <=> r[j] < r[k]
              /\ \A j, k \in 1..n : r[j] = r[k] => j = k
              /\ \A m \in 1..n : \E k \in 1..n : r[k] = m
    <2>1. \A j \in 1..n : <<j, j>> \notin B
      BY <1>4, <1>5
    <2>2. \A i, j, k \in 1..n : <<i, j>> \in B /\ <<j, k>> \in B => <<i, k>> \in B
      BY <1>4, <1>6
    <2>3. \A j, k \in 1..n : j = k \/ <<j, k>> \in B \/ <<k, j>> \in B
      BY <1>4, <1>7
    <2> QED
      BY <1>1, <2>1, <2>2, <2>3, RankingExists
  <1> QED
    BY <1>4, <1>8 DEF n

\* The plan, so numbered, is one that PlanGraph calls validated.
LEMMA OrderedIsValidated ==
    ASSUME Parsed(plan), Ordered(plan, order)
    PROVE  \E r \in Numberings(plan) : FollowsOrders(r) /\ Graph(Len(plan))!Validated(AsGraph(r))
  <1> DEFINE N == 1..Len(plan)
             Ranks(r, k, S) == {r[j] : j \in {i \in N : plan[i].scope = plan[k].scope /\ plan[i].id \in S}}
  <1>1. PICK r \in [N -> N] :
           /\ \A j, k \in N : Precedes(j, k) <=> r[j] < r[k]
           /\ \A j, k \in N : r[j] = r[k] => j = k
           /\ \A m \in N : \E k \in N : r[k] = m
    BY NumberingExists
  <1>2. /\ Len(plan) \in Nat /\ DOMAIN plan = N
        /\ \A k \in N : /\ plan[k].type \in Kinds
                        /\ plan[k].scope \in Nat /\ plan[k].scope < k
                        /\ plan[k].scope # Outer => plan[plan[k].scope].subplan
                        /\ plan[k].decision = "none" => \A b \in YesNo : plan[k].branches[b] = {}
    BY DEF Parsed
  <1>3. \A j, k \in N : plan[j].scope = plan[k].scope /\ Place(j) = Place(k) => j = k
    BY PlaceFacts
  <1>4. FollowsOrders(r)
    <2>1. ASSUME NEW j \in N, NEW k \in N, plan[j].scope = plan[k].scope, r[j] < r[k]
          PROVE  \E a, b \in 1..Len(order[plan[j].scope]) :
                    a < b /\ order[plan[j].scope][a] = plan[j].id /\ order[plan[j].scope][b] = plan[k].id
      <3>1. Precedes(j, k)
        BY <1>1, <2>1
      <3>2. Place(j) < Place(k)
        BY <1>2, <2>1, <3>1 DEF Precedes
      <3>3. Place(j) \in 1..Len(order[plan[j].scope]) /\ order[plan[j].scope][Place(j)] = plan[j].id
        BY PlaceFacts
      <3>4. Place(k) \in 1..Len(order[plan[k].scope]) /\ order[plan[k].scope][Place(k)] = plan[k].id
        BY PlaceFacts
      <3> QED
        BY <2>1, <3>2, <3>3, <3>4
    <2>2. ASSUME NEW j \in N, NEW k \in N, plan[k].scope = j PROVE r[j] < r[k]
      BY <1>1, <2>2, PrecedesFacts
    <2> QED
      BY <2>1, <2>2 DEF FollowsOrders
  <1>5. r \in Numberings(plan)
    BY <1>1 DEF Numberings
  <1> DEFINE at == [m \in N |-> CHOOSE k \in N : r[k] = m]
             g  == AsGraph(r)
  <1>6. /\ \A m \in N : at[m] \in N /\ r[at[m]] = m
        /\ \A k \in N : r[k] \in N /\ at[r[k]] = k
    BY <1>1
  <1>7. g = [type           |-> [m \in N |-> plan[at[m]].type],
             scope          |-> [m \in N |-> IF plan[at[m]].scope = Outer THEN 0 ELSE r[plan[at[m]].scope]],
             context_needed |-> [m \in N |-> Ranks(r, at[m], plan[at[m]].context_needed)],
             branches       |-> [m \in N |-> [b \in YesNo |-> Ranks(r, at[m], plan[at[m]].branches[b])]],
             listed         |-> {m \in N : \E i \in 1..Len(order[plan[at[m]].scope]) :
                                     order[plan[at[m]].scope][i] = plan[at[m]].id}]
    <2> DEFINE At(m) == CHOOSE k \in N : r[k] = m
    <2>1. \A m \in N : at[m] = At(m)
      OBVIOUS
    <2>2. g = [type           |-> [m \in N |-> plan[At(m)].type],
               scope          |-> [m \in N |-> IF plan[At(m)].scope = Outer THEN 0 ELSE r[plan[At(m)].scope]],
               context_needed |-> [m \in N |-> Ranks(r, At(m), plan[At(m)].context_needed)],
               branches       |-> [m \in N |-> [b \in YesNo |-> Ranks(r, At(m), plan[At(m)].branches[b])]],
               listed         |-> {m \in N : \E i \in 1..Len(order[plan[At(m)].scope]) :
                                       order[plan[At(m)].scope][i] = plan[At(m)].id}]
      BY Zenon DEF AsGraph
    <2> HIDE DEF At, at, g, N, Ranks
    <2>3. [m \in N |-> plan[At(m)].type] = [m \in N |-> plan[at[m]].type]
      BY <2>1
    <2>4. [m \in N |-> IF plan[At(m)].scope = Outer THEN 0 ELSE r[plan[At(m)].scope]]
             = [m \in N |-> IF plan[at[m]].scope = Outer THEN 0 ELSE r[plan[at[m]].scope]]
      BY <2>1
    <2>5. [m \in N |-> Ranks(r, At(m), plan[At(m)].context_needed)]
             = [m \in N |-> Ranks(r, at[m], plan[at[m]].context_needed)]
      BY <2>1
    <2>6. [m \in N |-> [b \in YesNo |-> Ranks(r, At(m), plan[At(m)].branches[b])]]
             = [m \in N |-> [b \in YesNo |-> Ranks(r, at[m], plan[at[m]].branches[b])]]
      BY <2>1
    <2>7. {m \in N : \E i \in 1..Len(order[plan[At(m)].scope]) :
                         order[plan[At(m)].scope][i] = plan[At(m)].id}
             = {m \in N : \E i \in 1..Len(order[plan[at[m]].scope]) :
                              order[plan[at[m]].scope][i] = plan[at[m]].id}
      BY <2>1
    <2> QED
      BY <2>2, <2>3, <2>4, <2>5, <2>6, <2>7
  <1>8. \A k \in N : plan[k].scope \in {Outer} \cup N
    BY <1>2 DEF Outer
  <1>9. ASSUME NEW k, NEW S PROVE Ranks(r, k, S) \subseteq N
    <2>1. \A j \in N : r[j] \in N
      BY <1>1
    <2> HIDE DEF N
    <2> QED
      BY <2>1
  <1> HIDE DEF g, at
  <1>10. /\ g.type = [m \in N |-> plan[at[m]].type]
         /\ g.scope = [m \in N |-> IF plan[at[m]].scope = Outer THEN 0 ELSE r[plan[at[m]].scope]]
         /\ g.context_needed = [m \in N |-> Ranks(r, at[m], plan[at[m]].context_needed)]
         /\ g.branches = [m \in N |-> [b \in YesNo |-> Ranks(r, at[m], plan[at[m]].branches[b])]]
    BY <1>7
  <1>11. g.listed = N
    <2>1. ASSUME NEW m \in N
          PROVE  \E i \in 1..Len(order[plan[at[m]].scope]) : order[plan[at[m]].scope][i] = plan[at[m]].id
      <3>1. at[m] \in N
        BY <1>6
      <3> DEFINE k == at[m]
      <3> HIDE DEF k
      <3>2. k \in N
        BY <3>1 DEF k
      <3>3. Place(k) \in 1..Len(order[plan[k].scope]) /\ order[plan[k].scope][Place(k)] = plan[k].id
        BY <3>2, PlaceFacts
      <3> QED
        BY <3>3 DEF k
    <2>2. g.listed = {m \in N : \E i \in 1..Len(order[plan[at[m]].scope]) :
                                   order[plan[at[m]].scope][i] = plan[at[m]].id}
      BY <1>7
    <2> QED
      BY <2>1, <2>2
  <1>12. \A m \in N : g.scope[m] \in {0} \cup N
    BY <1>1, <1>6, <1>8, <1>10
  <1>13. g \in Graph(Len(plan))!PlanShape
    <2>1. g.type \in [N -> Kinds]
      BY <1>2, <1>6, <1>10
    <2>2. g.scope \in [N -> {0} \cup N]
      BY <1>10, <1>12
    <2>3. g.context_needed \in [N -> SUBSET N]
      BY <1>6, <1>9, <1>10
    <2>4. g.branches \in [N -> [YesNo -> SUBSET N]]
      BY <1>6, <1>9, <1>10
    <2>5. g.listed \in SUBSET N
      BY <1>11
    <2>6. g = [type |-> g.type, scope |-> g.scope, context_needed |-> g.context_needed,
               branches |-> g.branches, listed |-> g.listed]
      BY <1>7
    <2> HIDE DEF N
    <2>7. g \in [type : [N -> Kinds], scope : [N -> {0} \cup N], context_needed : [N -> SUBSET N],
                 branches : [N -> [YesNo -> SUBSET N]], listed : SUBSET N]
      BY <2>1, <2>2, <2>3, <2>4, <2>5, <2>6
    <2> QED
      BY <2>7 DEF Graph!PlanShape, Graph!Nodes, Graph!Branches, Graph!Scopes, Graph!Root,
                  Graph!NodeTypes, Graph!LLMTypes, Kinds, LLMKinds, YesNo, N
  <1>14. ASSUME NEW m \in N
         PROVE  /\ g.scope[m] < m
                /\ g.scope[m] # 0 => g.type[g.scope[m]] = "subplan"
                /\ \A h \in g.context_needed[m] : g.scope[h] = g.scope[m] /\ h < m
                /\ \A b \in YesNo : \A h \in g.branches[m][b] : g.scope[h] = g.scope[m] /\ m < h
                /\ g.type[m] # "decision" => \A b \in YesNo : g.branches[m][b] = {}
    <2> DEFINE k == at[m]
    <2>1. k \in N /\ r[k] = m
      BY <1>6
    <2> HIDE DEF k
    <2>2. /\ g.type[m] = plan[k].type
          /\ g.scope[m] = IF plan[k].scope = Outer THEN 0 ELSE r[plan[k].scope]
          /\ g.context_needed[m] = Ranks(r, k, plan[k].context_needed)
          /\ \A b \in YesNo : g.branches[m][b] = Ranks(r, k, plan[k].branches[b])
      BY <1>10 DEF k
    <2>3. ASSUME NEW S, NEW h \in Ranks(r, k, S)
          PROVE  \E j \in N : /\ h = r[j] /\ plan[j].scope = plan[k].scope /\ plan[j].id \in S
                              /\ g.scope[h] = g.scope[m]
      <3>1. PICK j \in N : h = r[j] /\ plan[j].scope = plan[k].scope /\ plan[j].id \in S
        BY <2>3
      <3>2. h \in N /\ at[h] = j
        BY <1>6, <3>1
      <3>3. g.scope[h] = IF plan[j].scope = Outer THEN 0 ELSE r[plan[j].scope]
        BY <1>10, <3>2
      <3> QED
        BY <2>2, <3>1, <3>3
    <2>4. g.scope[m] < m
      <3>1. CASE plan[k].scope = Outer
        BY <1>2, <2>2, <3>1
      <3>2. CASE plan[k].scope # Outer
        <4>1. plan[k].scope \in N
          BY <1>8, <2>1, <3>2
        <4>2. Precedes(plan[k].scope, k)
          BY <2>1, <4>1, PrecedesFacts
        <4> QED
          BY <1>1, <2>1, <2>2, <3>2, <4>1, <4>2
      <3> QED
        BY <3>1, <3>2
    <2>5. ASSUME g.scope[m] # 0 PROVE g.type[g.scope[m]] = "subplan"
      <3> DEFINE j == plan[k].scope
      <3>1. j \in N /\ plan[j].subplan /\ g.scope[m] = r[j]
        BY <1>2, <1>8, <2>1, <2>2, <2>5
      <3> HIDE DEF j
      <3>2. j \in MembersOf(plan, plan[j].scope) /\ ContractsKept(plan, plan[j].scope)
        BY <3>1, PlaceFacts
      <3>3. plan[j].type = "subplan"
        BY <3>1, <3>2 DEF ContractsKept
      <3>4. r[j] \in N /\ at[r[j]] = j
        BY <1>6, <3>1
      <3> QED
        BY <1>10, <3>1, <3>3, <3>4
    <2>6. ASSUME NEW h \in g.context_needed[m] PROVE g.scope[h] = g.scope[m] /\ h < m
      <3>1. PICK j \in N : /\ h = r[j] /\ plan[j].scope = plan[k].scope
                           /\ plan[j].id \in plan[k].context_needed /\ g.scope[h] = g.scope[m]
        <4>1. h \in Ranks(r, k, plan[k].context_needed)
          BY <2>2, <2>6
        <4> HIDE DEF Ranks, N
        <4> QED
          BY <2>3, <4>1
      <3>2. Precedes(j, k)
        BY <2>1, <3>1, PrecedesFacts
      <3> QED
        BY <1>1, <2>1, <3>1, <3>2
    <2>7. ASSUME plan[k].type # "decision" PROVE \A b \in YesNo : g.branches[m][b] = {}
      <3>1. k \in MembersOf(plan, plan[k].scope) /\ ContractsKept(plan, plan[k].scope)
        BY <2>1, PlaceFacts
      <3>2. plan[k].decision = "none"
        BY <2>7, <3>1 DEF ContractsKept
      <3>3. \A b \in YesNo : plan[k].branches[b] = {}
        BY <1>2, <2>1, <3>2
      <3> QED
        BY <2>2, <3>3
    <2>8. ASSUME NEW b \in YesNo, NEW h \in g.branches[m][b] PROVE g.scope[h] = g.scope[m] /\ m < h
      <3>1. PICK j \in N : /\ h = r[j] /\ plan[j].scope = plan[k].scope
                           /\ plan[j].id \in plan[k].branches[b] /\ g.scope[h] = g.scope[m]
        <4>1. h \in Ranks(r, k, plan[k].branches[b])
          BY <2>2, <2>8
        <4> HIDE DEF Ranks, N
        <4> QED
          BY <2>3, <4>1
      <3>2. plan[k].type = "decision"
        BY <2>7, <2>8
      <3>3. plan[j].id \in plan[k].branches["yes"] \cup plan[k].branches["no"]
        BY <3>1 DEF YesNo
      <3>4. Precedes(k, j)
        BY <2>1, <3>1, <3>2, <3>3, PrecedesFacts
      <3> QED
        BY <1>1, <2>1, <3>1, <3>4
    <2> QED
      BY <2>2, <2>4, <2>5, <2>6, <2>7, <2>8
  <1>15. Graph(Len(plan))!Validated(g)
    <2>1. Graph(Len(plan))!Loadable(g)
      BY <1>13, <1>14 DEF Graph!Loadable, Graph!Nodes, Graph!Root, Graph!Branches, YesNo
    <2> QED
      BY <1>11, <1>14, <2>1 DEF Graph!Validated, Graph!Nodes, Graph!Branches, YesNo
  <1> QED
    BY <1>4, <1>5, <1>15 DEF g

\* The validation: which plans are sorted, which are written, and what is left.
OnStack(s) == \E i \in 1..Len(stack) : stack[i] = s

\* What is sorted keeps the contracts, and is written or still has its frame; with a plan
\* its nested plans are written.
Sorting(s) ==
    /\ sorted[s] \in Seq(IdsOf(plan, s)) /\ order[s] \in {<<>>, sorted[s]}
    /\ sorted[s] # <<>> => ContractsKept(plan, s) /\ (order[s] # <<>> \/ OnStack(s))
    /\ order[s] # <<>> => \A k \in HoldersIn(plan, s) : MembersOf(plan, k) # {} => order[k] # <<>>

\* The frames are those of a plan, of one nested in it, and so on from the outermost;
\* those below the top have passed their checks.
Nesting ==
    /\ stack[1] = Outer
    /\ \A i, j \in 1..Len(stack) : i < j => stack[i] < stack[j]
    /\ \A i \in 1..(Len(stack) - 1) : ContractsKept(plan, stack[i])

OrderInv ==
    /\ stage # "idle" /\ verdict \in {"none", "valid"} => \A s \in 0..Len(plan) : Sorting(s)
    /\ stage \in {"check", "sort", "nested"} => Nesting
    /\ stage \in {"check", "sort"} => order[Top] = <<>>
    /\ stage \in {"sort", "nested"} => ContractsKept(plan, Top)
    /\ verdict = "valid" => stack = <<>> /\ (MembersOf(plan, Outer) # {} => order[Outer] # <<>>)

\* A plan that is valid is in order at every level: the least plan that were not would be
\* nested in one that is.
LEMMA ValidIsOrdered ==
    ASSUME SortInv, RepairInv, OrderInv, verdict = "valid"
    PROVE  Parsed(plan) /\ Ordered(plan, order)
  <1>1. stage # "idle" /\ Shape /\ payload \in Payloads /\ plan \in Repaired(payload)
    BY DEF SortInv, RepairInv
  <1>2. Parsed(plan)
    BY <1>1, RepairedIsParsed
  <1>3. (\A s \in 0..Len(plan) : Sorting(s)) /\ stack = <<>>
    BY <1>1 DEF OrderInv
  <1>4. \A s : ~OnStack(s)
    BY <1>3, EmptySeq DEF OnStack
  <1> DEFINE Bad == {s \in 0..Len(plan) : MembersOf(plan, s) # {} /\ order[s] = <<>>}
  <1>5. Bad = {}
    <2> SUFFICES ASSUME Bad # {} PROVE FALSE
      OBVIOUS
    <2>1. Bad \subseteq Nat /\ Len(plan) \in Nat
      BY <1>1 DEF Shape
    <2>2. PICK s \in Bad : \A t \in Bad : s <= t
      <3> HIDE DEF Bad
      <3> QED
        BY <2>1, LeastOf
    <2>3. s # Outer
      BY <2>2 DEF OrderInv
    <2>4. s \in 1..Len(plan) /\ plan[s].subplan
      <3>1. PICK k \in DOMAIN plan : plan[k].scope = s
        BY <2>2 DEF MembersOf
      <3>2. plan[s].subplan
        BY <1>2, <2>3, <3>1 DEF Parsed
      <3> QED
        BY <2>1, <2>2, <2>3, <3>2 DEF Outer
    <2> DEFINE t == plan[s].scope
    <2>5. t \in 0..Len(plan) /\ t < s /\ s \in MembersOf(plan, t)
      BY <1>2, <2>1, <2>4 DEF Parsed, MembersOf
    <2>6. order[t] # <<>>
      <3>1. t \notin Bad
        <4>1. t \in Nat /\ s \in Nat
          BY <2>1, <2>2, <2>5
        <4> HIDE DEF Bad, t
        <4> QED
          BY <2>2, <2>5, <4>1
      <3> QED
        BY <2>5, <3>1
    <2> HIDE DEF t
    <2>7. ContractsKept(plan, t) /\ \A k \in HoldersIn(plan, t) : MembersOf(plan, k) # {} => order[k] # <<>>
      BY <1>3, <2>5, <2>6 DEF Sorting
    <2>8. s \in HoldersIn(plan, t)
      BY <2>4, <2>5, <2>7 DEF ContractsKept, HoldersIn
    <2> QED
      BY <2>2, <2>7, <2>8
  <1>6. ASSUME NEW s \in 0..Len(plan), MembersOf(plan, s) # {}
        PROVE  ContractsKept(plan, s) /\ order[s] \in Seq(IdsOf(plan, s)) /\ Topological(plan, s, order[s])
    <2>1. order[s] # <<>>
      BY <1>5, <1>6
    <2>2. order[s] = sorted[s] /\ order[s] \in Seq(IdsOf(plan, s)) /\ ContractsKept(plan, s)
      BY <1>3, <2>1 DEF Sorting
    <2>3. Topological(plan, s, order[s])
      BY <1>1, <2>1 DEF SortInv, Shape, Written
    <2> QED
      BY <2>2, <2>3
  <1> QED
    BY <1>2, <1>6 DEF Ordered

LEMMA OrderInvImplies == SortInv /\ RepairInv /\ OrderInv => AcceptedIsValidated
  BY ValidIsOrdered, OrderedIsValidated DEF AcceptedIsValidated

\* An error leaves nothing to show.
LEMMA RaiseLeaves ==
    ASSUME NEW error, Raise(error), error \notin {"none", "valid"}
    PROVE  OrderInv'
  <1>1. stage' = "done" /\ verdict' = error
    BY DEF Raise
  <1> QED
    BY <1>1 DEF OrderInv

\* Steps within a frame that has passed its checks, or passes them now.
LEMMA SameFrame ==
    ASSUME SortInv, OrderInv, stage \in {"check", "sort"}, stage' \in {"sort", "nested"},
           UNCHANGED <<plan, stack, sorted, order, verdict>>,
           stage = "check" => ContractsKept(plan, Top), stage = "check" => stage' = "sort"
    PROVE  OrderInv'
  <1>1. /\ verdict = "none" /\ Nesting /\ ContractsKept(plan, Top) /\ order[Top] = <<>>
        /\ \A s \in 0..Len(plan) : Sorting(s)
    BY DEF SortInv, OrderInv, Frames
  <1>2. Top' = Top /\ Nesting'
    BY <1>1 DEF Top, Nesting
  <1>3. ContractsKept(plan, Top)' /\ (order[Top] = <<>>)'
    BY <1>1, <1>2
  <1>4. \A s \in 0..Len(plan) : Sorting(s)'
    BY <1>1 DEF Sorting, OnStack
  <1> QED
    BY <1>1, <1>2, <1>3, <1>4 DEF OrderInv

LEMMA PopKeepsOrder ==
    ASSUME SortInv, OrderInv, PopNode
    PROVE  OrderInv'
  <1> DEFINE x == Head(queue)
  <1>1. /\ stage = "sort" /\ queue # <<>> /\ UNCHANGED <<plan, stage, stack, order, verdict>>
        /\ sorted' = [sorted EXCEPT ![Top] = Append(@, x)]
    BY DEF PopNode
  <1>2. /\ Shape /\ Frames /\ Kahn(plan, Top, sorted[Top], queue, in_degree)
        /\ verdict = "none" /\ Nesting /\ ContractsKept(plan, Top) /\ order[Top] = <<>>
        /\ \A s \in 0..Len(plan) : Sorting(s)
    BY <1>1 DEF SortInv, OrderInv, Frames
  <1>3. /\ Top \in 0..Len(plan) /\ Len(stack) \in 1..Len(stack)
    <2>1. stack \in Seq(0..Len(plan)) /\ stack # <<>>
      BY <1>2 DEF Frames
    <2>2. Len(stack) \in Nat /\ Len(stack) # 0
      BY <2>1, EmptySeq, LenProperties
    <2>3. Len(stack) \in 1..Len(stack)
      BY <2>2
    <2> QED
      BY <2>1, <2>3, ElementOfSeq DEF Top
  <1>4. OnStack(Top)
    BY <1>3 DEF OnStack, Top
  <1>5. x \in IdsOf(plan, Top) /\ sorted[Top] \in Seq(IdsOf(plan, Top))
    <2>1. queue \in Seq(IdsOf(plan, Top)) /\ sorted[Top] \in Seq(IdsOf(plan, Top))
      BY <1>2 DEF Kahn
    <2> QED
      BY <2>1, <1>1, HeadTailProperties
  <1>6. Append(sorted[Top], x) \in Seq(IdsOf(plan, Top))
    BY <1>5, AppendProperties
  <1> HIDE DEF x
  <1>7. /\ sorted'[Top] = Append(sorted[Top], x)
        /\ \A s \in 0..Len(plan) : s # Top => sorted'[s] = sorted[s]
    BY <1>1, <1>2, <1>3 DEF Shape
  <1>8. Top' = Top /\ Nesting' /\ \A s : OnStack(s)' <=> OnStack(s)
    BY <1>1, <1>2 DEF Top, Nesting, OnStack
  <1>9. ASSUME NEW s \in 0..Len(plan) PROVE Sorting(s)'
    <2>1. CASE s = Top
      <3>1. sorted'[s] \in Seq(IdsOf(plan, s)) /\ order'[s] = <<>>
        BY <1>1, <1>2, <1>6, <1>7, <2>1
      <3>2. ContractsKept(plan, s) /\ OnStack(s)
        BY <1>2, <1>4, <2>1
      <3> QED
        BY <1>1, <1>8, <3>1, <3>2 DEF Sorting
    <2>2. CASE s # Top
      <3>1. sorted'[s] = sorted[s] /\ Sorting(s)
        BY <1>2, <1>7, <2>2
      <3> QED
        BY <1>1, <1>8, <3>1 DEF Sorting
    <2> QED
      BY <2>1, <2>2
  <1>10. ContractsKept(plan, Top)' /\ (order[Top] = <<>>)'
    BY <1>1, <1>2, <1>8
  <1> QED
    BY <1>1, <1>2, <1>8, <1>9, <1>10 DEF OrderInv

LEMMA EnterKeepsOrder ==
    ASSUME SortInv, RepairInv, OrderInv, EnterSubplan
    PROVE  OrderInv'
  <1>1. stage = "nested" /\ stage' = "check" /\ UNCHANGED <<plan, sorted, order, verdict>>
    BY DEF EnterSubplan
  <1>2. PICK k \in Unchecked : stack' = Append(stack, k)
    BY DEF EnterSubplan
  <1>3. /\ Frames /\ Shape /\ verdict = "none" /\ Nesting /\ \A s \in 0..Len(plan) : Sorting(s)
        /\ ContractsKept(plan, Top)
    BY <1>1 DEF SortInv, OrderInv, Frames
  <1>4. Parsed(plan)
    BY <1>1, RepairedIsParsed DEF RepairInv
  <1>5. k \in DOMAIN plan /\ plan[k].scope = Top /\ sorted[k] = <<>>
    BY DEF Unchecked, HoldersIn, MembersOf
  <1>6. k \in 0..Len(plan) /\ Top < k /\ k \in Nat
    BY <1>4, <1>5 DEF Parsed
  <1>7. /\ stack \in Seq(0..Len(plan)) /\ Len(stack) \in Nat /\ Len(stack) >= 1
        /\ \A i \in 1..Len(stack) : stack[i] \in Nat
    <2>1. stack \in Seq(0..Len(plan)) /\ stack # <<>>
      BY <1>3 DEF Frames
    <2>2. Len(stack) \in Nat /\ Len(stack) # 0
      BY <2>1, EmptySeq, LenProperties
    <2>3. \A i \in 1..Len(stack) : stack[i] \in 0..Len(plan)
      BY <2>1, ElementOfSeq
    <2>4. \A i \in 0..Len(plan) : i \in Nat
      OBVIOUS
    <2> QED
      BY <2>1, <2>2, <2>3, <2>4
  <1>8. /\ Len(stack') = Len(stack) + 1 /\ stack'[Len(stack) + 1] = k
        /\ \A i \in 1..Len(stack) : stack'[i] = stack[i]
    BY <1>2, <1>6, <1>7, AppendProperties
  <1>9. \A i \in 1..Len(stack) : stack[i] < k
    <2> SUFFICES ASSUME NEW i \in 1..Len(stack) PROVE stack[i] < k
      OBVIOUS
    <2>1. i = Len(stack) \/ i < Len(stack)
      BY <1>7
    <2>2. Len(stack) \in 1..Len(stack) /\ Top \in Nat /\ stack[i] \in Nat
      BY <1>7 DEF Top
    <2>3. stack[i] = Top \/ stack[i] < Top
      BY <1>3, <2>1, <2>2 DEF Nesting, Top
    <2> QED
      BY <1>6, <2>2, <2>3
  <1>10. Nesting'
    <2>1. stack'[1] = Outer
      BY <1>3, <1>7, <1>8 DEF Nesting
    <2>2. ASSUME NEW i \in 1..Len(stack'), NEW j \in 1..Len(stack'), i < j PROVE stack'[i] < stack'[j]
      <3>1. i \in 1..Len(stack) /\ (j \in 1..Len(stack) \/ j = Len(stack) + 1)
        BY <1>7, <1>8, <2>2
      <3> QED
        BY <1>3, <1>8, <1>9, <2>2, <3>1 DEF Nesting
    <2>3. ASSUME NEW i \in 1..(Len(stack') - 1) PROVE ContractsKept(plan, stack'[i])
      <3>1. i \in 1..Len(stack) /\ stack'[i] = stack[i]
        BY <1>7, <1>8
      <3>2. i = Len(stack) \/ i \in 1..(Len(stack) - 1)
        BY <1>7, <3>1, IntervalEnd
      <3> QED
        BY <1>3, <3>1, <3>2 DEF Nesting, Top
    <2> QED
      BY <1>1, <2>1, <2>2, <2>3 DEF Nesting
  <1>11. Top' = k /\ order[k] = <<>>
    <2>1. Top' = k
      BY <1>8 DEF Top
    <2>2. order[k] \in {<<>>, sorted[k]}
      BY <1>3, <1>6 DEF Sorting
    <2> QED
      BY <1>5, <2>1, <2>2
  <1>12. \A s : OnStack(s) => OnStack(s)'
    <2>1. \A i \in 1..Len(stack) : i \in 1..Len(stack')
      BY <1>7, <1>8
    <2> QED
      BY <1>8, <2>1 DEF OnStack
  <1>13. \A s \in 0..Len(plan) : Sorting(s)'
    BY <1>1, <1>3, <1>12 DEF Sorting
  <1> QED
    BY <1>1, <1>3, <1>10, <1>11, <1>13 DEF OrderInv

LEMMA WriteKeepsOrder ==
    ASSUME SortInv, RepairInv, OrderInv, WriteOrder
    PROVE  OrderInv'
  <1> DEFINE n == Len(stack) - 1
  <1>1. /\ stage = "nested" /\ Unchecked = {} /\ UNCHANGED <<plan, sorted>>
        /\ order' = [order EXCEPT ![Top] = sorted[Top]]
        /\ stack' = SubSeq(stack, 1, n)
        /\ IF Len(stack) = 1 THEN stage' = "done" /\ verdict' = "valid"
                             ELSE stage' = "nested" /\ verdict' = verdict
    BY DEF WriteOrder
  <1>2. /\ Frames /\ Shape /\ verdict = "none" /\ Nesting /\ \A s \in 0..Len(plan) : Sorting(s)
        /\ ContractsKept(plan, Top) /\ Topological(plan, Top, sorted[Top])
    BY <1>1 DEF SortInv, OrderInv, Frames
  <1>3. Parsed(plan)
    BY <1>1, RepairedIsParsed DEF RepairInv
  <1>4. /\ stack \in Seq(0..Len(plan)) /\ Len(stack) \in Nat \ {0} /\ Top \in 0..Len(plan)
        /\ \A i \in 1..Len(stack) : stack[i] \in 0..Len(plan)
    <2>1. stack \in Seq(0..Len(plan)) /\ stack # <<>>
      BY <1>2 DEF Frames
    <2>2. Len(stack) \in Nat \ {0}
      BY <2>1, EmptySeq, LenProperties
    <2>3. \A i \in 1..Len(stack) : stack[i] \in 0..Len(plan)
      BY <2>1, ElementOfSeq
    <2>4. Len(stack) \in 1..Len(stack)
      BY <2>2
    <2> QED
      BY <2>1, <2>2, <2>3, <2>4 DEF Top
  <1>5. /\ order'[Top] = sorted[Top]
        /\ \A s \in 0..Len(plan) : s # Top => order'[s] = order[s]
    BY <1>1, <1>2, <1>4 DEF Shape
  <1>6. \A i \in 1..Len(stack) : stack[i] <= Top
    <2> SUFFICES ASSUME NEW i \in 1..Len(stack) PROVE stack[i] <= Top
      OBVIOUS
    <2>1. i = Len(stack) \/ i < Len(stack)
      BY <1>4
    <2>2. Len(stack) \in 1..Len(stack) /\ Top \in Int /\ stack[i] \in Int
      BY <1>4
    <2>3. stack[i] = Top \/ stack[i] < Top
      BY <1>2, <2>1, <2>2 DEF Nesting, Top
    <2> QED
      BY <2>2, <2>3
  <1>7. /\ Len(stack') = n /\ n \in Nat
        /\ \A i \in 1..n : i \in 1..Len(stack) /\ stack'[i] = stack[i]
    <2>1. n \in Nat /\ 1 \in Int /\ n \in Int /\ \A i \in 1..n : i \in 1..Len(stack)
      BY <1>4
    <2>2. \A i \in 1..n : stack[i] \in 0..Len(plan)
      BY <1>4, <2>1
    <2> HIDE DEF n
    <2>3. \A i \in 1..n : SubSeq(stack, 1, n)[i] = stack[i]
      BY <2>1, <2>2, SubSeqProperties
    <2>4. Len(SubSeq(stack, 1, n)) = n
      BY <2>1, <2>2, SubSeqProperties
    <2> QED
      BY <1>1, <2>1, <2>3, <2>4
  <1>8. \A s : OnStack(s) => s = Top \/ OnStack(s)'
    <2> SUFFICES ASSUME NEW s, OnStack(s), s # Top PROVE OnStack(s)'
      OBVIOUS
    <2>1. PICK i \in 1..Len(stack) : stack[i] = s
      BY DEF OnStack
    <2>2. i \in 1..n
      BY <1>4, <2>1 DEF Top
    <2> HIDE DEF n
    <2>3. stack'[i] = s /\ i \in 1..Len(stack')
      BY <1>7, <2>1, <2>2
    <2> QED
      BY <2>3 DEF OnStack
  <1>9. \A s \in 0..Len(plan) : order[s] # <<>> => order'[s] # <<>>
    BY <1>2, <1>5 DEF Sorting
  <1>10. \A k \in HoldersIn(plan, Top) : MembersOf(plan, k) # {} => order'[k] # <<>>
    <2> SUFFICES ASSUME NEW k \in HoldersIn(plan, Top), MembersOf(plan, k) # {} PROVE order'[k] # <<>>
      OBVIOUS
    <2>1. sorted[k] # <<>>
      BY <1>1 DEF Unchecked
    <2>2. k \in DOMAIN plan /\ plan[k].scope = Top
      BY DEF HoldersIn, MembersOf
    <2>3. k \in 0..Len(plan) /\ Top < k /\ k \in Nat
      BY <1>3, <2>2 DEF Parsed
    <2>4. ~OnStack(k)
      <3>1. \A i \in 1..Len(stack) : stack[i] # k
        <4>1. Top \in Int /\ \A i \in 1..Len(stack) : stack[i] \in Int
          BY <1>4
        <4> QED
          BY <1>6, <2>3, <4>1
      <3> QED
        BY <3>1 DEF OnStack
    <2>5. order[k] # <<>>
      BY <1>2, <2>1, <2>3, <2>4 DEF Sorting
    <2> QED
      BY <1>9, <2>3, <2>5
  <1>11. ASSUME NEW s \in 0..Len(plan) PROVE Sorting(s)'
    <2>1. CASE s = Top
      <3>1. sorted[s] \in Seq(IdsOf(plan, s)) /\ order'[s] = sorted[s] /\ ContractsKept(plan, s)
        BY <1>2, <1>5, <2>1 DEF Sorting
      <3> QED
        BY <1>1, <1>10, <2>1, <3>1 DEF Sorting
    <2>2. CASE s # Top
      <3>1. Sorting(s) /\ order'[s] = order[s]
        BY <1>2, <1>5, <2>2
      <3>2. \A k \in HoldersIn(plan, s) : k \in 0..Len(plan)
        BY <1>3 DEF HoldersIn, MembersOf, Parsed
      <3>3. OnStack(s) => OnStack(s)'
        BY <1>8, <2>2
      <3> QED
        BY <1>1, <1>9, <3>1, <3>2, <3>3 DEF Sorting
    <2> QED
      BY <2>1, <2>2
  <1>12. CASE Len(stack) = 1
    <2>1. Top = Outer
      BY <1>2, <1>12 DEF Top, Nesting
    <2>2. MembersOf(plan, Outer) # {} => sorted[Outer] # <<>>
      <3>1. IsFiniteSet(MembersOf(plan, Outer)) /\ Len(sorted[Outer]) = Cardinality(MembersOf(plan, Outer))
        BY <1>2, <2>1, MembersFinite DEF Topological
      <3>2. MembersOf(plan, Outer) # {} => Len(sorted[Outer]) # 0
        BY <3>1, FS_EmptySet
      <3> QED
        BY <3>2, EmptySeq
    <2>3. stack' = <<>>
      <3>1. stack' \in Seq(0..Len(plan)) /\ Len(stack') = 0
        <4>1. 1 \in Int /\ n = 0 /\ \A i \in 1..0 : stack[i] \in 0..Len(plan)
          BY <1>12
        <4> HIDE DEF n
        <4>2. SubSeq(stack, 1, 0) \in Seq(0..Len(plan))
          BY <4>1, SubSeqProperties
        <4> QED
          BY <1>1, <1>7, <4>1, <4>2
      <3> QED
        BY <3>1, EmptySeq
    <2> QED
      BY <1>1, <1>5, <1>11, <1>12, <2>1, <2>2, <2>3 DEF OrderInv
  <1>13. CASE Len(stack) # 1
    <2>1. stage' = "nested" /\ verdict' = "none"
      BY <1>1, <1>2, <1>13
    <2>2. n \in 1..n /\ 1 \in 1..n /\ \A i \in 1..(n - 1) : i \in 1..n
      <3>1. n \in Nat /\ n # 0
        BY <1>4, <1>7, <1>13
      <3> HIDE DEF n
      <3> QED
        BY <3>1
    <2>3. Nesting'
      <3> HIDE DEF n
      <3>1. stack'[1] = Outer
        BY <1>2, <1>7, <2>2 DEF Nesting
      <3>2. \A i, j \in 1..n : i < j => stack'[i] < stack'[j]
        BY <1>2, <1>7 DEF Nesting
      <3>3. \A i \in 1..n : ContractsKept(plan, stack[i])
        BY <1>2 DEF Nesting, n
      <3>4. \A i \in 1..(n - 1) : ContractsKept(plan, stack'[i])
        BY <1>7, <2>2, <3>3
      <3> QED
        BY <1>1, <1>7, <3>1, <3>2, <3>4 DEF Nesting
    <2>4. ContractsKept(plan, Top)'
      <3>1. ContractsKept(plan, stack[n])
        BY <1>2, <2>2 DEF Nesting
      <3> HIDE DEF n
      <3>2. Top' = stack[n]
        BY <1>7, <2>2 DEF Top
      <3> QED
        BY <1>1, <3>1, <3>2
    <2>5. \A s \in 0..Len(plan') : Sorting(s)'
      BY <1>1, <1>11
    <2> QED
      BY <2>1, <2>3, <2>4, <2>5 DEF OrderInv
  <1> QED
    BY <1>12, <1>13

LEMMA ValidatorKeepsOrder ==
    ASSUME SortInv, RepairInv, OrderInv, ValidatorNext
    PROVE  OrderInv'
  <1>1. CASE CheckFails
    <2>1. PreSortError(plan, Top) # "valid"
      BY DEF PreSortError
    <2> QED
      BY <1>1, <2>1, RaiseLeaves DEF CheckFails
  <1>2. CASE BuildGraph
    <2>1. ContractsKept(plan, Top)
      BY <1>2 DEF BuildGraph, PreSortError
    <2> QED
      BY <1>2, <2>1, SameFrame DEF BuildGraph
  <1>3. CASE PopNode
    BY <1>3, PopKeepsOrder
  <1>4. CASE SortFails
    <2>1. PostSortError(plan, Top, sorted[Top]) # "valid"
      BY DEF PostSortError
    <2> QED
      BY <1>4, <2>1, RaiseLeaves DEF SortFails
  <1>5. CASE SortEnds
    BY <1>5, SameFrame DEF SortEnds
  <1>6. CASE EnterSubplan
    BY <1>6, EnterKeepsOrder
  <1>7. CASE WriteOrder
    BY <1>7, WriteKeepsOrder
  <1> QED
    BY <1>1, <1>2, <1>3, <1>4, <1>5, <1>6, <1>7 DEF ValidatorNext

LEMMA CallKeepsOrder ==
    ASSUME NEW p, Len(p) \in Nat, Call(p)
    PROVE  OrderInv'
  <1>1. /\ plan' = p /\ stage' = "check" /\ stack' = <<Outer>> /\ verdict' = "none"
        /\ \A s \in 0..Len(p) : sorted'[s] = <<>> /\ order'[s] = <<>>
    BY DEF Call
  <1>2. Len(stack') = 1 /\ stack'[1] = Outer
    BY <1>1
  <1>3. Top' = Outer /\ Outer \in 0..Len(p)
    BY <1>2 DEF Top, Outer
  <1>4. Nesting'
    BY <1>2 DEF Nesting
  <1>5. \A s \in 0..Len(p) : Sorting(s)'
    <2>1. \A S : <<>> \in Seq(S)
      BY EmptySeq
    <2> QED
      BY <1>1, <2>1 DEF Sorting
  <1> QED
    BY <1>1, <1>3, <1>4, <1>5 DEF OrderInv

LEMMA OrderInit == Init => OrderInv
  BY DEF Init, ValidatorInit, OrderInv

LEMMA OrderStep == SortInv /\ RepairInv /\ OrderInv /\ [Next]_vars => OrderInv'
  <1> SUFFICES ASSUME SortInv, RepairInv, OrderInv, [Next]_vars PROVE OrderInv'
    OBVIOUS
  <1>1. CASE Run \/ Revise \/ PlanInvalid \/ PlanSuspicious
    <2>1. stage' = "idle" /\ verdict' = "none"
      BY <1>1 DEF Run, Revise, StartPlanning, PlanInvalid, PlanSuspicious, Discard
    <2> QED
      BY <2>1 DEF OrderInv
  <1>2. ASSUME NEW p \in Payloads, PlannerAnswers(p) PROVE OrderInv'
    <2>1. PICK r \in Repaired(p) : Call(r)
      BY <1>2 DEF PlannerAnswers
    <2>2. Len(r) \in Nat
      BY RepairedIsParsed DEF Parsed
    <2> QED
      BY <2>1, <2>2, CallKeepsOrder
  <1>3. CASE Validate
    BY <1>3, ValidatorKeepsOrder DEF Validate
  <1>4. CASE UNCHANGED validator
    BY <1>4 DEF validator, OrderInv, Sorting, Nesting, OnStack, Top
  <1>5. ASSUME NEW answer \in Answers, PlannerFails(answer) PROVE UNCHANGED validator
    BY <1>5 DEF PlannerFails
  <1>6. PlannerRaisesValueError \/ PlannerRaises \/ Cancel \/ PlanReady \/ UNCHANGED vars
           => UNCHANGED validator
    BY DEF PlannerRaisesValueError, PlannerRaises, Cancel, PlanReady, vars, validator
  <1> QED
    BY <1>1, <1>2, <1>3, <1>4, <1>5, <1>6 DEF Next, Loop

\* Every plan the validator accepts, of whatever size and nesting, is one the executor's
\* theorems assume: renumbered by its sorted_node_ids it is Validated (validate).
THEOREM AcceptedIsValidatedHolds == Spec => []AcceptedIsValidated
  BY SortInit, SortStep, RepairInit, RepairStep, OrderInit, OrderStep, OrderInvImplies, PTL DEF Spec
=============================================================================
