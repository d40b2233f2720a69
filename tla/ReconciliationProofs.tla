------------------------ MODULE ReconciliationProofs ------------------------
(***************************************************************************)
(* Proofs about the matching loop, for every set of inputs, every matcher  *)
(* configuration and every universe of lines, references and tokens.       *)
(***************************************************************************)
EXTENDS Results, FiniteSetTheorems, WellFoundedInduction, TLAPS

-----------------------------------------------------------------------------
(* Scores and candidates. *)

LEMMA HalfUpInt ==
    ASSUME NEW n \in Int, NEW d \in Nat \ {0}
    PROVE  HalfUp(n, d) \in Int
  BY DEF HalfUp

\* A similarity is a number, for the finite token sets descriptions have.
LEMMA SimilarityInt ==
    ASSUME NEW v \in Description, NEW w \in Description
    PROVE  DescriptionSimilarity(v, w) \in Int
  <1>1. CASE v = {} \/ w = {}
    BY <1>1 DEF DescriptionSimilarity
  <1>2. CASE v # {} /\ w # {}
    <2>1. IsFiniteSet(v \cap w) /\ IsFiniteSet(v \cup w) /\ v \cup w # {}
      BY <1>2, FS_Union, FS_Intersection DEF Description
    <2>2. Cardinality(v \cap w) \in Nat /\ Cardinality(v \cup w) \in Nat \ {0}
      BY <2>1, FS_CardinalityType, FS_EmptySet
    <2>3. 1000 * Cardinality(v \cap w) \in Int
      BY <2>2
    <2> QED BY <1>2, <2>2, <2>3, HalfUpInt DEF DescriptionSimilarity
  <1> QED BY <1>1, <1>2

LEMMA TierOfRange ==
    ASSUME NEW l, NEW r
    PROVE  TierOf(l, r) \in 0..3
  BY DEF TierOf

LEMMA ConfidenceInt ==
    ASSUME NEW l \in CanonicalLedgerRecord, NEW r \in CanonicalLedgerRecord
    PROVE  Confidence(l, r) \in Int
  <1>1. TierTwoConfidence(l, r) \in Int
    <2> DEFINE span == IF WindowDays > 1 THEN WindowDays ELSE 1
               base == IF l.amount = 0 THEN 1
                       ELSE Distance(l.amount, 0) * ToleranceBp
               variance == IF l.amount = 0 THEN 0
                    ELSE AbsoluteAmountVariance(l.amount, r.amount) * 10000
               whole == base * span
               score == 950 * whole - 30 * variance * span
                             - 20 * DateDistance(l.day, r.day) * base
    <2>1. span \in Nat \ {0}
      BY MatcherConfigIsNatural
    <2>2. l.amount \in Int /\ r.amount \in Int /\ l.day \in Int /\ r.day \in Int
      BY DEF CanonicalLedgerRecord
    <2>3. /\ Distance(l.amount, 0) \in Nat
          /\ l.amount # 0 => Distance(l.amount, 0) # 0
          /\ AbsoluteAmountVariance(l.amount, r.amount) \in Nat
          /\ DateDistance(l.day, r.day) \in Nat
      BY <2>2 DEF Distance, AbsoluteAmountVariance, DateDistance
    <2>4. base \in Nat \ {0}
      BY <2>3, MatcherConfigIsNatural
    <2>5. whole \in Nat \ {0}
      BY <2>1, <2>4
    <2>6. variance \in Nat
      BY <2>3
    <2>7. score \in Int
      BY <2>1, <2>3, <2>4, <2>5, <2>6
    <2> DEFINE clamped == IF score < 0 THEN 0
                          ELSE IF score > 1000 * whole THEN 1000 * whole
                          ELSE score
    <2>8. clamped \in Int
      <3> HIDE DEF whole, score
      <3> QED BY <2>5, <2>7
    <2>9. HalfUp(clamped, whole) \in Int
      <3> HIDE DEF clamped, whole
      <3> QED BY <2>5, <2>8, HalfUpInt
    <2> QED BY <2>9 DEF TierTwoConfidence
  <1>2. TierThreeConfidence(Similarity(l, r)) \in Int
    <2>1. Similarity(l, r) \in Int
      BY SimilarityInt DEF Similarity, CanonicalLedgerRecord
    <2> QED BY <2>1, HalfUpInt DEF TierThreeConfidence
  <1> QED BY <1>1, <1>2 DEF Confidence

\* Candidates are positions of the searched set, all at one tier, and no
\* searched position qualifies at a better one.
LEMMA CandidatesAreBestTier ==
    ASSUME NEW l, NEW rights, NEW within,
           NEW p \in FindCandidates(l, rights, within)
    PROVE  /\ p \in within
           /\ TierOf(l, rights[p]) \in 1..3
           /\ \A q \in within :
                 TierOf(l, rights[q]) \in 1..TierOf(l, rights[p])
                     => q \in FindCandidates(l, rights, within)
  BY TierOfRange DEF FindCandidates

LEMMA NoCandidates ==
    ASSUME NEW l, NEW rights, NEW within
    PROVE  FindCandidates(l, rights, within) = {}
             <=> \A p \in within : TierOf(l, rights[p]) = 0
  <1>1. \A p \in within : TierOf(l, rights[p]) \in 0..3
    BY TierOfRange
  <1> QED BY <1>1 DEF FindCandidates

LEMMA ReasonType ==
    ASSUME NEW l, NEW rights
    PROVE  ClassifyException(l, rights) \in ReasonCode \ {"DUPLICATE_CANDIDATE"}
  BY DEF ClassifyException, ReasonCode

LEMMA ToleranceReflexive ==
    ASSUME NEW a \in Int
    PROVE  WithinAmountTolerance(a, a)
  <1>1. Distance(a, 0) \in Nat
    BY DEF Distance
  <1>2. Distance(a, 0) * ToleranceBp \in Nat
    BY <1>1, MatcherConfigIsNatural
  <1> QED BY <1>2 DEF WithinAmountTolerance, AbsoluteAmountVariance, Distance

-----------------------------------------------------------------------------
(* The bands of the tiers' confidences. *)

LEMMA ProductMonotone ==
    ASSUME NEW k \in Nat, NEW a \in Int, NEW b \in Int, a <= b
    PROVE  k * a <= k * b
  OBVIOUS

\* Rounding stays between whole bounds.
LEMMA HalfUpBetween ==
    ASSUME NEW n \in Int, NEW d \in Nat \ {0}, NEW a \in Int, NEW b \in Int,
           d * a <= n, n <= d * b
    PROVE  HalfUp(n, d) \in a..b
  <1> DEFINE q == HalfUp(n, d)
  <1>1. q \in Int
    BY HalfUpInt
  <1>2. (2 * d) * q <= 2 * n + d /\ 2 * n + d < (2 * d) * (q + 1)
    BY DEF HalfUp
  <1> HIDE DEF q
  <1>3. a <= q
    <2>1. SUFFICES ASSUME q + 1 <= a PROVE FALSE
      BY <1>1
    <2>2. (2 * d) * (q + 1) <= (2 * d) * a
      BY <1>1, <2>1, ProductMonotone
    <2> QED BY <1>1, <1>2, <2>2
  <1>4. q <= b
    <2>1. SUFFICES ASSUME b + 1 <= q PROVE FALSE
      BY <1>1
    <2>2. (2 * d) * (b + 1) <= (2 * d) * q
      BY <1>1, <2>1, ProductMonotone
    <2> QED BY <1>1, <1>2, <2>2
  <1> QED BY <1>1, <1>3, <1>4 DEF q

\* A pair that qualifies at tier 2 scores 0.900 to 0.950: the penalties are at
\* most 0.03 inside the tolerance and 0.02 inside the window.
LEMMA TierTwoBand ==
    ASSUME NEW l \in CanonicalLedgerRecord, NEW r \in CanonicalLedgerRecord,
           IsTierTwo(l, r)
    PROVE  TierTwoConfidence(l, r) \in 900..950
  <1> DEFINE amount == Distance(l.amount, 0)
             days == DateDistance(l.day, r.day)
             span == IF WindowDays > 1 THEN WindowDays ELSE 1
             base == IF l.amount = 0 THEN 1 ELSE amount * ToleranceBp
             variance == IF l.amount = 0 THEN 0
                    ELSE AbsoluteAmountVariance(l.amount, r.amount) * 10000
             whole == base * span
             score == 950 * whole - 30 * variance * span - 20 * days * base
             clamped == IF score < 0 THEN 0
                        ELSE IF score > 1000 * whole THEN 1000 * whole
                        ELSE score
  <1>1. l.amount \in Int /\ r.amount \in Int /\ l.day \in Int /\ r.day \in Int
    BY DEF CanonicalLedgerRecord
  <1>2. l.amount # 0
    BY DEF IsTierTwo, WithinAmountTolerance
  <1>3. amount \in Nat \ {0} /\ days \in Nat /\ variance \in Nat
    BY <1>1, <1>2 DEF Distance, DateDistance, AbsoluteAmountVariance
  <1>4. span \in Nat \ {0} /\ days <= span
    BY <1>3, MatcherConfigIsNatural DEF IsTierTwo, WithinDateWindow
  <1>5. base \in Nat \ {0} /\ variance <= base
    BY <1>2, <1>3, MatcherConfigIsNatural DEF IsTierTwo, WithinAmountTolerance
  <1>6. TierTwoConfidence(l, r) = HalfUp(clamped, whole)
    BY DEF TierTwoConfidence
  <1> HIDE DEF amount, days, span, base, variance
  <1>7. whole \in Nat \ {0}
    BY <1>4, <1>5
  <1>8. span * variance <= span * base /\ base * days <= base * span
    BY <1>3, <1>4, <1>5, ProductMonotone
  <1>9. span * variance \in Nat /\ base * days \in Nat
    BY <1>3, <1>4, <1>5
  <1>10. /\ 30 * variance * span = 30 * (span * variance)
         /\ 20 * days * base = 20 * (base * days)
         /\ span * base = whole
    BY <1>3, <1>4, <1>5
  <1>11. score \in Int /\ whole * 900 <= score /\ score <= whole * 950
    <2>1. score = 950 * whole - 30 * (span * variance) - 20 * (base * days)
      BY <1>10
    <2> HIDE DEF whole, score
    <2> QED BY <1>7, <1>8, <1>9, <1>10, <2>1 DEF whole
  <1> HIDE DEF whole, score
  <1>12. clamped = score
    BY <1>7, <1>11
  <1>13. \A a, b \in Int : whole * a <= score /\ score <= whole * b
            => HalfUp(score, whole) \in a..b
    BY ZenonT(60), <1>7, <1>11, HalfUpBetween
  <1>14. HalfUp(score, whole) \in 900..950
    <2>1. 900 \in Int /\ 950 \in Int
      OBVIOUS
    <2> QED BY <1>11, <1>13, <2>1
  <1> QED BY <1>6, <1>12, <1>14

LEMMA SimilarityBound ==
    ASSUME NEW v \in Description, NEW w \in Description
    PROVE  DescriptionSimilarity(v, w) \in 0..1000
  <1>1. CASE v = {} \/ w = {}
    BY <1>1 DEF DescriptionSimilarity
  <1>2. CASE v # {} /\ w # {}
    <2>1. IsFiniteSet(v \cap w) /\ IsFiniteSet(v \cup w) /\ v \cup w # {}
      BY <1>2, FS_Union, FS_Intersection DEF Description
    <2>2. Cardinality(v \cap w) \in Nat /\ Cardinality(v \cup w) \in Nat \ {0}
      BY <2>1, FS_CardinalityType, FS_EmptySet
    <2>3. v \cap w \subseteq v \cup w
      OBVIOUS
    <2>4. Cardinality(v \cap w) <= Cardinality(v \cup w)
      BY <2>1, <2>3, FS_Subset
    <2> DEFINE n == Cardinality(v \cap w)
               d == Cardinality(v \cup w)
    <2>5. HalfUp(1000 * n, d) \in 0..1000
      <3> HIDE DEF n, d
      <3> SUFFICES ASSUME n \in Nat, d \in Nat \ {0}, n <= d
                   PROVE  HalfUp(1000 * n, d) \in 0..1000
        BY <2>2, <2>4 DEF n, d
      <3>1. PICK m \in Int : m = 1000 * n
        OBVIOUS
      <3>2. \A a, b \in Int : d * a <= m /\ m <= d * b => HalfUp(m, d) \in a..b
        BY HalfUpBetween, Zenon
      <3>3. PICK lo \in Int, hi \in Int : lo = 0 /\ hi = 1000
        OBVIOUS
      <3>4. d * lo <= m /\ m <= d * hi
        BY <3>1, <3>3
      <3>5. HalfUp(m, d) \in lo..hi
        BY <3>2, <3>4, Zenon
      <3> QED BY <3>1, <3>3, <3>5
    <2> QED BY <1>2, <2>5 DEF DescriptionSimilarity
  <1> QED BY <1>1, <1>2

\* With the similarity floor at or above 0.50, tier 3 scores 0.800 to 0.900.
LEMMA TierThreeBand ==
    ASSUME NEW l \in CanonicalLedgerRecord, NEW r \in CanonicalLedgerRecord,
           IsTierThree(l, r), SimilarityFloor >= 500
    PROVE  TierThreeConfidence(Similarity(l, r)) \in 800..900
  <1>1. Similarity(l, r) \in 0..1000
    BY SimilarityBound DEF Similarity, CanonicalLedgerRecord
  <1>2. Similarity(l, r) >= 500
    BY <1>1, MatcherConfigIsNatural DEF IsTierThree
  <1>3. HalfUp(Similarity(l, r), 5) \in 100..200
    BY <1>1, <1>2 DEF HalfUp
  <1> QED BY <1>3 DEF TierThreeConfidence

-----------------------------------------------------------------------------
(* Type correctness. *)

LEMMA DecisionTypes ==
    ASSUME NEW l \in CanonicalLedgerRecord, NEW r \in CanonicalLedgerRecord,
           TierOf(l, r) # 0
    PROVE  MatchDecision(l, r) \in MatchDecisions
  <1>1. /\ l.id \in Line /\ r.id \in Line
        /\ l.amount \in Int /\ r.amount \in Int
    BY DEF CanonicalLedgerRecord
  <1>2. AbsoluteAmountVariance(l.amount, r.amount) \in Int
    BY <1>1 DEF AbsoluteAmountVariance, Distance
  <1>3. TierOf(l, r) \in 1..3
    BY TierOfRange
  <1>4. StatusFor(Confidence(l, r)) \in MatchStatus
    BY DEF StatusFor, MatchStatus
  <1> QED BY <1>1, <1>2, <1>3, <1>4, ConfidenceInt DEF MatchDecision, MatchDecisions

LEMMA TypeInit == Init => TypeOK
  <1> SUFFICES ASSUME Init PROVE TypeOK
    OBVIOUS
  <1>1. <<left, right>> \in Inputs /\ Len(left) \in Nat
    BY InputsAreRecordSequences DEF Init
  <1> QED BY <1>1 DEF Init, TypeOK

\* What the branches of the loop body share.
LEMMA CurrentRecord ==
    ASSUME TypeOK, next <= Len(left)
    PROVE  /\ left \in Seq(CanonicalLedgerRecord)
           /\ right \in Seq(CanonicalLedgerRecord)
           /\ next \in 1..Len(left)
           /\ next + 1 \in 1..(Len(left) + 1)
           /\ left[next] \in CanonicalLedgerRecord
           /\ left[next].id \in Line
           /\ \A p \in DOMAIN right : right[p] \in CanonicalLedgerRecord
  <1>1. left \in Seq(CanonicalLedgerRecord) /\ right \in Seq(CanonicalLedgerRecord)
    BY InputsAreRecordSequences DEF TypeOK
  <1>2. next \in 1..Len(left) /\ next + 1 \in 1..(Len(left) + 1)
    BY <1>1 DEF TypeOK
  <1>3. left[next] \in CanonicalLedgerRecord
    BY <1>1, <1>2
  <1>4. left[next].id \in Line
    BY <1>3 DEF CanonicalLedgerRecord
  <1>5. \A p \in DOMAIN right : right[p] \in CanonicalLedgerRecord
    BY <1>1
  <1> QED BY <1>1, <1>2, <1>3, <1>4, <1>5

LEMMA RaiseTypes ==
    ASSUME TypeOK, next <= Len(left),
           NEW code \in ReasonCode, NEW cause \in ExceptionCause,
           RaiseException(code, cause)
    PROVE  exceptions' \in Seq([at : 1..Len(left), made : ExceptionDecisions])
  <1>1. ExceptionDecision(left[next], code, cause) \in ExceptionDecisions
    BY CurrentRecord DEF ExceptionDecision, ExceptionDecisions
  <1>2. [at |-> next, made |-> ExceptionDecision(left[next], code, cause)]
            \in [at : 1..Len(left), made : ExceptionDecisions]
    BY <1>1, CurrentRecord
  <1> QED BY <1>2 DEF RaiseException, TypeOK

LEMMA TypeStep == TypeOK /\ [Next]_vars => TypeOK'
  <1> SUFFICES ASSUME TypeOK, [Next]_vars PROVE TypeOK'
    OBVIOUS
  <1>1. CASE Ambiguous
    <2>1. exceptions' \in Seq([at : 1..Len(left), made : ExceptionDecisions])
      BY <1>1, RaiseTypes DEF Ambiguous, ReasonCode, ExceptionCause
    <2> QED BY <1>1, <2>1, CurrentRecord DEF Ambiguous, TypeOK, inputVars
  <1>2. CASE MatchSole
    <2>1. PICK p \in DOMAIN right :
              /\ FreeCandidates = {p}
              /\ usedRightIds' = usedRightIds \cup {right[p].id}
              /\ matches' = Append(matches,
                    [at |-> next, made |-> MatchDecision(left[next], right[p])])
      BY <1>2 DEF MatchSole
    <2>9. p \in FindCandidates(left[next], right, Available)
      BY <2>1 DEF FreeCandidates
    <2>10. TierOf(left[next], right[p]) \in 1..3
      BY <2>9, CandidatesAreBestTier
    <2>2. TierOf(left[next], right[p]) # 0
      BY <2>10
    <2>3. next <= Len(left)
      BY <1>2 DEF MatchSole
    <2>4. MatchDecision(left[next], right[p]) \in MatchDecisions
      BY <2>2, <2>3, CurrentRecord, DecisionTypes
    <2>5. right[p].id \in Line
      BY <2>3, CurrentRecord DEF CanonicalLedgerRecord
    <2>6. [at |-> next, made |-> MatchDecision(left[next], right[p])]
              \in [at : 1..Len(left), made : MatchDecisions]
      BY <2>3, <2>4, CurrentRecord
    <2>7. matches' \in Seq([at : 1..Len(left), made : MatchDecisions])
      BY <2>1, <2>6 DEF TypeOK
    <2> QED BY <1>2, <2>1, <2>3, <2>5, <2>7, CurrentRecord
            DEF MatchSole, TypeOK, inputVars
  <1>3. CASE AlreadyConsumed
    <2>1. exceptions' \in Seq([at : 1..Len(left), made : ExceptionDecisions])
      BY <1>3, RaiseTypes DEF AlreadyConsumed, ReasonCode, ExceptionCause
    <2> QED BY <1>3, <2>1, CurrentRecord DEF AlreadyConsumed, TypeOK, inputVars
  <1>4. CASE Unmatched
    <2>1. exceptions' \in Seq([at : 1..Len(left), made : ExceptionDecisions])
      BY <1>4, RaiseTypes, ReasonType DEF Unmatched, ExceptionCause
    <2> QED BY <1>4, <2>1, CurrentRecord DEF Unmatched, TypeOK, inputVars
  <1>5. CASE UNCHANGED vars
    BY <1>5 DEF vars, TypeOK
  <1> QED BY <1>1, <1>2, <1>3, <1>4, <1>5 DEF Next

\* The loop's state stays well typed, on every input.
THEOREM TypeCorrect == Spec => []TypeOK
  BY TypeInit, TypeStep, PTL DEF Spec

-----------------------------------------------------------------------------
(* Safety.  usedRightIds is exactly what the matches so far have taken:    *)
(* without it, a step that finds a right record available cannot conclude  *)
(* that no earlier match holds it.                                         *)

Taken == usedRightIds = TakenBefore(Len(matches) + 1)

Safety ==
    /\ Taken
    /\ RightUsedOnce
    /\ EveryLeftDecidedOnce
    /\ NothingForced
    /\ ContestsAreReal

LEMMA Members ==
    ASSUME NEW S, NEW seq \in Seq(S), NEW k \in DOMAIN seq
    PROVE  seq[k] \in S
  OBVIOUS

LEMMA Appended ==
    ASSUME NEW S, NEW s \in Seq(S), NEW e
    PROVE  /\ Len(s) \in Nat
           /\ DOMAIN s = 1..Len(s)
           /\ DOMAIN Append(s, e) = DOMAIN s \cup {Len(s) + 1}
           /\ Len(s) + 1 \notin DOMAIN s
           /\ Len(Append(s, e)) = Len(s) + 1
           /\ \A j \in DOMAIN s : Append(s, e)[j] = s[j]
           /\ Append(s, e)[Len(s) + 1] = e
  OBVIOUS

\* Every branch that raises an exception leaves the match side alone and adds
\* one decision about the record at `next' to the exceptions.
Raises ==
    /\ next <= Len(left)
    /\ UNCHANGED <<inputVars, usedRightIds, matches>>
    /\ next' = next + 1
    /\ \E code \in ReasonCode, cause \in ExceptionCause :
          RaiseException(code, cause)

LEMMA RaisingBranches ==
    ASSUME Ambiguous \/ AlreadyConsumed \/ Unmatched
    PROVE  Raises
  <1>1. CASE Ambiguous
    BY <1>1 DEF Ambiguous, Raises, ReasonCode, ExceptionCause
  <1>2. CASE AlreadyConsumed
    BY <1>2 DEF AlreadyConsumed, Raises, ReasonCode, ExceptionCause
  <1>3. CASE Unmatched
    BY <1>3, ReasonType DEF Unmatched, Raises, ExceptionCause
  <1> QED BY <1>1, <1>2, <1>3

\* The match branch: the new pair, whose right record is free.
LEMMA MatchStep ==
    ASSUME TypeOK, MatchSole
    PROVE  \E p \in DOMAIN right :
              /\ FreeCandidates = {p}
              /\ p \in Available
              /\ TierOf(left[next], right[p]) \in 1..3
              /\ usedRightIds' = usedRightIds \cup {right[p].id}
              /\ matches' = Append(matches,
                    [at |-> next, made |-> MatchDecision(left[next], right[p])])
  <1>1. PICK p \in DOMAIN right :
              /\ FreeCandidates = {p}
              /\ usedRightIds' = usedRightIds \cup {right[p].id}
              /\ matches' = Append(matches,
                    [at |-> next, made |-> MatchDecision(left[next], right[p])])
    BY DEF MatchSole
  <1>2. p \in FindCandidates(left[next], right, Available)
    BY <1>1 DEF FreeCandidates
  <1>3. p \in Available /\ TierOf(left[next], right[p]) \in 1..3
    BY <1>2, CandidatesAreBestTier
  <1> QED BY <1>1, <1>3

LEMMA TakenStep ==
    ASSUME TypeOK, Taken, [Next]_vars
    PROVE  Taken'
  <1>1. CASE MatchSole
    <2>1. PICK p \in DOMAIN right :
              /\ usedRightIds' = usedRightIds \cup {right[p].id}
              /\ matches' = Append(matches,
                    [at |-> next, made |-> MatchDecision(left[next], right[p])])
      BY <1>1, MatchStep
    <2>2. matches \in Seq([at : 1..Len(left), made : MatchDecisions])
      BY DEF TypeOK
    <2>3. matches'[Len(matches) + 1].made.right = right[p].id
      BY <2>1, <2>2 DEF MatchDecision
    <2>4. \A j \in 1..Len(matches) : matches'[j] = matches[j]
      BY <2>1, <2>2, Appended
    <2>5. Len(matches') = Len(matches) + 1 /\ Len(matches) \in Nat
      BY <2>1, <2>2, Appended
    <2>6. 1..(Len(matches') + 1 - 1) = (1..(Len(matches) + 1 - 1)) \cup {Len(matches) + 1}
      BY <2>5
    <2> QED BY <2>1, <2>3, <2>4, <2>5, <2>6 DEF Taken, TakenBefore
  <1>2. CASE Raises
    BY <1>2 DEF Raises, Taken, TakenBefore
  <1>3. CASE UNCHANGED vars
    BY <1>3 DEF vars, Taken, TakenBefore
  <1> QED BY <1>1, <1>2, <1>3, RaisingBranches DEF Next

LEMMA RightUsedOnceStep ==
    ASSUME TypeOK, Taken, RightUsedOnce, [Next]_vars
    PROVE  RightUsedOnce'
  <1>1. CASE MatchSole
    <2>1. PICK p \in DOMAIN right :
              /\ p \in Available
              /\ matches' = Append(matches,
                    [at |-> next, made |-> MatchDecision(left[next], right[p])])
      BY <1>1, MatchStep
    <2>2. matches \in Seq([at : 1..Len(left), made : MatchDecisions])
      BY DEF TypeOK
    <2>3. \A j \in DOMAIN matches : matches[j].made.right # right[p].id
      BY <2>1, <2>2 DEF Available, Taken, TakenBefore
    <2>4. matches'[Len(matches) + 1].made.right = right[p].id
      BY <2>1, <2>2 DEF MatchDecision
    <2>5. /\ DOMAIN matches' = DOMAIN matches \cup {Len(matches) + 1}
          /\ \A j \in DOMAIN matches : matches'[j] = matches[j]
      BY <2>1, <2>2, Appended
    <2> QED BY <2>3, <2>4, <2>5 DEF RightUsedOnce
  <1>2. CASE Raises
    BY <1>2 DEF Raises, RightUsedOnce
  <1>3. CASE UNCHANGED vars
    BY <1>3 DEF vars, RightUsedOnce
  <1> QED BY <1>1, <1>2, <1>3, RaisingBranches DEF Next

LEMMA EveryLeftDecidedOnceStep ==
    ASSUME TypeOK, EveryLeftDecidedOnce, [Next]_vars
    PROVE  EveryLeftDecidedOnce'
  <1>1. /\ matches \in Seq([at : 1..Len(left), made : MatchDecisions])
        /\ exceptions \in Seq([at : 1..Len(left), made : ExceptionDecisions])
        /\ next \in Int /\ next >= 1 /\ Len(left) \in Int
    BY InputsAreRecordSequences DEF TypeOK
  <1>2. \A k \in DOMAIN matches : matches[k].at \in 1..(next - 1)
    BY DEF EveryLeftDecidedOnce, PositionsOf
  <1>3. \A k \in DOMAIN exceptions : exceptions[k].at \in 1..(next - 1)
    BY DEF EveryLeftDecidedOnce, PositionsOf
  <1>4. 1..(next + 1 - 1) = (1..(next - 1)) \cup {next} /\ next \notin 1..(next - 1)
    BY <1>1
  <1>5. CASE MatchSole
    <2>1. PICK p \in DOMAIN right :
              matches' = Append(matches,
                    [at |-> next, made |-> MatchDecision(left[next], right[p])])
      BY <1>5, MatchStep
    <2>2. /\ DOMAIN matches = 1..Len(matches) /\ Len(matches) \in Nat
          /\ DOMAIN matches' = DOMAIN matches \cup {Len(matches) + 1}
          /\ Len(matches) + 1 \notin DOMAIN matches
          /\ \A j \in DOMAIN matches : matches'[j] = matches[j]
          /\ matches'[Len(matches) + 1].at = next
          /\ matches'[Len(matches) + 1].made.left = left[next].id
      BY <2>1, <1>1, Appended DEF MatchDecision
    <2>3. UNCHANGED <<left, exceptions>> /\ next' = next + 1
      BY <1>5 DEF MatchSole, inputVars
    <2>4. Ascending(matches')
      BY <1>1, <1>2, <2>2 DEF Ascending, EveryLeftDecidedOnce
    <2>5. PositionsOf(matches') = PositionsOf(matches) \cup {next}
      BY <2>2 DEF PositionsOf
    <2>6. \A k \in DOMAIN matches' :
              matches'[k].made.left = left'[matches'[k].at].id
      BY <2>2, <2>3 DEF EveryLeftDecidedOnce
    <2> QED BY <1>4, <2>3, <2>4, <2>5, <2>6 DEF EveryLeftDecidedOnce
  <1>6. CASE Raises
    <2>1. PICK code \in ReasonCode, cause \in ExceptionCause :
              exceptions' = Append(exceptions, [at |-> next,
                  made |-> ExceptionDecision(left[next], code, cause)])
      BY <1>6 DEF Raises, RaiseException
    <2>2. /\ DOMAIN exceptions = 1..Len(exceptions) /\ Len(exceptions) \in Nat
          /\ DOMAIN exceptions' = DOMAIN exceptions \cup {Len(exceptions) + 1}
          /\ Len(exceptions) + 1 \notin DOMAIN exceptions
          /\ \A j \in DOMAIN exceptions : exceptions'[j] = exceptions[j]
          /\ exceptions'[Len(exceptions) + 1].at = next
          /\ exceptions'[Len(exceptions) + 1].made.left = left[next].id
      BY <2>1, <1>1, Appended DEF ExceptionDecision
    <2>3. UNCHANGED <<left, matches>> /\ next' = next + 1
      BY <1>6 DEF Raises, inputVars
    <2>4. Ascending(exceptions')
      BY <1>1, <1>3, <2>2 DEF Ascending, EveryLeftDecidedOnce
    <2>5. PositionsOf(exceptions') = PositionsOf(exceptions) \cup {next}
      BY <2>2 DEF PositionsOf
    <2>6. \A k \in DOMAIN exceptions' :
              exceptions'[k].made.left = left'[exceptions'[k].at].id
      BY <2>2, <2>3 DEF EveryLeftDecidedOnce
    <2> QED BY <1>4, <2>3, <2>4, <2>5, <2>6 DEF EveryLeftDecidedOnce
  <1>7. CASE UNCHANGED vars
    BY <1>7 DEF vars, EveryLeftDecidedOnce
  <1> QED BY <1>5, <1>6, <1>7, RaisingBranches DEF Next

LEMMA NothingForcedStep ==
    ASSUME TypeOK, Taken, NothingForced, [Next]_vars
    PROVE  NothingForced'
  <1>1. CASE MatchSole
    <2>1. PICK p \in DOMAIN right :
              /\ FreeCandidates = {p}
              /\ TierOf(left[next], right[p]) \in 1..3
              /\ matches' = Append(matches,
                    [at |-> next, made |-> MatchDecision(left[next], right[p])])
      BY <1>1, MatchStep
    <2>2. matches \in Seq([at : 1..Len(left), made : MatchDecisions])
      BY DEF TypeOK
    <2>8. PICK n \in Nat \ {0} : n = Len(matches) + 1
      BY <2>2
    <2>3. /\ DOMAIN matches = 1..Len(matches) /\ Len(matches) \in Nat
          /\ DOMAIN matches' = DOMAIN matches \cup {n}
          /\ \A j \in DOMAIN matches : matches'[j] = matches[j]
          /\ matches'[n] = [at |-> next, made |-> MatchDecision(left[next], right[p])]
      BY <2>1, <2>2, <2>8, Appended
    <2>4. UNCHANGED <<left, right>>
      BY <1>1 DEF MatchSole, inputVars
    <2>5. \A k \in 1..n : TakenBefore(k)' = TakenBefore(k)
      BY <2>3, <2>8 DEF TakenBefore
    <2>6. \A k \in DOMAIN matches : Unforced(k)'
      <3> SUFFICES ASSUME NEW k \in DOMAIN matches PROVE Unforced(k)'
        OBVIOUS
      <3>1. Unforced(k) /\ matches'[k] = matches[k] /\ TakenBefore(k)' = TakenBefore(k)
        BY <2>3, <2>5, <2>8 DEF NothingForced
      <3>2. PICK o \in DOMAIN right :
              /\ right[o].id = matches[k].made.right
              /\ TierOf(left[matches[k].at], right[o]) = matches[k].made.tier
              /\ \A q \in DOMAIN right \ {o} :
                    TierOf(left[matches[k].at], right[q])
                            \in 1..matches[k].made.tier
                        => right[q].id \in TakenBefore(k)
        BY <3>1 DEF Unforced
      <3> QED BY <3>1, <3>2, <2>4 DEF Unforced
    <2>7. Unforced(n)'
      <3>1. /\ matches'[n].at = next
            /\ matches'[n].made.right = right[p].id
            /\ matches'[n].made.tier = TierOf(left[next], right[p])
        BY <2>3 DEF MatchDecision
      <3>2. ASSUME NEW q \in DOMAIN right \ {p},
                   TierOf(left[next], right[q]) \in 1..TierOf(left[next], right[p])
            PROVE  right[q].id \in TakenBefore(n)
        <4>1. p \in FindCandidates(left[next], right, Available)
          BY <2>1 DEF FreeCandidates
        <4>2. q \notin FindCandidates(left[next], right, Available)
          BY <2>1 DEF FreeCandidates
        <4>3. q \notin Available
          BY <3>2, <4>1, <4>2, CandidatesAreBestTier
        <4> QED BY <4>3, <2>8 DEF Available, Taken
      <3>3. n \in 1..n /\ TakenBefore(n)' = TakenBefore(n)
        BY <2>3, <2>5
      <3> QED BY <3>1, <3>2, <3>3, <2>4 DEF Unforced
    <2> QED BY <2>3, <2>6, <2>7 DEF NothingForced
  <1>2. CASE Raises
    BY <1>2 DEF Raises, inputVars, NothingForced, Unforced, TakenBefore
  <1>3. CASE UNCHANGED vars
    BY <1>3 DEF vars, NothingForced, Unforced, TakenBefore
  <1> QED BY <1>1, <1>2, <1>3, RaisingBranches DEF Next

LEMMA ContestsAreRealStep ==
    ASSUME TypeOK, Taken, EveryLeftDecidedOnce, ContestsAreReal, [Next]_vars
    PROVE  ContestsAreReal'
  <1>1. /\ matches \in Seq([at : 1..Len(left), made : MatchDecisions])
        /\ exceptions \in Seq([at : 1..Len(left), made : ExceptionDecisions])
        /\ right \in Seq(CanonicalLedgerRecord)
        /\ next \in Int
    BY InputsAreRecordSequences DEF TypeOK
  <1>2. \A k \in DOMAIN matches : matches[k].at < next
    <2>1. \A k \in DOMAIN matches : matches[k].at \in 1..(next - 1)
      BY DEF EveryLeftDecidedOnce, PositionsOf
    <2> QED BY <1>1, <2>1
  <1>3. CASE MatchSole
    <2>1. PICK m : matches' = Append(matches, m)
      BY <1>3, MatchStep
    <2>2. /\ DOMAIN matches \subseteq DOMAIN matches'
          /\ \A j \in DOMAIN matches : matches'[j] = matches[j]
      BY <1>1, <2>1, Appended
    <2>3. UNCHANGED <<left, right, exceptions>>
      BY <1>3 DEF MatchSole, inputVars
    <2> QED BY <2>2, <2>3 DEF ContestsAreReal, RealContest, CompatiblePositions
  <1>4. ASSUME Raises,
               NEW code \in ReasonCode, NEW cause \in ExceptionCause,
               RaiseException(code, cause),
               code = "DUPLICATE_CANDIDATE" <=> AnyCandidates # {},
               cause = "unmatched" <=> AnyCandidates = {},
               cause = "several-free" => Cardinality(FreeCandidates) > 1,
               cause = "already-consumed" => FreeCandidates = {}
        PROVE  ContestsAreReal'
    <2>1. PICK n \in Nat \ {0} : n = Len(exceptions) + 1
      BY <1>1
    <2>2. /\ DOMAIN exceptions' = DOMAIN exceptions \cup {n}
          /\ \A k \in DOMAIN exceptions : exceptions'[k] = exceptions[k]
          /\ exceptions'[n].at = next
          /\ exceptions'[n].made.code = code
          /\ exceptions'[n].made.cause = cause
      BY <1>1, <1>4, <2>1, Appended DEF RaiseException, ExceptionDecision
    <2>3. UNCHANGED <<left, right, matches>>
      BY <1>4 DEF Raises, inputVars
    <2>4. ASSUME NEW k \in DOMAIN exceptions PROVE RealContest(k)'
      <3>1. RealContest(k) /\ exceptions'[k] = exceptions[k]
        BY <2>2 DEF ContestsAreReal
      <3> QED BY <2>3, <3>1 DEF RealContest, CompatiblePositions
    <2> DEFINE compatible == CompatiblePositions(left[next])
    <2>5. AnyCandidates = {} <=> compatible = {}
      BY NoCandidates, TierOfRange DEF AnyCandidates, CompatiblePositions
    <2>6. ASSUME Cardinality(FreeCandidates) > 1
          PROVE  Cardinality(compatible) > 1
      <3>1. FreeCandidates \subseteq compatible
        BY CandidatesAreBestTier DEF FreeCandidates, CompatiblePositions, Available
      <3>2. IsFiniteSet(compatible)
        <4>1. DOMAIN right = 1..Len(right) /\ Len(right) \in Nat
          BY <1>1
        <4>2. IsFiniteSet(DOMAIN right)
          BY <4>1, FS_Interval
        <4>3. compatible \subseteq DOMAIN right
          BY DEF CompatiblePositions
        <4> QED BY <4>2, <4>3, FS_Subset
      <3>3. Cardinality(FreeCandidates) <= Cardinality(compatible)
        BY <3>1, <3>2, FS_Subset
      <3>4. Cardinality(FreeCandidates) \in Int /\ Cardinality(compatible) \in Int
        BY <3>1, <3>2, FS_Subset, FS_CardinalityType
      <3> QED BY <2>6, <3>3, <3>4
    <2>7. ASSUME FreeCandidates = {}, NEW p \in compatible
          PROVE  \E j \in DOMAIN matches :
                    /\ matches[j].made.right = right[p].id
                    /\ matches[j].at < next
      <3>1. p \notin Available /\ p \in DOMAIN right
        BY <2>7, NoCandidates DEF FreeCandidates, CompatiblePositions
      <3>2. right[p].id \in TakenBefore(Len(matches) + 1)
        BY <3>1 DEF Available, Taken
      <3>3. \E j \in DOMAIN matches : matches[j].made.right = right[p].id
        BY SMTT(40), <1>1, <3>2 DEF TakenBefore
      <3> QED BY <1>2, <3>3
    <2>8. RealContest(n)'
      BY <1>4, <2>2, <2>3, <2>5, <2>6, <2>7 DEF RealContest, CompatiblePositions
    <2> QED BY <2>2, <2>4, <2>8 DEF ContestsAreReal
  <1>5. CASE Ambiguous
    <2>1. FreeCandidates # {}
      BY <1>5, FS_EmptySet DEF Ambiguous
    <2>2. AnyCandidates # {}
      <3>1. \E p \in Available : TierOf(left[next], right[p]) # 0
        BY <2>1, NoCandidates DEF FreeCandidates
      <3> QED BY <3>1, NoCandidates DEF AnyCandidates, Available
    <2> QED BY <1>4, <1>5, <2>2, RaisingBranches
            DEF Ambiguous, ReasonCode, ExceptionCause
  <1>6. CASE AlreadyConsumed
    BY <1>4, <1>6, RaisingBranches DEF AlreadyConsumed, ReasonCode, ExceptionCause
  <1>7. CASE Unmatched
    BY <1>4, <1>7, RaisingBranches, ReasonType DEF Unmatched, ExceptionCause
  <1>8. CASE UNCHANGED vars
    BY <1>8 DEF vars, ContestsAreReal, RealContest, CompatiblePositions
  <1> QED BY <1>3, <1>5, <1>6, <1>7, <1>8 DEF Next

\* _classify_exception is right about a record that has no candidate.
LEMMA ReasonOfUnmatched ==
    ASSUME right \in Seq(CanonicalLedgerRecord), NEW l \in CanonicalLedgerRecord,
           FindCandidates(l, right, DOMAIN right) = {}
    PROVE  ReasonHolds(ClassifyException(l, right), l)
  <1>1. \A p \in DOMAIN right : /\ ~IsTierOne(l, right[p])
                               /\ ~IsTierTwo(l, right[p])
    <2> SUFFICES ASSUME NEW p \in DOMAIN right
                 PROVE  ~IsTierOne(l, right[p]) /\ ~IsTierTwo(l, right[p])
      OBVIOUS
    <2>1. TierOf(l, right[p]) = 0
      BY NoCandidates
    <2> QED BY <2>1 DEF TierOf
  <1>2. \A p \in DOMAIN right : right[p] \in CanonicalLedgerRecord
    OBVIOUS
  <1>3. \A p \in DOMAIN right :
            ~WithinAmountTolerance(l.amount, right[p].amount)
                => l.amount # right[p].amount
    BY <1>2, ToleranceReflexive DEF CanonicalLedgerRecord
  <1>4. Len(right) \in Nat /\ DOMAIN right = 1..Len(right)
    OBVIOUS
  <1>5. DOMAIN right # {} => Len(right) > 0
    BY <1>4
  <1>6. DOMAIN right = {} => right = <<>>
    OBVIOUS
  <1> DEFINE refs == {p \in DOMAIN right : SameReference(l, right[p])}
             money == {p \in DOMAIN right : right[p].currency = l.currency}
  <1>7. CASE l.transit
    BY <1>7 DEF ClassifyException, ReasonHolds
  <1>8. CASE ~l.transit /\ ~(refs \subseteq money)
    BY <1>5, <1>8 DEF ClassifyException, ReasonHolds
  <1>9. CASE /\ ~l.transit /\ refs \subseteq money
             /\ \E p \in refs : ~WithinAmountTolerance(l.amount, right[p].amount)
    BY <1>3, <1>9 DEF ClassifyException, ReasonHolds
  <1>10. CASE /\ ~l.transit /\ refs \subseteq money
              /\ \A p \in refs : WithinAmountTolerance(l.amount, right[p].amount)
              /\ \E p \in refs : ~WithinDateWindow(l.day, right[p].day)
    <2>1. ClassifyException(l, right) = "DATE_VARIANCE_EXCEEDS_WINDOW"
      BY <1>10 DEF ClassifyException
    <2>2. \A p \in refs : l.amount # right[p].amount
      BY <1>1, <1>10 DEF IsTierOne
    <2> QED BY <1>10, <2>1, <2>2 DEF ReasonHolds
  <1>11. CASE /\ ~l.transit /\ refs \subseteq money
              /\ \A p \in refs : WithinAmountTolerance(l.amount, right[p].amount)
              /\ \A p \in refs : WithinDateWindow(l.day, right[p].day)
    <2>1. refs = {}
      BY <1>1, <1>11 DEF IsTierOne, IsTierTwo
    <2>2. CASE money = {}
      BY <1>5, <1>6, <1>11, <2>1, <2>2 DEF ClassifyException, ReasonHolds
    <2>3. CASE money # {} /\ l.ref # NoRef
      BY <1>11, <2>1, <2>3 DEF ClassifyException, ReasonHolds
    <2>4. CASE money # {} /\ l.ref = NoRef
      BY <1>11, <2>1, <2>4 DEF ClassifyException, ReasonHolds
    <2> QED BY <2>2, <2>3, <2>4
  <1> QED BY <1>7, <1>8, <1>9, <1>10, <1>11

LEMMA ReasonsAreTrueStep ==
    ASSUME TypeOK, ReasonsAreTrue, [Next]_vars
    PROVE  ReasonsAreTrue'
  <1>1. exceptions \in Seq([at : 1..Len(left), made : ExceptionDecisions])
    BY DEF TypeOK
  <1>2. ASSUME Raises, NEW code, NEW cause, RaiseException(code, cause),
               ReasonHolds(code, left[next])
        PROVE  ReasonsAreTrue'
    <2>1. PICK n \in Nat \ {0} : n = Len(exceptions) + 1
      BY <1>1
    <2>2. /\ DOMAIN exceptions' = DOMAIN exceptions \cup {n}
          /\ \A k \in DOMAIN exceptions : exceptions'[k] = exceptions[k]
          /\ exceptions'[n].at = next
          /\ exceptions'[n].made.code = code
      BY <1>1, <1>2, <2>1, Appended DEF RaiseException, ExceptionDecision
    <2>3. UNCHANGED <<left, right>>
      BY <1>2 DEF Raises, inputVars
    <2>4. \A c, l : ReasonHolds(c, l)' <=> ReasonHolds(c, l)
      BY <2>3 DEF ReasonHolds
    <2> QED BY <1>2, <2>2, <2>3, <2>4 DEF ReasonsAreTrue
  <1>3. CASE MatchSole
    BY SMTT(40), <1>3 DEF MatchSole, inputVars, ReasonsAreTrue, ReasonHolds
  <1>4. CASE Ambiguous
    BY <1>2, <1>4, RaisingBranches DEF Ambiguous, ReasonHolds
  <1>5. CASE AlreadyConsumed
    BY <1>2, <1>5, RaisingBranches DEF AlreadyConsumed, ReasonHolds
  <1>6. CASE Unmatched
    <2>1. ReasonHolds(ClassifyException(left[next], right), left[next])
      BY <1>6, CurrentRecord, ReasonOfUnmatched DEF Unmatched, AnyCandidates
    <2> QED BY <1>2, <1>6, <2>1, RaisingBranches DEF Unmatched
  <1>7. CASE UNCHANGED vars
    BY <1>7 DEF vars, ReasonsAreTrue, ReasonHolds
  <1> QED BY <1>3, <1>4, <1>5, <1>6, <1>7 DEF Next

LEMMA SafetyInit == Init => Safety
  BY DEF Init, Safety, Taken, TakenBefore, RightUsedOnce, EveryLeftDecidedOnce,
         Ascending, PositionsOf, NothingForced, ContestsAreReal

LEMMA SafetyStep == TypeOK /\ Safety /\ [Next]_vars => Safety'
  BY TakenStep, RightUsedOnceStep, EveryLeftDecidedOnceStep, NothingForcedStep,
     ContestsAreRealStep DEF Safety

LEMMA SafetyAlways == Spec => []Safety
  BY TypeInit, TypeStep, SafetyInit, SafetyStep, PTL DEF Spec

\* Reconciliation is one-to-one on the right, whatever the inputs repeat.
THEOREM OneToOne == Spec => []RightUsedOnce
  BY SafetyAlways, PTL DEF Safety

\* Every left record is matched or reported, once, in order.
THEOREM Accounting == Spec => []EveryLeftDecidedOnce
  BY SafetyAlways, PTL DEF Safety

\* A match is never forced: rivals at its tier or better had all been taken.
THEOREM MatchesAreEarned == Spec => []NothingForced
  BY SafetyAlways, PTL DEF Safety

\* A record with a compatible counterpart is reported as a contest, and only
\* such a record is.
THEOREM ContestsReported == Spec => []ContestsAreReal
  BY SafetyAlways, PTL DEF Safety

\* A reason code is true of the right records it was given for.
THEOREM ReasonsTrue == Spec => []ReasonsAreTrue
  <1>1. Init => ReasonsAreTrue
    BY DEF Init, ReasonsAreTrue
  <1>2. TypeOK /\ ReasonsAreTrue /\ [Next]_vars => ReasonsAreTrue'
    BY ReasonsAreTrueStep
  <1> QED BY <1>1, <1>2, TypeInit, TypeStep, PTL DEF Spec

LEMMA MatchBands ==
    ASSUME NEW l \in CanonicalLedgerRecord, NEW r \in CanonicalLedgerRecord,
           TierOf(l, r) # 0, AutoAccept <= 900, SimilarityFloor >= 500
    PROVE  InItsBand(MatchDecision(l, r))
  <1>1. CASE IsTierOne(l, r)
    <2>1. TierOf(l, r) = 1
      BY <1>1 DEF TierOf
    <2>2. Confidence(l, r) = 1000 /\ StatusFor(1000) = "auto-matched"
      BY <2>1, MatcherConfigIsNatural DEF Confidence, StatusFor
    <2> QED BY <2>1, <2>2 DEF MatchDecision, InItsBand
  <1>2. CASE ~IsTierOne(l, r) /\ IsTierTwo(l, r)
    <2>1. TierOf(l, r) = 2
      BY <1>2 DEF TierOf
    <2>2. Confidence(l, r) \in 900..950
      BY <1>2, <2>1, TierTwoBand DEF Confidence
    <2>3. StatusFor(Confidence(l, r)) = "auto-matched"
      BY <2>2, MatcherConfigIsNatural DEF StatusFor
    <2> QED BY <2>1, <2>2, <2>3 DEF MatchDecision, InItsBand
  <1>3. CASE ~IsTierOne(l, r) /\ ~IsTierTwo(l, r)
    <2>1. TierOf(l, r) = 3 /\ IsTierThree(l, r)
      BY <1>3 DEF TierOf
    <2>2. Confidence(l, r) \in 800..900
      BY <2>1, TierThreeBand DEF Confidence
    <2> QED BY <2>1, <2>2 DEF MatchDecision, InItsBand
  <1> QED BY <1>1, <1>2, <1>3

\* With the thresholds the engine runs with (auto-accept at most 0.90, floor
\* at least 0.50), only tier 3 is ever left to a reviewer and the bands of the
\* three tiers' confidences do not cross, for every pair of records.
THEOREM ReviewIsTierThree ==
    ASSUME AutoAccept <= 900, SimilarityFloor >= 500
    PROVE  Spec => []OnlyTierThreeIsReviewed
  <1>1. Init => OnlyTierThreeIsReviewed
    BY DEF Init, OnlyTierThreeIsReviewed
  <1>2. ASSUME TypeOK, OnlyTierThreeIsReviewed, [Next]_vars
        PROVE  OnlyTierThreeIsReviewed'
    <2>1. CASE MatchSole
      <3>1. PICK p \in DOMAIN right :
              /\ TierOf(left[next], right[p]) \in 1..3
              /\ matches' = Append(matches,
                    [at |-> next, made |-> MatchDecision(left[next], right[p])])
        BY <1>2, <2>1, MatchStep
      <3>2. matches \in Seq([at : 1..Len(left), made : MatchDecisions])
        BY <1>2 DEF TypeOK
      <3>3. left[next] \in CanonicalLedgerRecord /\ right[p] \in CanonicalLedgerRecord
        BY <1>2, <2>1, CurrentRecord DEF MatchSole
      <3>4. TierOf(left[next], right[p]) # 0
        BY <3>1
      <3>5. /\ DOMAIN matches' = DOMAIN matches \cup {Len(matches) + 1}
            /\ \A k \in DOMAIN matches : matches'[k] = matches[k]
            /\ matches'[Len(matches) + 1].made = MatchDecision(left[next], right[p])
        BY <3>1, <3>2, Appended
      <3> QED BY <1>2, <3>3, <3>4, <3>5, MatchBands DEF OnlyTierThreeIsReviewed
    <2>2. CASE Raises
      BY <1>2, <2>2 DEF Raises, OnlyTierThreeIsReviewed
    <2>3. CASE UNCHANGED vars
      BY <1>2, <2>3 DEF vars, OnlyTierThreeIsReviewed
    <2> QED BY <1>2, <2>1, <2>2, <2>3, RaisingBranches DEF Next
  <1> QED BY <1>1, <1>2, TypeInit, TypeStep, PTL DEF Spec

-----------------------------------------------------------------------------
(* The loop implements module Assignment. *)

LEMMA AssignmentInitially == Init => Abstract!AssignmentInit
  BY DEF Init, Abstract!AssignmentInit, MatchedPairs, ExceptedFor

\* The mapped variables split the decisions, so what is settled in the
\* abstract state is what the loop has scanned.
LEMMA SettledIsScanned ==
    ASSUME TypeOK, EveryLeftDecidedOnce
    PROVE  Abstract!Settled = 1..(next - 1)
  <1>1. PositionsOf(matches) = {pair[1] : pair \in MatchedPairs}
    <2>1. ASSUME NEW k \in DOMAIN matches
          PROVE  matches[k].at \in {pair[1] : pair \in MatchedPairs}
      <3>1. <<matches[k].at, matches[k].made.right>> \in MatchedPairs
        BY DEF MatchedPairs
      <3>2. <<matches[k].at, matches[k].made.right>>[1] = matches[k].at
        OBVIOUS
      <3> QED BY <3>1, <3>2, Zenon
    <2>2. ASSUME NEW pair \in MatchedPairs
          PROVE  \E k \in DOMAIN matches : pair[1] = matches[k].at
      BY DEF MatchedPairs
    <2> QED BY <2>1, <2>2 DEF PositionsOf
  <1>2. PositionsOf(exceptions)
            = ExceptedFor({"unmatched"})
                \cup ExceptedFor({"several-free", "already-consumed"})
    <2>1. \A k \in DOMAIN exceptions : exceptions[k].made.cause
              \in {"unmatched"} \cup {"several-free", "already-consumed"}
      <3>1. exceptions \in Seq([at : 1..Len(left), made : ExceptionDecisions])
        BY DEF TypeOK
      <3>2. ASSUME NEW k \in DOMAIN exceptions
            PROVE  exceptions[k] \in [at : 1..Len(left), made : ExceptionDecisions]
        <4> DEFINE Entry == [at : 1..Len(left), made : ExceptionDecisions]
        <4>1. exceptions \in Seq(Entry)
          BY <3>1
        <4> HIDE DEF Entry
        <4>2. exceptions[k] \in Entry
          BY <4>1
        <4> QED BY <4>2 DEF Entry
      <3>3. \A k \in DOMAIN exceptions : exceptions[k].made \in ExceptionDecisions
        BY <3>2
      <3> QED BY <3>3 DEF ExceptionDecisions, ExceptionCause
    <2>2. \A S, x : x \in ExceptedFor(S)
              <=> \E k \in DOMAIN exceptions :
                     exceptions[k].made.cause \in S /\ x = exceptions[k].at
      BY DEF ExceptedFor
    <2>3. \A x : x \in PositionsOf(exceptions)
              <=> \E k \in DOMAIN exceptions : x = exceptions[k].at
      BY DEF PositionsOf
    <2>4. \A x : x \in PositionsOf(exceptions)
              <=> \/ x \in ExceptedFor({"unmatched"})
                  \/ x \in ExceptedFor({"several-free", "already-consumed"})
      <3> SUFFICES ASSUME NEW x
                   PROVE  x \in PositionsOf(exceptions)
              <=> \/ x \in ExceptedFor({"unmatched"})
                  \/ x \in ExceptedFor({"several-free", "already-consumed"})
        OBVIOUS
      <3>1. x \in ExceptedFor({"unmatched"})
              <=> \E k \in DOMAIN exceptions :
                     exceptions[k].made.cause = "unmatched" /\ x = exceptions[k].at
        BY <2>2
      <3>2. x \in ExceptedFor({"several-free", "already-consumed"})
              <=> \E k \in DOMAIN exceptions :
                     /\ exceptions[k].made.cause \in {"several-free", "already-consumed"}
                     /\ x = exceptions[k].at
        BY <2>2
      <3> QED BY <2>1, <2>3, <3>1, <3>2
    <2> QED BY <2>4
  <1> QED BY <1>1, <1>2 DEF EveryLeftDecidedOnce, Abstract!Settled

LEMMA AssignmentStep ==
    ASSUME TypeOK, Safety, Safety', [Next]_vars
    PROVE  [Abstract!AssignmentNext]_Abstract!assignmentVars
  <1>1. /\ matches \in Seq([at : 1..Len(left), made : MatchDecisions])
        /\ exceptions \in Seq([at : 1..Len(left), made : ExceptionDecisions])
    BY DEF TypeOK
  <1>2. ASSUME next <= Len(left)
        PROVE  /\ next \in Abstract!Claims \ Abstract!Settled
               /\ next \in DOMAIN left
    <2>1. next \in 1..Len(left) /\ left \in Seq(CanonicalLedgerRecord)
      BY <1>2, CurrentRecord
    <2>2. next \in DOMAIN left /\ next \notin 1..(next - 1)
      BY <2>1
    <2> QED BY <2>2, SettledIsScanned DEF Safety, Abstract!Claims
  <1>3. CASE MatchSole
    <2>1. PICK p \in DOMAIN right :
              /\ p \in Available
              /\ TierOf(left[next], right[p]) \in 1..3
              /\ usedRightIds' = usedRightIds \cup {right[p].id}
              /\ matches' = Append(matches,
                    [at |-> next, made |-> MatchDecision(left[next], right[p])])
      BY <1>3, MatchStep
    <2>2. next <= Len(left) /\ UNCHANGED <<left, right, exceptions>>
      BY <1>3 DEF MatchSole, inputVars
    <2>3. /\ DOMAIN matches' = DOMAIN matches \cup {Len(matches) + 1}
          /\ \A k \in DOMAIN matches : matches'[k] = matches[k]
          /\ matches'[Len(matches) + 1].at = next
          /\ matches'[Len(matches) + 1].made.right = right[p].id
      BY <1>1, <2>1, Appended DEF MatchDecision
    <2>4. MatchedPairs' = MatchedPairs \cup {<<next, right[p].id>>}
      BY <2>3 DEF MatchedPairs
    <2>5. right[p].id \in PartnersOf(left[next])
      BY <2>1 DEF PartnersOf
    <2>6. right[p].id \notin Abstract!Held
      <3>1. \A k \in DOMAIN matches : matches[k].made.right # right[p].id
        BY <1>1, <2>1 DEF Available, Safety, Taken, TakenBefore
      <3> QED BY <3>1 DEF Abstract!Held, MatchedPairs
    <2>7. Abstract!Pair(next, right[p].id)
      BY <2>2, <2>4, <2>6 DEF Abstract!Pair, ExceptedFor, PartnersOf
    <2> QED BY <1>2, <2>2, <2>5, <2>7 DEF Abstract!AssignmentNext
  <1>4. ASSUME Raises,
               NEW code, NEW cause \in ExceptionCause, RaiseException(code, cause)
        PROVE  /\ next <= Len(left)
               /\ UNCHANGED <<left, right, matches>>
               /\ \A S : ExceptedFor(S)' = IF cause \in S
                     THEN ExceptedFor(S) \cup {next} ELSE ExceptedFor(S)
    <2>1. UNCHANGED <<left, right, matches>> /\ next <= Len(left)
      BY <1>4 DEF Raises, inputVars
    <2>2. /\ DOMAIN exceptions' = DOMAIN exceptions \cup {Len(exceptions) + 1}
          /\ \A k \in DOMAIN exceptions : exceptions'[k] = exceptions[k]
          /\ Len(exceptions) + 1 \notin DOMAIN exceptions
          /\ exceptions'[Len(exceptions) + 1].at = next
          /\ exceptions'[Len(exceptions) + 1].made.cause = cause
      BY <1>1, <1>4, Appended DEF RaiseException, ExceptionDecision
    <2>3. ASSUME NEW S
          PROVE  ExceptedFor(S)' = IF cause \in S
                     THEN ExceptedFor(S) \cup {next} ELSE ExceptedFor(S)
      BY <2>2 DEF ExceptedFor
    <2> QED BY <2>1, <2>3
  <1>5. PartnersOf(left[next]) = {} <=> AnyCandidates = {}
    BY SMTT(40), NoCandidates, TierOfRange DEF AnyCandidates, PartnersOf
  <1>6. CASE Ambiguous \/ AlreadyConsumed
    <2>1. PICK cause \in {"several-free", "already-consumed"} :
              RaiseException("DUPLICATE_CANDIDATE", cause)
      BY <1>6 DEF Ambiguous, AlreadyConsumed
    <2>2. /\ next <= Len(left)
          /\ UNCHANGED <<left, right, matches>>
          /\ ExceptedFor({"unmatched"})' = ExceptedFor({"unmatched"})
          /\ ExceptedFor({"several-free", "already-consumed"})'
                = ExceptedFor({"several-free", "already-consumed"}) \cup {next}
      BY <1>4, <1>6, <2>1, RaisingBranches DEF ExceptionCause
    <2>3. AnyCandidates # {}
      <3>1. CASE Ambiguous
        <4>1. FreeCandidates # {}
          BY <3>1, FS_EmptySet DEF Ambiguous
        <4>2. \E p \in Available : TierOf(left[next], right[p]) # 0
          BY <4>1, NoCandidates DEF FreeCandidates
        <4> QED BY <4>2, NoCandidates DEF AnyCandidates, Available
      <3>2. CASE AlreadyConsumed
        BY <3>2 DEF AlreadyConsumed
      <3> QED BY <1>6, <3>1, <3>2
    <2>4. Abstract!SetAsideContested(next)
      BY <1>2, <1>5, <2>2, <2>3
         DEF Abstract!SetAsideContested, MatchedPairs, PartnersOf
    <2> QED BY <1>2, <2>2, <2>4 DEF Abstract!AssignmentNext
  <1>7. CASE Unmatched
    <2>1. RaiseException(ClassifyException(left[next], right), "unmatched")
      BY <1>7 DEF Unmatched
    <2>2. /\ next <= Len(left)
          /\ UNCHANGED <<left, right, matches>>
          /\ ExceptedFor({"unmatched"})' = ExceptedFor({"unmatched"}) \cup {next}
          /\ ExceptedFor({"several-free", "already-consumed"})'
                = ExceptedFor({"several-free", "already-consumed"})
      BY <1>4, <1>7, <2>1, RaisingBranches DEF ExceptionCause
    <2>3. AnyCandidates = {}
      BY <1>7 DEF Unmatched
    <2>4. Abstract!SetAsideUncontested(next)
      BY <1>2, <1>5, <2>2, <2>3
         DEF Abstract!SetAsideUncontested, MatchedPairs, PartnersOf
    <2> QED BY <1>2, <2>2, <2>4 DEF Abstract!AssignmentNext
  <1>8. CASE UNCHANGED vars
    BY <1>8 DEF vars, Abstract!assignmentVars, MatchedPairs, ExceptedFor, PartnersOf
  <1> QED BY <1>3, <1>6, <1>7, <1>8 DEF Next

\* The greedy, tiered, order-dependent loop is an implementation of the
\* one-to-one assignment, for every input and configuration.
THEOREM LoopImplementsAssignment == Spec => ImplementsAssignment
  <1>1. TypeOK /\ Safety /\ Safety' /\ [Next]_vars
            => [Abstract!AssignmentNext]_Abstract!assignmentVars
    BY AssignmentStep
  <1> QED BY <1>1, AssignmentInitially, TypeInit, TypeStep, SafetyInit, SafetyStep,
             PTL DEF Spec, ImplementsAssignment, Abstract!AssignmentSpec

-----------------------------------------------------------------------------
(* The loop as a function.  DecidedAfter is a recursion over the left      *)
(* records; that it defines a function at all, and what that is, follow by *)
(* induction.  The library's induction theorems are about operators; its   *)
(* WFMin is about sets, and gives induction for sets of numbers.           *)

\* A set of numbers has a least one.
LEMMA LeastNatural ==
    ASSUME NEW T \in SUBSET Nat, T # {}
    PROVE  \E n \in T : \A m \in T : n <= m
<1>1. PICK Less : /\ IsWellFoundedOn(Less, Nat)
                  /\ \A x, y \in Nat : <<y, x>> \in Less <=> y < x
  <2>1. \A x, y \in Nat : <<y, x>> \in OpToRel(<, Nat) <=> y < x
    BY DEF OpToRel
  <2> QED
    BY <2>1, NatLessThanWellFounded, Zenon
<1>2. PICK n \in T : \A m \in T : ~(<<m, n>> \in Less)
  BY <1>1, WFMin
<1>3. \A m \in T : ~(m < n)
  BY <1>1, <1>2
<1> QED
  BY <1>3

\* A set of numbers that has 0, and with each number the next, has them all.
LEMMA Induction ==
    ASSUME NEW T \in SUBSET Nat, 0 \in T, \A n \in T : n + 1 \in T
    PROVE  T = Nat
<1>1. SUFFICES ASSUME Nat \ T # {} PROVE FALSE
  OBVIOUS
<1>2. PICK n \in Nat \ T : \A m \in Nat \ T : n <= m
  BY <1>1, LeastNatural
<1>3. n # 0 /\ n - 1 \in Nat
  BY <1>2
<1>4. n - 1 \in T
  BY <1>2, <1>3
<1> QED
  BY <1>2, <1>4

\* The recursion of DecidedAfter, as a condition on a function.
Follows(done, lefts, rights, domain) ==
    done = [n \in domain |-> IF n = 0 THEN NothingDecided
                             ELSE Decide(done[n - 1], lefts[n], rights)]

\* Two functions that follow the recursion agree where both are defined.
LEMMA FollowersAgree ==
    ASSUME NEW lefts, NEW rights, NEW m \in Nat, NEW n \in Nat, m <= n,
           NEW f, Follows(f, lefts, rights, 0..m),
           NEW g, Follows(g, lefts, rights, 0..n)
    PROVE  \A k \in 0..m : f[k] = g[k]
<1> DEFINE T == {k \in Nat : k <= m => f[k] = g[k]}
<1>1. f[0] = NothingDecided /\ g[0] = NothingDecided
  BY DEF Follows
<1>2. 0 \in T
  BY <1>1
<1>3. ASSUME NEW k \in T PROVE k + 1 \in T
  <2>1. CASE k + 1 <= m
    <3>1. f[k + 1] = Decide(f[k], lefts[k + 1], rights)
      BY <2>1 DEF Follows
    <3>2. g[k + 1] = Decide(g[k], lefts[k + 1], rights)
      BY <2>1 DEF Follows
    <3> QED
      BY <2>1, <3>1, <3>2
  <2>2. CASE ~(k + 1 <= m)
    BY <2>2
  <2> QED
    BY <2>1, <2>2
<1>4. T = Nat
  <2> HIDE DEF T
  <2>1. T \in SUBSET Nat
    BY DEF T
  <2> QED
    BY <1>2, <1>3, <2>1, Induction
<1> QED
  BY <1>4

\* There is one for every number of records.
LEMMA FollowersExist ==
    ASSUME NEW lefts, NEW rights
    PROVE  \A n \in Nat : \E f : Follows(f, lefts, rights, 0..n)
<1> DEFINE T == {n \in Nat : \E f : Follows(f, lefts, rights, 0..n)}
<1>1. 0 \in T
  <2>1. Follows([k \in 0..0 |-> NothingDecided], lefts, rights, 0..0)
    BY DEF Follows
  <2> QED
    BY <2>1
<1>2. ASSUME NEW n \in T PROVE n + 1 \in T
  <2>1. PICK f : Follows(f, lefts, rights, 0..n)
    OBVIOUS
  <2>2. PICK g : g = [k \in 0..(n + 1) |-> IF k <= n THEN f[k]
                             ELSE Decide(f[n], lefts[n + 1], rights)]
    OBVIOUS
  <2>3. \A k \in 0..(n + 1) :
           g[k] = IF k = 0 THEN NothingDecided
                  ELSE Decide(g[k - 1], lefts[k], rights)
    <3> SUFFICES ASSUME NEW k \in 0..(n + 1)
                 PROVE  g[k] = IF k = 0 THEN NothingDecided
                               ELSE Decide(g[k - 1], lefts[k], rights)
      OBVIOUS
    <3>1. CASE k = 0
      BY <2>1, <2>2, <3>1 DEF Follows
    <3>2. CASE k # 0 /\ k <= n
      <4>1. f[k] = Decide(f[k - 1], lefts[k], rights)
        BY <2>1, <3>2 DEF Follows
      <4>2. g[k] = f[k] /\ g[k - 1] = f[k - 1]
        BY <2>2, <3>2
      <4> QED
        BY <3>2, <4>1, <4>2
    <3>3. CASE k = n + 1
      <4>1. g[k] = Decide(f[n], lefts[n + 1], rights) /\ g[k - 1] = f[n] /\ k # 0
        BY <2>2, <3>3
      <4> QED
        BY <3>3, <4>1
    <3> QED
      BY <3>1, <3>2, <3>3
  <2>4. Follows(g, lefts, rights, 0..(n + 1))
    BY <2>2, <2>3 DEF Follows
  <2> QED
    BY <2>4
<1>3. T = Nat
  <2> HIDE DEF T
  <2>1. T \in SUBSET Nat
    BY DEF T
  <2> QED
    BY <1>1, <1>2, <2>1, Induction
<1> QED
  BY <1>3

\* So the recursion does define a function, and it unfolds.
LEMMA DecidedUnfolds ==
    ASSUME NEW lefts, NEW rights
    PROVE  /\ DecidedAfter(lefts, rights)[0] = NothingDecided
           /\ \A n \in Nat : DecidedAfter(lefts, rights)[n + 1]
                 = Decide(DecidedAfter(lefts, rights)[n], lefts[n + 1], rights)
<1> DEFINE follower(n) == CHOOSE f : Follows(f, lefts, rights, 0..n)
<1>1. \A n \in Nat : Follows(follower(n), lefts, rights, 0..n)
  BY FollowersExist
<1>2. PICK limit : limit = [n \in Nat |-> follower(n)[n]]
  OBVIOUS
<1>3. \A n \in Nat : limit[n] = IF n = 0 THEN NothingDecided
                                ELSE Decide(limit[n - 1], lefts[n], rights)
  <2> SUFFICES ASSUME NEW n \in Nat
               PROVE  limit[n] = IF n = 0 THEN NothingDecided
                                 ELSE Decide(limit[n - 1], lefts[n], rights)
    OBVIOUS
  <2> HIDE DEF follower
  <2>1. CASE n = 0
    BY <1>1, <1>2, <2>1 DEF Follows
  <2>2. CASE n # 0
    <3>1. follower(n)[n] = Decide(follower(n)[n - 1], lefts[n], rights)
      BY <1>1, <2>2 DEF Follows
    <3>2. follower(n - 1)[n - 1] = follower(n)[n - 1]
      <4>1. n - 1 \in Nat /\ n - 1 <= n /\ n - 1 \in 0..(n - 1)
        BY <2>2
      <4> QED
        BY <1>1, <4>1, FollowersAgree
    <3> QED
      BY <1>2, <2>2, <3>1, <3>2
  <2> QED
    BY <2>1, <2>2
<1>4. limit = [n \in Nat |-> IF n = 0 THEN NothingDecided
                             ELSE Decide(limit[n - 1], lefts[n], rights)]
  BY <1>2, <1>3
<1>5. PICK done : /\ done = DecidedAfter(lefts, rights)
                  /\ done = [n \in Nat |-> IF n = 0 THEN NothingDecided
                             ELSE Decide(done[n - 1], lefts[n], rights)]
  BY <1>4 DEF DecidedAfter
<1>6. \A n \in Nat : n + 1 # 0 /\ n + 1 - 1 = n /\ n + 1 \in Nat
  OBVIOUS
<1> QED
  BY <1>5, <1>6

-----------------------------------------------------------------------------
(* The loop computes the function. *)

LEMMA MadeAppended ==
    ASSUME NEW S, NEW decisions \in Seq(S), NEW e
    PROVE  Made(Append(decisions, e)) = Append(Made(decisions), e.made)
<1>1. PICK n \in Nat : n = Len(decisions) /\ DOMAIN decisions = 1..n
  OBVIOUS
<1>2. Made(decisions) = [k \in 1..n |-> decisions[k].made]
  BY <1>1 DEF Made
<1>3. Made(decisions) \in Seq({decisions[k].made : k \in 1..n})
  BY <1>1, <1>2
<1>4. Len(Made(decisions)) = n
  BY <1>1, <1>2
<1>5. Append(Made(decisions), e.made)
        = [k \in 1..(n + 1) |-> IF k = n + 1 THEN e.made ELSE decisions[k].made]
  BY <1>1, <1>2, <1>3, <1>4
<1>6. DOMAIN Append(decisions, e) = 1..(n + 1)
  BY <1>1
<1>7. \A k \in 1..(n + 1) :
         Append(decisions, e)[k] = IF k = n + 1 THEN e ELSE decisions[k]
  BY <1>1
<1> QED
  BY <1>1, <1>5, <1>6, <1>7 DEF Made

Free(used, l, rights) ==
    FindCandidates(l, rights, {p \in DOMAIN rights : rights[p].id \notin used})

\* An iteration that raises an exception, and one that matches.
Raised(done, l, code, cause) ==
    [done EXCEPT !.exceptions = Append(@, ExceptionDecision(l, code, cause))]

Matched(done, l, r) ==
    [done EXCEPT !.used = @ \cup {r.id}, !.matches = Append(@, MatchDecision(l, r))]

LEMMA DecideAmbiguous ==
    ASSUME NEW done, NEW l, NEW rights, Cardinality(Free(done.used, l, rights)) > 1
    PROVE  Decide(done, l, rights)
             = Raised(done, l, "DUPLICATE_CANDIDATE", "several-free")
  BY Zenon DEF Decide, Free, Raised

LEMMA DecideMatches ==
    ASSUME NEW done, NEW l, NEW rights, NEW p, Free(done.used, l, rights) = {p}
    PROVE  Decide(done, l, rights) = Matched(done, l, rights[p])
<1>1. Cardinality({p}) = 1 /\ {p} # {}
  BY FS_Singleton
<1>2. (CHOOSE q \in {p} : TRUE) = p
  OBVIOUS
<1>3. ~(Cardinality({p}) > 1)
  BY <1>1
<1> QED
  BY <1>1, <1>2, <1>3, Zenon DEF Decide, Free, Matched

LEMMA DecideConsumed ==
    ASSUME NEW done, NEW l, NEW rights, Free(done.used, l, rights) = {},
           FindCandidates(l, rights, DOMAIN rights) # {}
    PROVE  Decide(done, l, rights)
             = Raised(done, l, "DUPLICATE_CANDIDATE", "already-consumed")
<1>1. ~(Cardinality({}) > 1)
  BY FS_EmptySet
<1> QED
  BY <1>1, Zenon DEF Decide, Free, Raised

LEMMA DecideUnmatched ==
    ASSUME NEW done, NEW l, NEW rights, FindCandidates(l, rights, DOMAIN rights) = {}
    PROVE  Decide(done, l, rights)
             = Raised(done, l, ClassifyException(l, rights), "unmatched")
<1>1. ~(Cardinality({}) > 1)
  BY FS_EmptySet
<1>2. Free(done.used, l, rights) = {}
  BY NoCandidates DEF Free
<1> QED
  BY <1>1, <1>2, Zenon DEF Decide, Free, Raised

\* What the loop has is what the function has after as many records.
Computed ==
    DecidedAfter(left, right)[next - 1]
        = [used |-> usedRightIds, matches |-> Made(matches), exceptions |-> Made(exceptions)]

LEMMA ComputedInit == Init => Computed
<1> SUFFICES ASSUME Init PROVE Computed
  OBVIOUS
<1>1. Made(<<>>) = <<>>
  BY DEF Made
<1>2. DecidedAfter(left, right)[0] = NothingDecided
  BY DecidedUnfolds
<1>3. next - 1 = 0
  BY DEF Init
<1> QED
  BY <1>1, <1>2, <1>3 DEF Init, Computed, NothingDecided

LEMMA ComputedStep ==
    ASSUME TypeOK, Computed, [Next]_vars
    PROVE  Computed'
<1>1. PICK done : done = [used |-> usedRightIds, matches |-> Made(matches),
                          exceptions |-> Made(exceptions)]
  OBVIOUS
<1>2. PICK n \in Nat : n = next - 1
  BY DEF TypeOK
<1>3. DecidedAfter(left, right)[n] = done
  BY <1>1, <1>2 DEF Computed
<1>4. DecidedAfter(left, right)[n + 1] = Decide(done, left[n + 1], right)
  BY <1>3, DecidedUnfolds
<1>5. n + 1 = next
  BY <1>2 DEF TypeOK
<1>6. /\ Free(done.used, left[next], right) = FreeCandidates
      /\ FindCandidates(left[next], right, DOMAIN right) = AnyCandidates
  BY <1>1 DEF Free, FreeCandidates, Available, AnyCandidates
<1>7. /\ matches \in Seq([at : 1..Len(left), made : MatchDecisions])
      /\ exceptions \in Seq([at : 1..Len(left), made : ExceptionDecisions])
  BY DEF TypeOK
\* One step of the loop is one of the recursion.
<1>8. ASSUME next' = next + 1, UNCHANGED inputVars,
             Decide(done, left[next], right)
                = [used |-> usedRightIds', matches |-> Made(matches'),
                   exceptions |-> Made(exceptions')]
      PROVE  Computed'
  BY <1>2, <1>4, <1>5, <1>8 DEF Computed, inputVars
<1>9. ASSUME NEW code, NEW cause, RaiseException(code, cause), next' = next + 1,
             UNCHANGED <<inputVars, usedRightIds, matches>>,
             Decide(done, left[next], right) = Raised(done, left[next], code, cause)
      PROVE  Computed'
  <2>1. PICK made : made = ExceptionDecision(left[next], code, cause)
    OBVIOUS
  <2>2. PICK e : e = [at |-> next, made |-> made]
    OBVIOUS
  <2>3. Made(exceptions') = Append(Made(exceptions), made)
    <3>1. exceptions' = Append(exceptions, e)
      BY <1>9, <2>1, <2>2 DEF RaiseException
    <3>2. e.made = made
      BY <2>2
    <3> QED
      BY <1>7, <3>1, <3>2, MadeAppended
  <2>4. Decide(done, left[next], right)
          = [used |-> usedRightIds, matches |-> Made(matches),
             exceptions |-> Append(Made(exceptions), made)]
    BY <1>1, <1>9, <2>1 DEF Raised
  <2>5. /\ usedRightIds' = usedRightIds /\ Made(matches') = Made(matches)
        /\ UNCHANGED inputVars
    BY <1>9
  <2> QED
    BY <1>8, <1>9, <2>3, <2>4, <2>5
<1>10. CASE Ambiguous
  <2>1. Decide(done, left[next], right)
          = Raised(done, left[next], "DUPLICATE_CANDIDATE", "several-free")
    BY <1>6, <1>10, DecideAmbiguous DEF Ambiguous
  <2> QED
    BY <1>9, <1>10, <2>1 DEF Ambiguous
<1>11. CASE AlreadyConsumed
  <2>1. Decide(done, left[next], right)
          = Raised(done, left[next], "DUPLICATE_CANDIDATE", "already-consumed")
    BY <1>6, <1>11, DecideConsumed DEF AlreadyConsumed
  <2> QED
    BY <1>9, <1>11, <2>1 DEF AlreadyConsumed
<1>12. CASE Unmatched
  <2>1. Decide(done, left[next], right)
          = Raised(done, left[next], ClassifyException(left[next], right), "unmatched")
    BY <1>6, <1>12, DecideUnmatched DEF Unmatched
  <2> QED
    BY <1>9, <1>12, <2>1 DEF Unmatched
<1>13. CASE MatchSole
  <2>1. PICK p \in DOMAIN right :
            /\ FreeCandidates = {p}
            /\ usedRightIds' = usedRightIds \cup {right[p].id}
            /\ matches' = Append(matches,
                   [at |-> next, made |-> MatchDecision(left[next], right[p])])
    BY <1>13 DEF MatchSole
  <2>2. PICK made : made = MatchDecision(left[next], right[p])
    OBVIOUS
  <2>3. Made(matches') = Append(Made(matches), made)
    <3>1. PICK e : e = [at |-> next, made |-> made]
      OBVIOUS
    <3>2. matches' = Append(matches, e) /\ e.made = made
      BY <2>1, <2>2, <3>1
    <3> QED
      BY <1>7, <3>2, MadeAppended
  <2>4. Free(done.used, left[next], right) = {p}
    BY <1>6, <2>1
  <2>5. Decide(done, left[next], right) = Matched(done, left[next], right[p])
    BY <2>4, DecideMatches
  <2>6. Decide(done, left[next], right)
          = [used |-> usedRightIds', matches |-> Made(matches'),
             exceptions |-> Made(exceptions)]
    BY <1>1, <2>1, <2>2, <2>3, <2>5 DEF Matched
  <2>7. UNCHANGED inputVars /\ next' = next + 1 /\ Made(exceptions') = Made(exceptions)
    BY <1>13 DEF MatchSole
  <2> QED
    BY <1>8, <2>6, <2>7
<1>14. CASE UNCHANGED vars
  BY <1>14 DEF vars, Computed
<1> QED
  BY <1>10, <1>11, <1>12, <1>13, <1>14 DEF Next

\* The loop returns what the function of the same inputs is, on every input.
THEOREM LoopIsFunction == Spec => []LoopComputesReconcile
<1>1. TypeOK /\ Computed => LoopComputesReconcile
  <2> SUFFICES ASSUME TypeOK, Computed, Returned
               PROVE  Reconcile(left, right)
                        = [matches |-> Made(matches), exceptions |-> Made(exceptions)]
    BY DEF LoopComputesReconcile
  <2>1. Len(left) \in Nat
    BY InputsAreRecordSequences DEF TypeOK
  <2>2. next - 1 = Len(left)
    BY <2>1 DEF TypeOK, Returned
  <2> QED
    BY <2>2 DEF Computed, Reconcile
<1> QED
  BY <1>1, TypeInit, TypeStep, ComputedInit, ComputedStep, PTL DEF Spec

-----------------------------------------------------------------------------
(* What every call of the function accounts for.  The run service stores   *)
(* what Reconcile returns for lists it reads from the ledger: this is not  *)
(* about the inputs of a run but about any two lists of records.           *)

\* Such is the function's state after n of the left records: what Accounts
\* asks, of those n, and the right ids of the matches are marked as used.
AccountsAfter(lefts, rights, n, done) ==
    /\ done = [used |-> done.used, matches |-> done.matches,
               exceptions |-> done.exceptions]
    /\ done.matches \in Seq(MatchDecisions)
    /\ done.exceptions \in Seq(ExceptionDecisions)
    /\ Len(done.matches) + Len(done.exceptions) = n
    /\ DecidedIds(done.matches) \cup DecidedIds(done.exceptions)
          = {lefts[a].id : a \in 1..n}
    /\ \A k \in DOMAIN done.matches :
          /\ done.matches[k].right \in done.used
          /\ \E a \in DOMAIN lefts, p \in DOMAIN rights :
                /\ TierOf(lefts[a], rights[p]) # 0
                /\ done.matches[k] = MatchDecision(lefts[a], rights[p])
    /\ \A j, k \in DOMAIN done.matches :
          done.matches[j].right = done.matches[k].right => j = k

\* One iteration raises one exception, or matches the only free candidate.
LEMMA DecideBranches ==
    ASSUME NEW done, NEW l, NEW rights, IsFiniteSet(DOMAIN rights)
    PROVE  \/ \E code \in ReasonCode, cause \in ExceptionCause :
                 Decide(done, l, rights) = Raised(done, l, code, cause)
           \/ \E p \in DOMAIN rights :
                 /\ rights[p].id \notin done.used
                 /\ TierOf(l, rights[p]) # 0
                 /\ Decide(done, l, rights) = Matched(done, l, rights[p])
<1>1. PICK free : free = Free(done.used, l, rights)
  OBVIOUS
<1>2. \A p \in free : /\ p \in DOMAIN rights /\ rights[p].id \notin done.used
                      /\ TierOf(l, rights[p]) # 0
  BY <1>1, CandidatesAreBestTier DEF Free
<1>3. CASE Cardinality(free) > 1
  BY <1>1, <1>3, DecideAmbiguous DEF ReasonCode, ExceptionCause
<1>4. CASE ~(Cardinality(free) > 1) /\ free # {}
  <2>1. IsFiniteSet(free)
    BY <1>2, FS_Subset
  <2>2. Cardinality(free) = 1
    <3>1. Cardinality(free) \in Nat /\ Cardinality(free) # 0
      BY <1>4, <2>1, FS_CardinalityType, FS_EmptySet
    <3> QED
      BY <1>4, <3>1
  <2>3. PICK p : free = {p}
    BY <2>1, <2>2, FS_Singleton
  <2>4. Decide(done, l, rights) = Matched(done, l, rights[p])
    BY <1>1, <2>3, DecideMatches
  <2>5. p \in DOMAIN rights /\ rights[p].id \notin done.used /\ TierOf(l, rights[p]) # 0
    BY <1>2, <2>3
  <2> QED
    BY <2>4, <2>5, Zenon
<1>5. CASE free = {} /\ FindCandidates(l, rights, DOMAIN rights) # {}
  BY <1>1, <1>5, DecideConsumed DEF ReasonCode, ExceptionCause
<1>6. CASE FindCandidates(l, rights, DOMAIN rights) = {}
  <2>1. ClassifyException(l, rights) \in ReasonCode
    BY ReasonType
  <2> QED
    BY <1>6, <2>1, DecideUnmatched DEF ExceptionCause
<1> QED
  BY <1>3, <1>4, <1>5, <1>6

LEMMA DecidedIdsAppended ==
    ASSUME NEW S, NEW decisions \in Seq(S), NEW e
    PROVE  DecidedIds(Append(decisions, e)) = DecidedIds(decisions) \cup {e.left}
<1>1. PICK longer : longer = Append(decisions, e)
  OBVIOUS
<1>2. DecidedIds(longer) = {longer[k].left : k \in DOMAIN longer}
  BY DEF DecidedIds
<1>3. DecidedIds(longer)
        = {longer[k].left : k \in DOMAIN decisions} \cup {longer[Len(decisions) + 1].left}
  BY <1>1, <1>2, Appended
<1> QED
  BY <1>1, <1>3, Appended DEF DecidedIds

LEMMA RaiseAccounts ==
    ASSUME NEW lefts \in Seq(CanonicalLedgerRecord), NEW rights,
           NEW n \in Nat, n + 1 <= Len(lefts),
           NEW done, AccountsAfter(lefts, rights, n, done),
           NEW code \in ReasonCode, NEW cause \in ExceptionCause
    PROVE  AccountsAfter(lefts, rights, n + 1, Raised(done, lefts[n + 1], code, cause))
<1>1. PICK l : l = lefts[n + 1]
  OBVIOUS
<1>2. l.id \in Line
  <2>1. l \in CanonicalLedgerRecord
    BY <1>1, Members
  <2> QED
    BY <2>1 DEF CanonicalLedgerRecord
<1>3. PICK e : e = ExceptionDecision(l, code, cause)
  OBVIOUS
<1>4. e \in ExceptionDecisions /\ e.left = l.id
  BY <1>2, <1>3 DEF ExceptionDecision, ExceptionDecisions
<1>5. PICK then : then = Raised(done, l, code, cause)
  OBVIOUS
<1>6. then = [used |-> done.used, matches |-> done.matches,
              exceptions |-> Append(done.exceptions, e)]
  BY <1>3, <1>5 DEF AccountsAfter, Raised
<1>7. done.exceptions \in Seq(ExceptionDecisions) /\ done.matches \in Seq(MatchDecisions)
  BY DEF AccountsAfter
<1>8. then.exceptions \in Seq(ExceptionDecisions)
  BY <1>4, <1>6, <1>7
<1>9. Len(then.matches) + Len(then.exceptions) = n + 1
  <2>1. Len(Append(done.exceptions, e)) = Len(done.exceptions) + 1
    BY <1>7, Appended
  <2>2. PICK a \in Nat, b \in Nat : a = Len(done.matches) /\ b = Len(done.exceptions)
    BY <1>7
  <2>3. a + b = n
    BY <2>2 DEF AccountsAfter
  <2>4. Len(then.matches) = a /\ Len(then.exceptions) = b + 1
    BY <1>6, <2>1, <2>2
  <2> QED
    BY <2>3, <2>4
<1>10. DecidedIds(then.matches) \cup DecidedIds(then.exceptions)
         = {lefts[a].id : a \in 1..(n + 1)}
  <2>1. DecidedIds(then.exceptions) = DecidedIds(done.exceptions) \cup {l.id}
    BY <1>4, <1>6, <1>7, DecidedIdsAppended
  <2>2. 1..(n + 1) = 1..n \cup {n + 1}
    OBVIOUS
  <2>3. {lefts[a].id : a \in 1..(n + 1)} = {lefts[a].id : a \in 1..n} \cup {l.id}
    BY <1>1, <2>2
  <2>4. DecidedIds(done.matches) \cup DecidedIds(done.exceptions)
          = {lefts[a].id : a \in 1..n}
    BY DEF AccountsAfter
  <2> QED
    BY <1>6, <2>1, <2>3, <2>4
<1> QED
  BY <1>1, <1>5, <1>6, <1>7, <1>8, <1>9, <1>10 DEF AccountsAfter

LEMMA MatchAccounts ==
    ASSUME NEW lefts \in Seq(CanonicalLedgerRecord),
           NEW rights \in Seq(CanonicalLedgerRecord),
           NEW n \in Nat, n + 1 <= Len(lefts),
           NEW done, AccountsAfter(lefts, rights, n, done),
           NEW p \in DOMAIN rights, rights[p].id \notin done.used,
           TierOf(lefts[n + 1], rights[p]) # 0
    PROVE  AccountsAfter(lefts, rights, n + 1, Matched(done, lefts[n + 1], rights[p]))
<1>1. PICK l : l = lefts[n + 1]
  OBVIOUS
<1>2. n + 1 \in DOMAIN lefts
  OBVIOUS
<1>3. l \in CanonicalLedgerRecord /\ rights[p] \in CanonicalLedgerRecord
  BY <1>1, <1>2, Members
<1>4. PICK m : m = MatchDecision(l, rights[p])
  OBVIOUS
<1>5. m \in MatchDecisions /\ m.left = l.id /\ m.right = rights[p].id
  <2>1. m \in MatchDecisions
    BY <1>1, <1>3, <1>4, DecisionTypes
  <2> QED
    BY <1>4, <2>1 DEF MatchDecision
<1>6. PICK then : then = Matched(done, l, rights[p])
  OBVIOUS
<1>7. then = [used |-> done.used \cup {m.right}, matches |-> Append(done.matches, m),
              exceptions |-> done.exceptions]
  BY <1>4, <1>5, <1>6 DEF AccountsAfter, Matched
<1>8. done.exceptions \in Seq(ExceptionDecisions) /\ done.matches \in Seq(MatchDecisions)
  BY DEF AccountsAfter
<1>9. PICK last : last = Len(done.matches) + 1
  OBVIOUS
<1>10. /\ then.matches \in Seq(MatchDecisions)
       /\ DOMAIN then.matches = DOMAIN done.matches \cup {last}
       /\ last \notin DOMAIN done.matches
       /\ \A k \in DOMAIN done.matches : then.matches[k] = done.matches[k]
       /\ then.matches[last] = m
       /\ Len(then.matches) = Len(done.matches) + 1
  <2>1. then.matches = Append(done.matches, m)
    BY <1>7
  <2>2. then.matches \in Seq(MatchDecisions)
    BY <1>5, <1>8, <2>1
  <2> QED
    BY SMTT(40), <1>8, <1>9, <2>1, <2>2, Appended
<1>11. Len(then.matches) + Len(then.exceptions) = n + 1
  <2>1. PICK a \in Nat, b \in Nat : a = Len(done.matches) /\ b = Len(done.exceptions)
    BY <1>8
  <2>2. a + b = n
    BY <2>1 DEF AccountsAfter
  <2>3. Len(then.matches) = a + 1 /\ Len(then.exceptions) = b
    BY <1>7, <1>10, <2>1
  <2> QED
    BY <2>2, <2>3
<1>12. DecidedIds(then.matches) \cup DecidedIds(then.exceptions)
         = {lefts[a].id : a \in 1..(n + 1)}
  <2>1. DecidedIds(then.matches) = DecidedIds(done.matches) \cup {l.id}
    BY <1>5, <1>7, <1>8, DecidedIdsAppended
  <2>2. 1..(n + 1) = 1..n \cup {n + 1}
    OBVIOUS
  <2>3. {lefts[a].id : a \in 1..(n + 1)} = {lefts[a].id : a \in 1..n} \cup {l.id}
    BY <1>1, <2>2
  <2>4. DecidedIds(done.matches) \cup DecidedIds(done.exceptions)
          = {lefts[a].id : a \in 1..n}
    BY DEF AccountsAfter
  <2> QED
    BY <1>7, <2>1, <2>3, <2>4
<1>13. \A k \in DOMAIN then.matches :
          /\ then.matches[k].right \in then.used
          /\ \E a \in DOMAIN lefts, q \in DOMAIN rights :
                /\ TierOf(lefts[a], rights[q]) # 0
                /\ then.matches[k] = MatchDecision(lefts[a], rights[q])
  <2> TAKE k \in DOMAIN then.matches
  <2>1. CASE k = last
    BY <1>1, <1>2, <1>4, <1>7, <1>10, <2>1
  <2>2. CASE k \in DOMAIN done.matches
    BY SMTT(40), <1>7, <1>10, <2>2 DEF AccountsAfter
  <2> QED
    BY <1>10, <2>1, <2>2
<1>14. \A k \in DOMAIN done.matches : then.matches[k].right # m.right
  BY <1>5, <1>10 DEF AccountsAfter
<1>15. \A j, k \in DOMAIN then.matches :
          then.matches[j].right = then.matches[k].right => j = k
  BY <1>10, <1>14 DEF AccountsAfter
<1>16. /\ then = [used |-> then.used, matches |-> then.matches,
                  exceptions |-> then.exceptions]
       /\ then.exceptions \in Seq(ExceptionDecisions)
  BY <1>7, <1>8
<1>17. then.matches \in Seq(MatchDecisions)
  BY <1>10
<1>18. AccountsAfter(lefts, rights, n + 1, then)
  BY <1>11, <1>12, <1>13, <1>15, <1>16, <1>17, Zenon DEF AccountsAfter
<1> QED
  BY <1>1, <1>6, <1>18

\* Whatever lists of records the engine is called with (reconcile,
\* matcher.py): it returns one decision for each left record and about no
\* other, matches only records that qualify for each other, with their tier
\* and confidence, and never matches a right id twice.
THEOREM EveryCallAccounts ==
    ASSUME NEW lefts \in Seq(CanonicalLedgerRecord),
           NEW rights \in Seq(CanonicalLedgerRecord)
    PROVE  Accounts(lefts, rights, Reconcile(lefts, rights))
<1> DEFINE done(n) == DecidedAfter(lefts, rights)[n]
           T == {n \in Nat : n <= Len(lefts) => AccountsAfter(lefts, rights, n, done(n))}
<1>1. Len(lefts) \in Nat /\ DOMAIN lefts = 1..Len(lefts) /\ IsFiniteSet(DOMAIN rights)
  <2>1. Len(rights) \in Nat /\ DOMAIN rights = 1..Len(rights)
    OBVIOUS
  <2> QED
    BY <2>1, FS_Interval
<1>2. 0 \in T
  <2>1. done(0) = NothingDecided
    BY DecidedUnfolds
  <2>2. AccountsAfter(lefts, rights, 0, NothingDecided)
    BY DEF AccountsAfter, NothingDecided, DecidedIds
  <2> QED
    BY <2>1, <2>2
<1>3. ASSUME NEW n \in T PROVE n + 1 \in T
  <2> SUFFICES ASSUME n + 1 <= Len(lefts)
               PROVE  AccountsAfter(lefts, rights, n + 1, done(n + 1))
    OBVIOUS
  <2>1. done(n + 1) = Decide(done(n), lefts[n + 1], rights)
    BY DecidedUnfolds
  <2>2. AccountsAfter(lefts, rights, n, done(n))
    BY <1>1
  <2>3. CASE \E code \in ReasonCode, cause \in ExceptionCause :
                done(n + 1) = Raised(done(n), lefts[n + 1], code, cause)
    <3> HIDE DEF done
    <3> QED
      BY <2>2, <2>3, RaiseAccounts
  <2>4. CASE \E p \in DOMAIN rights :
                /\ rights[p].id \notin done(n).used
                /\ TierOf(lefts[n + 1], rights[p]) # 0
                /\ done(n + 1) = Matched(done(n), lefts[n + 1], rights[p])
    <3> HIDE DEF done
    <3> QED
      BY <2>2, <2>4, MatchAccounts
  <2> HIDE DEF done
  <2> QED
    BY <1>1, <2>1, <2>3, <2>4, DecideBranches
<1>4. T = Nat
  <2> HIDE DEF T
  <2>1. T \in SUBSET Nat
    BY DEF T
  <2> QED
    BY <1>2, <1>3, <2>1, Induction
<1>5. AccountsAfter(lefts, rights, Len(lefts), done(Len(lefts)))
  BY <1>1, <1>4
<1>6. PICK end : end = done(Len(lefts))
  OBVIOUS
<1>7. PICK result : result = Reconcile(lefts, rights)
  OBVIOUS
<1>8. result.matches = end.matches /\ result.exceptions = end.exceptions
  BY <1>6, <1>7 DEF Reconcile
<1>9. AccountsAfter(lefts, rights, Len(lefts), end)
  BY <1>5, <1>6
<1>10. Accounts(lefts, rights, result)
  <2>1. Len(end.matches) + Len(end.exceptions) = Len(lefts)
    BY <1>9 DEF AccountsAfter
  <2>2. DecidedIds(end.matches) \cup DecidedIds(end.exceptions)
          = {lefts[a].id : a \in DOMAIN lefts}
    BY <1>1, <1>9 DEF AccountsAfter
  <2>3. /\ \A k \in DOMAIN end.matches :
              \E a \in DOMAIN lefts, p \in DOMAIN rights :
                  /\ TierOf(lefts[a], rights[p]) # 0
                  /\ end.matches[k] = MatchDecision(lefts[a], rights[p])
        /\ \A j, k \in DOMAIN end.matches :
              end.matches[j].right = end.matches[k].right => j = k
    BY <1>9 DEF AccountsAfter
  <2>4. Len(result.matches) + Len(result.exceptions) = Len(lefts)
    BY <1>8, <2>1
  <2>5. DecidedIds(result.matches) \cup DecidedIds(result.exceptions)
          = {lefts[a].id : a \in DOMAIN lefts}
    BY <1>8, <2>2
  <2>6. \A k \in DOMAIN result.matches :
           \E a \in DOMAIN lefts, p \in DOMAIN rights :
               /\ TierOf(lefts[a], rights[p]) # 0
               /\ result.matches[k] = MatchDecision(lefts[a], rights[p])
    BY <1>8, <2>3
  <2>7. \A j, k \in DOMAIN result.matches :
           result.matches[j].right = result.matches[k].right => j = k
    BY <1>8, <2>3
  <2> QED
    BY <2>4, <2>5, <2>6, <2>7, Zenon DEF Accounts
<1> QED
  BY <1>7, <1>10

-----------------------------------------------------------------------------
(* The order of the right records. *)

\* Such are the same records in another order.
Reordered(rights, order, other) ==
    /\ DOMAIN other = DOMAIN rights
    /\ \A p \in DOMAIN rights : order[p] \in DOMAIN rights /\ other[p] = rights[order[p]]
    /\ \A q \in DOMAIN rights : \E p \in DOMAIN rights : order[p] = q
    /\ \A p, q \in DOMAIN rights : order[p] = order[q] => p = q

\* Where the records at the positions `within' went.
Moved(rights, order, within) == {p \in DOMAIN rights : order[p] \in within}

LEMMA MovedIsEmpty ==
    ASSUME NEW rights, NEW order, NEW other, Reordered(rights, order, other),
           NEW within \in SUBSET DOMAIN rights
    PROVE  Moved(rights, order, within) = {} <=> within = {}
<1>1. ASSUME NEW q \in within PROVE Moved(rights, order, within) # {}
  <2>1. PICK p \in DOMAIN rights : order[p] = q
    BY DEF Reordered
  <2> QED
    BY <2>1 DEF Moved
<1> QED
  BY <1>1 DEF Moved

\* _classify_exception only asks which records there are.
LEMMA ClassifyReordered ==
    ASSUME NEW l, NEW rights, NEW order, NEW other, Reordered(rights, order, other)
    PROVE  ClassifyException(l, other) = ClassifyException(l, rights)
<1> DEFINE sameRef(list) == {p \in DOMAIN list : SameReference(l, list[p])}
           comparable(list) == {p \in DOMAIN list : list[p].currency = l.currency}
           untolerated(list) ==
             {p \in DOMAIN list : ~WithinAmountTolerance(l.amount, list[p].amount)}
           untimely(list) ==
             {p \in DOMAIN list : ~WithinDateWindow(l.day, list[p].day)}
           equal(list) == {p \in DOMAIN list : l.amount = list[p].amount}
           M(within) == Moved(rights, order, within)
<1>0. \A p \in DOMAIN rights : other[p] = rights[order[p]] /\ order[p] \in DOMAIN rights
  BY DEF Reordered
<1>d. DOMAIN other = DOMAIN rights
  BY DEF Reordered
<1>1. sameRef(other) = M(sameRef(rights))
  BY <1>0, <1>d DEF Moved
<1>2. comparable(other) = M(comparable(rights))
  BY <1>0, <1>d DEF Moved
<1>3. untolerated(other) = M(untolerated(rights))
  BY <1>0, <1>d DEF Moved
<1>4. untimely(other) = M(untimely(rights))
  BY <1>0, <1>d DEF Moved
<1>5. equal(other) = M(equal(rights))
  BY <1>0, <1>d DEF Moved
<1>m. \A A, B \in SUBSET DOMAIN rights :
        /\ M(A) \ M(B) = M(A \ B)
        /\ M(A) \cap M(B) = M(A \cap B)
  BY <1>0 DEF Moved
<1>e. \A A \in SUBSET DOMAIN rights : M(A) = {} <=> A = {}
  BY MovedIsEmpty
<1>t. /\ sameRef(rights) \in SUBSET DOMAIN rights
      /\ comparable(rights) \in SUBSET DOMAIN rights
      /\ untolerated(rights) \in SUBSET DOMAIN rights
      /\ untimely(rights) \in SUBSET DOMAIN rights
      /\ equal(rights) \in SUBSET DOMAIN rights
  OBVIOUS
<1> DEFINE Verdict(list) ==
      IF l.transit THEN "IN_TRANSIT_NOT_CLEARED"
      ELSE IF sameRef(list) \ comparable(list) # {} THEN "CURRENCY_FX_MISMATCH"
      ELSE IF sameRef(list) \cap untolerated(list) # {}
           THEN "AMOUNT_VARIANCE_EXCEEDS_TOLERANCE"
      ELSE IF sameRef(list) \cap untimely(list) # {}
           THEN "DATE_VARIANCE_EXCEEDS_WINDOW"
      ELSE IF comparable(list) = {} /\ DOMAIN list # {} THEN "CURRENCY_FX_MISMATCH"
      ELSE IF comparable(list) = {} THEN "NO_COUNTERPART"
      ELSE IF l.ref # NoRef THEN "STALE_REFERENCE"
      ELSE IF (comparable(list) \cap equal(list)) \cap untimely(list) # {}
           THEN "DATE_VARIANCE_EXCEEDS_WINDOW"
      ELSE "NO_COUNTERPART"
<1>6. ASSUME NEW list PROVE ClassifyException(l, list) = Verdict(list)
  <2>1. sameRef(list) \ comparable(list) # {} <=> ~(sameRef(list) \subseteq comparable(list))
    OBVIOUS
  <2>2. sameRef(list) \cap untolerated(list) # {}
          <=> \E p \in sameRef(list) : ~WithinAmountTolerance(l.amount, list[p].amount)
    OBVIOUS
  <2>3. sameRef(list) \cap untimely(list) # {}
          <=> \E p \in sameRef(list) : ~WithinDateWindow(l.day, list[p].day)
    OBVIOUS
  <2>4. (comparable(list) \cap equal(list)) \cap untimely(list) # {}
          <=> \E p \in comparable(list) :
                 l.amount = list[p].amount /\ ~WithinDateWindow(l.day, list[p].day)
    OBVIOUS
  <2> QED
    BY <2>1, <2>2, <2>3, <2>4, Zenon DEF ClassifyException
<1>7. Verdict(other) = Verdict(rights)
  <2>s. /\ sameRef(rights) \ comparable(rights) \in SUBSET DOMAIN rights
        /\ sameRef(rights) \cap untolerated(rights) \in SUBSET DOMAIN rights
        /\ sameRef(rights) \cap untimely(rights) \in SUBSET DOMAIN rights
        /\ comparable(rights) \cap equal(rights) \in SUBSET DOMAIN rights
        /\ (comparable(rights) \cap equal(rights)) \cap untimely(rights)
             \in SUBSET DOMAIN rights
    OBVIOUS
  <2> HIDE DEF sameRef, comparable, untolerated, untimely, equal, M
  <2>1. sameRef(other) \ comparable(other) = {} <=> sameRef(rights) \ comparable(rights) = {}
    <3>1. M(sameRef(rights)) \ M(comparable(rights))
            = M(sameRef(rights) \ comparable(rights))
      BY <1>m, <1>t
    <3>2. M(sameRef(rights) \ comparable(rights)) = {}
            <=> sameRef(rights) \ comparable(rights) = {}
      BY <1>e, <2>s
    <3> QED
      BY <1>1, <1>2, <3>1, <3>2, Zenon
  <2>2. sameRef(other) \cap untolerated(other) = {}
          <=> sameRef(rights) \cap untolerated(rights) = {}
    <3>1. M(sameRef(rights)) \cap M(untolerated(rights))
            = M(sameRef(rights) \cap untolerated(rights))
      BY <1>m, <1>t
    <3>2. M(sameRef(rights) \cap untolerated(rights)) = {}
            <=> sameRef(rights) \cap untolerated(rights) = {}
      BY <1>e, <2>s
    <3> QED
      BY <1>1, <1>3, <3>1, <3>2, Zenon
  <2>3. sameRef(other) \cap untimely(other) = {}
          <=> sameRef(rights) \cap untimely(rights) = {}
    <3>1. M(sameRef(rights)) \cap M(untimely(rights))
            = M(sameRef(rights) \cap untimely(rights))
      BY <1>m, <1>t
    <3>2. M(sameRef(rights) \cap untimely(rights)) = {}
            <=> sameRef(rights) \cap untimely(rights) = {}
      BY <1>e, <2>s
    <3> QED
      BY <1>1, <1>4, <3>1, <3>2, Zenon
  <2>4. comparable(other) = {} <=> comparable(rights) = {}
    BY <1>2, <1>e, <1>t
  <2>5. (comparable(other) \cap equal(other)) \cap untimely(other) = {}
          <=> (comparable(rights) \cap equal(rights)) \cap untimely(rights) = {}
    <3>1. M(comparable(rights)) \cap M(equal(rights))
            = M(comparable(rights) \cap equal(rights))
      BY <1>m, <1>t
    <3>2. M(comparable(rights) \cap equal(rights)) \cap M(untimely(rights))
            = M((comparable(rights) \cap equal(rights)) \cap untimely(rights))
      BY <1>m, <1>t, <2>s
    <3>3. M((comparable(rights) \cap equal(rights)) \cap untimely(rights)) = {}
            <=> (comparable(rights) \cap equal(rights)) \cap untimely(rights) = {}
      BY <1>e, <2>s
    <3> QED
      BY <1>2, <1>4, <1>5, <3>1, <3>2, <3>3, Zenon
  <2>6. DOMAIN other # {} <=> DOMAIN rights # {}
    BY <1>d
  <2> QED
    BY <2>1, <2>2, <2>3, <2>4, <2>5, <2>6
<1> QED
  <2> HIDE DEF Verdict
  <2> QED BY <1>6, <1>7

\* The candidates are the same records, at their new positions.
LEMMA CandidatesReordered ==
    ASSUME NEW l, NEW rights, NEW order, NEW other, Reordered(rights, order, other),
           NEW within \in SUBSET DOMAIN rights
    PROVE  FindCandidates(l, other, Moved(rights, order, within))
             = Moved(rights, order, FindCandidates(l, rights, within))
<1> DEFINE moved == Moved(rights, order, within)
           At(t) == {p \in within : TierOf(l, rights[p]) = t}
           MovedAt(t) == {p \in moved : TierOf(l, other[p]) = t}
<1>0. \A p \in DOMAIN rights : other[p] = rights[order[p]] /\ order[p] \in DOMAIN rights
  BY DEF Reordered
<1>1. ASSUME NEW t PROVE MovedAt(t) = Moved(rights, order, At(t))
  BY <1>0 DEF Moved
<1>2. ASSUME NEW t PROVE MovedAt(t) = {} <=> At(t) = {}
  <2>1. At(t) \in SUBSET DOMAIN rights
    OBVIOUS
  <2> HIDE DEF At, MovedAt
  <2> QED
    BY <1>1, <2>1, MovedIsEmpty
<1>3. FindCandidates(l, rights, within)
        = IF At(1) # {} THEN At(1) ELSE IF At(2) # {} THEN At(2) ELSE At(3)
  BY DEF FindCandidates
<1>4. FindCandidates(l, other, moved)
        = IF MovedAt(1) # {} THEN MovedAt(1)
          ELSE IF MovedAt(2) # {} THEN MovedAt(2) ELSE MovedAt(3)
  BY DEF FindCandidates
<1> HIDE DEF At, MovedAt
<1> QED
  BY <1>1, <1>2, <1>3, <1>4

\* Such sets have as many elements.
LEMMA MovedCardinality ==
    ASSUME NEW rights, NEW order, NEW other, Reordered(rights, order, other),
           IsFiniteSet(DOMAIN rights), NEW within \in SUBSET DOMAIN rights
    PROVE  Cardinality(Moved(rights, order, within)) = Cardinality(within)
<1>1. PICK moved : moved = Moved(rights, order, within)
  OBVIOUS
<1>2. PICK f : f = [p \in moved |-> order[p]]
  OBVIOUS
<1>3. f \in [moved -> within]
  BY <1>1, <1>2 DEF Moved
<1>4. \A q \in within : \E p \in moved : f[p] = q
  BY ZenonT(60), <1>1, <1>2 DEF Reordered, Moved
<1>5. \A p, q \in moved : f[p] = f[q] => p = q
  BY <1>1, <1>2 DEF Reordered, Moved
<1>6. IsFiniteSet(moved)
  <2>1. moved \subseteq DOMAIN rights
    BY <1>1 DEF Moved
  <2> QED
    BY <2>1, FS_Subset
<1>7. f \in Bijection(moved, within)
  <2>1. IsInjective(f)
    BY <1>3, <1>5 DEF IsInjective
  <2> QED
    BY <1>3, <1>4, <2>1 DEF Bijection, Injection, Surjection
<1>8. Cardinality(within) = Cardinality(moved)
  BY <1>6, <1>7, FS_Bijection DEF ExistsBijection
<1> QED
  BY <1>1, <1>8

LEMMA DecideReordered ==
    ASSUME NEW done, NEW l, NEW rights, NEW order, NEW other,
           Reordered(rights, order, other), IsFiniteSet(DOMAIN rights)
    PROVE  Decide(done, l, other) = Decide(done, l, rights)
<1>1. PICK free : free = Free(done.used, l, rights)
  OBVIOUS
<1>2. free \subseteq DOMAIN rights
  BY <1>1, CandidatesAreBestTier DEF Free
<1>3. Free(done.used, l, other) = Moved(rights, order, free)
  <2>1. PICK within : within = {p \in DOMAIN rights : rights[p].id \notin done.used}
    OBVIOUS
  <2>2. {p \in DOMAIN other : other[p].id \notin done.used} = Moved(rights, order, within)
    BY <2>1 DEF Reordered, Moved
  <2>3. within \in SUBSET DOMAIN rights
    BY <2>1
  <2>4. free = FindCandidates(l, rights, within)
    BY <1>1, <2>1 DEF Free
  <2> QED
    BY SMTT(40), <2>2, <2>3, <2>4, CandidatesReordered DEF Free
<1>4. Cardinality(Free(done.used, l, other)) = Cardinality(free)
  BY <1>2, <1>3, MovedCardinality
<1>5. FindCandidates(l, other, DOMAIN other) = {}
        <=> FindCandidates(l, rights, DOMAIN rights) = {}
  <2>1. DOMAIN other = Moved(rights, order, DOMAIN rights)
    BY DEF Reordered, Moved
  <2>2. FindCandidates(l, rights, DOMAIN rights) \in SUBSET DOMAIN rights
    BY CandidatesAreBestTier
  <2> QED
    BY <2>1, <2>2, CandidatesReordered, MovedIsEmpty
<1>6. CASE Cardinality(free) > 1
  BY <1>1, <1>4, <1>6, DecideAmbiguous
<1>7. CASE ~(Cardinality(free) > 1) /\ free # {}
  <2>1. IsFiniteSet(free)
    BY <1>2, FS_Subset
  <2>2. Cardinality(free) \in Nat /\ Cardinality(free) # 0
    BY <1>7, <2>1, FS_CardinalityType, FS_EmptySet
  <2>3. Cardinality(free) = 1
    BY <1>7, <2>2
  <2>4. PICK q : free = {q}
    BY <2>1, <2>3, FS_Singleton
  <2>5. PICK p \in DOMAIN rights : order[p] = q
    BY <1>2, <2>4 DEF Reordered
  <2>6. Free(done.used, l, other) = {p}
    <3>1. \A k \in DOMAIN rights : order[k] = q => k = p
      BY <2>5 DEF Reordered
    <3> QED
      BY <1>3, <2>4, <2>5, <3>1 DEF Moved
  <2>7. other[p] = rights[q]
    BY <2>5 DEF Reordered
  <2> QED
    BY <1>1, <2>4, <2>6, <2>7, DecideMatches
<1>8. CASE free = {} /\ FindCandidates(l, rights, DOMAIN rights) # {}
  <2>1. Free(done.used, l, other) = {}
    BY <1>3, <1>8 DEF Moved
  <2> QED
    BY <1>1, <1>5, <1>8, <2>1, DecideConsumed
<1>9. CASE FindCandidates(l, rights, DOMAIN rights) = {}
  BY <1>5, <1>9, DecideUnmatched, ClassifyReordered
<1> QED
  BY <1>6, <1>7, <1>8, <1>9

LEMMA ReconcileReordered ==
    ASSUME NEW lefts, Len(lefts) \in Nat, NEW rights, NEW order, NEW other,
           Reordered(rights, order, other), IsFiniteSet(DOMAIN rights)
    PROVE  Reconcile(lefts, other) = Reconcile(lefts, rights)
<1> DEFINE T == {n \in Nat : DecidedAfter(lefts, other)[n] = DecidedAfter(lefts, rights)[n]}
<1>1. 0 \in T
  BY DecidedUnfolds
<1>2. ASSUME NEW n \in T PROVE n + 1 \in T
  <2>1. /\ DecidedAfter(lefts, other)[n + 1]
             = Decide(DecidedAfter(lefts, other)[n], lefts[n + 1], other)
        /\ DecidedAfter(lefts, rights)[n + 1]
             = Decide(DecidedAfter(lefts, rights)[n], lefts[n + 1], rights)
    BY DecidedUnfolds
  <2>2. DecidedAfter(lefts, other)[n] = DecidedAfter(lefts, rights)[n]
    OBVIOUS
  <2> QED
    BY <2>1, <2>2, DecideReordered
<1>3. T = Nat
  <2> HIDE DEF T
  <2>1. T \in SUBSET Nat
    BY DEF T
  <2> QED
    BY <1>1, <1>2, <2>1, Induction
<1> QED
  BY <1>3 DEF Reconcile

\* The right records may come from the database in any order: the runs look
\* at three of them, the theorem at any number.
THEOREM OrderIsIrrelevant == Spec => [](RightOrderIsIrrelevant /\ OrderNeverMatters)
<1>1. TypeOK => OrderNeverMatters
  <2> SUFFICES ASSUME TypeOK, NEW order \in Bijection(DOMAIN right, DOMAIN right)
               PROVE  Reconcile(left, [p \in DOMAIN right |-> right[order[p]]])
                        = Reconcile(left, right)
    BY DEF OrderNeverMatters
  <2>1. left \in Seq(CanonicalLedgerRecord) /\ right \in Seq(CanonicalLedgerRecord)
    BY InputsAreRecordSequences DEF TypeOK
  <2>2. Len(left) \in Nat /\ Len(right) \in Nat /\ DOMAIN right = 1..Len(right)
    BY <2>1
  <2>3. IsFiniteSet(DOMAIN right)
    BY <2>2, FS_Interval
  <2>4. PICK other : other = [p \in DOMAIN right |-> right[order[p]]]
    OBVIOUS
  <2>5. Reordered(right, order, other)
    <3>1. order \in [DOMAIN right -> DOMAIN right] /\ IsInjective(order)
      BY DEF Bijection, Injection
    <3>2. \A q \in DOMAIN right : \E p \in DOMAIN right : order[p] = q
      BY DEF Bijection, Surjection
    <3> QED
      BY <2>4, <3>1, <3>2 DEF Reordered, IsInjective
  <2> QED
    BY <2>2, <2>3, <2>4, <2>5, ReconcileReordered
<1>2. OrderNeverMatters => RightOrderIsIrrelevant
  BY DEF RightOrderIsIrrelevant
<1> QED
  BY <1>1, <1>2, TypeCorrect, PTL

-----------------------------------------------------------------------------
(* What reconciling two records alone says of a run of many. *)

\* Two records reconciled alone match exactly when they are compatible.
LEMMA AloneIsCompatible ==
    ASSUME NEW l, NEW r
    PROVE  MatchesAlone(l, r) <=> TierOf(l, r) # 0
<1>1. Len(<<l>>) = 1 /\ <<l>>[1] = l /\ <<r>>[1] = r /\ DOMAIN <<r>> = {1}
  OBVIOUS
<1>2. PICK end : end = Decide(NothingDecided, l, <<r>>)
  OBVIOUS
<1>3. DecidedAfter(<<l>>, <<r>>)[1] = end
  <2>1. DecidedAfter(<<l>>, <<r>>)[0] = NothingDecided
    BY DecidedUnfolds
  <2>2. DecidedAfter(<<l>>, <<r>>)[0 + 1]
          = Decide(DecidedAfter(<<l>>, <<r>>)[0], <<l>>[0 + 1], <<r>>)
    BY DecidedUnfolds
  <2> QED
    BY <1>1, <1>2, <2>1, <2>2
<1>4. MatchesAlone(l, r) <=> end.matches # <<>>
  BY <1>1, <1>3 DEF MatchesAlone, Reconcile
<1>5. NothingDecided.used = {} /\ NothingDecided.matches = <<>>
  BY DEF NothingDecided
<1>6. Free(NothingDecided.used, l, <<r>>) = FindCandidates(l, <<r>>, {1})
  BY <1>1, <1>5 DEF Free
<1>7. CASE TierOf(l, r) # 0
  <2>1. Free(NothingDecided.used, l, <<r>>) = {1}
    BY <1>1, <1>6, <1>7, TierOfRange DEF FindCandidates
  <2>2. end = Matched(NothingDecided, l, r)
    BY <1>1, <1>2, <2>1, DecideMatches
  <2>3. end.matches = Append(<<>>, MatchDecision(l, r))
    BY <1>5, <2>2 DEF Matched
  <2>4. Append(<<>>, MatchDecision(l, r)) # <<>>
    OBVIOUS
  <2> QED
    BY <1>4, <1>7, <2>3, <2>4
<1>8. CASE TierOf(l, r) = 0
  <2>1. FindCandidates(l, <<r>>, DOMAIN <<r>>) = {}
    BY <1>1, <1>8, NoCandidates
  <2>2. end = Raised(NothingDecided, l, ClassifyException(l, <<r>>), "unmatched")
    BY <1>2, <2>1, DecideUnmatched
  <2>3. end.matches = <<>>
    BY <1>5, <2>2 DEF Raised
  <2> QED
    BY <1>4, <1>8, <2>3
<1> QED
  BY <1>7, <1>8

\* A matched pair is compatible, and a compatible pair with no other partner
\* on either side is matched: the benchmark of labelled pairs measures a run.
THEOREM BenchmarkIsNoStricter == Spec => []AloneIsNoStricter
<1>1. TypeOK /\ Safety => AloneIsNoStricter
  <2> SUFFICES ASSUME TypeOK, EveryLeftDecidedOnce, NothingForced, ContestsAreReal,
                      Returned, Distinct(left), Distinct(right),
                      NEW a \in DOMAIN left, NEW b \in DOMAIN right
               PROVE  LET l == left[a]
                          r == right[b]
                          matched == <<l.id, r.id>> \in ActualPairs(Made(matches))
                          sole == /\ PartnersOf(l) \subseteq {r.id}
                                  /\ \A c \in DOMAIN left \ {a} :
                                        r.id \notin PartnersOf(left[c])
                      IN  /\ matched => MatchesAlone(l, r)
                          /\ sole /\ MatchesAlone(l, r) => matched
    BY DEF AloneIsNoStricter, Safety
  <2> DEFINE l == left[a]
             r == right[b]
  <2>1. DOMAIN left = 1..Len(left) /\ Len(left) \in Nat
    BY InputsAreRecordSequences DEF TypeOK
  <2>2. \A k \in DOMAIN matches :
           /\ matches[k].at \in DOMAIN left
           /\ matches[k].made.tier \in 1..3
    <3>1. matches \in Seq([at : 1..Len(left), made : MatchDecisions])
      BY DEF TypeOK
    <3>2. \A k \in DOMAIN matches : matches[k] \in [at : 1..Len(left), made : MatchDecisions]
      BY <3>1, Members, Zenon
    <3>3. \A k \in DOMAIN matches :
             matches[k].at \in 1..Len(left) /\ matches[k].made \in MatchDecisions
      BY <3>2
    <3>4. \A made \in MatchDecisions : made.tier \in 1..3
      BY DEF MatchDecisions
    <3> QED
      BY <2>1, <3>3, <3>4
  <2>3. ASSUME NEW k \in DOMAIN matches
        PROVE  \E p \in DOMAIN right :
                  /\ right[p].id = matches[k].made.right
                  /\ TierOf(left[matches[k].at], right[p]) # 0
    <3>1. Unforced(k)
      BY <2>3 DEF NothingForced
    <3>2. PICK p \in DOMAIN right :
             /\ right[p].id = matches[k].made.right
             /\ TierOf(left[matches[k].at], right[p]) = matches[k].made.tier
      BY <3>1 DEF Unforced
    <3>3. matches[k].made.tier # 0
      BY <2>2, <2>3
    <3> QED
      BY <3>2, <3>3
  <2>4. ActualPairs(Made(matches))
          = {<<matches[k].made.left, matches[k].made.right>> : k \in DOMAIN matches}
    BY DEF ActualPairs, Made
  <2>5. ASSUME <<l.id, r.id>> \in ActualPairs(Made(matches))
        PROVE  TierOf(l, r) # 0
    <3>1. PICK k \in DOMAIN matches :
             matches[k].made.left = l.id /\ matches[k].made.right = r.id
      BY <2>4, <2>5
    <3>2. matches[k].at = a
      BY <2>2, <3>1 DEF EveryLeftDecidedOnce, Distinct
    <3>3. PICK p \in DOMAIN right :
             right[p].id = r.id /\ TierOf(left[matches[k].at], right[p]) # 0
      BY <2>3, <3>1
    <3>4. p = b
      BY <3>3 DEF Distinct
    <3> QED
      BY <3>2, <3>3, <3>4
  <2>6. ASSUME PartnersOf(l) \subseteq {r.id},
               \A c \in DOMAIN left \ {a} : r.id \notin PartnersOf(left[c]),
               TierOf(l, r) # 0
        PROVE  <<l.id, r.id>> \in ActualPairs(Made(matches))
    <3>1. CASE \E k \in DOMAIN matches : matches[k].at = a
      <4>1. PICK k \in DOMAIN matches : matches[k].at = a
        BY <3>1
      <4>2. matches[k].made.right \in PartnersOf(l)
        BY <2>3, <4>1 DEF PartnersOf
      <4>3. matches[k].made.left = l.id
        BY <4>1 DEF EveryLeftDecidedOnce
      <4> QED
        BY <2>4, <2>6, <4>2, <4>3
    <3>2. CASE \E k \in DOMAIN exceptions : exceptions[k].at = a
      <4>1. PICK k \in DOMAIN exceptions : exceptions[k].at = a
        BY <3>2
      <4>2. PICK compatible : compatible = CompatiblePositions(l)
        OBVIOUS
      <4>3. compatible = {b}
        <5>1. b \in compatible
          BY <2>6, <4>2 DEF CompatiblePositions
        <5>2. \A p \in compatible : p \in DOMAIN right /\ right[p].id = r.id
          BY <2>6, <4>2 DEF CompatiblePositions, PartnersOf
        <5> QED
          BY <5>1, <5>2 DEF Distinct
      <4>4. exceptions[k].made.cause \in {"several-free", "already-consumed", "unmatched"}
        <5>1. exceptions \in Seq([at : 1..Len(left), made : ExceptionDecisions])
          BY DEF TypeOK
        <5>2. exceptions[k] \in [at : 1..Len(left), made : ExceptionDecisions]
          BY <5>1, Members, Zenon
        <5>3. exceptions[k].made \in ExceptionDecisions
          BY <5>2
        <5> QED
          BY <5>3 DEF ExceptionDecisions, ExceptionCause
      <4>5. RealContest(k)
        BY DEF ContestsAreReal
      <4>6. exceptions[k].made.cause # "unmatched"
        BY <4>1, <4>2, <4>3, <4>5 DEF RealContest
      <4>7. exceptions[k].made.cause # "several-free"
        <5>1. Cardinality(compatible) = 1
          BY <4>3, FS_Singleton
        <5>2. ~(Cardinality(compatible) > 1)
          BY <5>1
        <5> QED
          BY <4>1, <4>2, <4>5, <5>2 DEF RealContest
      <4>8. ~(\E j \in DOMAIN matches :
                 matches[j].made.right = r.id /\ matches[j].at < a)
        <5> SUFFICES ASSUME NEW j \in DOMAIN matches,
                            matches[j].made.right = r.id, matches[j].at < a
                     PROVE  FALSE
          OBVIOUS
        <5>1. matches[j].at \in DOMAIN left \ {a}
          BY <2>1, <2>2
        <5>2. r.id \in PartnersOf(left[matches[j].at])
          BY <2>3 DEF PartnersOf
        <5> QED
          BY <2>6, <5>1, <5>2
      <4>9. exceptions[k].made.cause # "already-consumed"
        BY <4>1, <4>2, <4>3, <4>5, <4>8 DEF RealContest
      <4> QED
        BY <4>4, <4>6, <4>7, <4>9
    <3>3. a \in 1..(next - 1)
      BY <2>1 DEF TypeOK, Returned
    <3> QED
      BY <3>1, <3>2, <3>3 DEF EveryLeftDecidedOnce, PositionsOf
  <2> QED
    BY <2>5, <2>6, AloneIsCompatible
<1> QED
  BY <1>1, TypeCorrect, SafetyAlways, PTL

=============================================================================
