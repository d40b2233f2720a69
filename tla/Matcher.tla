------------------------------ MODULE Matcher ------------------------------
(***************************************************************************)
(* The pure decisions of packages/engine/reconciliation: scoring.py and    *)
(* the per-record rules of matcher.py, as operators over canonical ledger  *)
(* records.                                                                *)
(*                                                                         *)
(* Units: an amount is a whole number of minor units (the column is        *)
(* Numeric(14,2), so the engine's two-decimal quantization is exact), a    *)
(* similarity or confidence is in thousandths (both are quantized to       *)
(* 0.001), the tolerance is in basis points (1.5% = 150) and a date is a   *)
(* day number.  A description is abstracted to the two things the engine   *)
(* reads from it: its set of lower-case tokens, and whether it holds one   *)
(* of the "in transit" phrases.  An empty and an absent external_ref are   *)
(* both falsy in the code and are both NoRef here.                         *)
(***************************************************************************)
EXTENDS Integers, Sequences, FiniteSets

CONSTANTS
    Line,             \* identifiers of ledger lines
    Ref,              \* non-empty external references
    NoRef,            \* no (or an empty) external reference
    Currency,         \* currency codes
    Word,             \* description tokens
    ToleranceBp,      \* MatcherConfig.amount_tolerance_pct, in basis points
    WindowDays,       \* MatcherConfig.date_window_days
    AutoAccept,       \* MatcherConfig.auto_accept_confidence, in thousandths
    SimilarityFloor   \* MatcherConfig.tier_three_similarity_threshold

ASSUME NoRefIsNoReference == NoRef \notin Ref

ASSUME MatcherConfigIsNatural ==
    /\ ToleranceBp \in Nat \ {0}
    /\ WindowDays \in Nat
    /\ AutoAccept \in Nat
    /\ SimilarityFloor \in Nat

Description == {words \in SUBSET Word : IsFiniteSet(words)}

CanonicalLedgerRecord ==
    [id : Line, ref : Ref \cup {NoRef}, amount : Int, currency : Currency,
     day : Int, words : Description, transit : BOOLEAN]

-----------------------------------------------------------------------------
(* scoring.py *)

Distance(a, b) == IF a >= b THEN a - b ELSE b - a

AbsoluteAmountVariance(a, b) == Distance(a, b)

DateDistance(a, b) == Distance(a, b)

\* Round n/d to the nearest integer, halves up (n >= 0, d > 0).
HalfUp(n, d) == (2 * n + d) \div (2 * d)

\* The baseline is the left amount: the relation is not symmetric.
WithinAmountTolerance(l, r) ==
    IF l = 0 THEN r = 0
    ELSE AbsoluteAmountVariance(l, r) * 10000 <= Distance(l, 0) * ToleranceBp

WithinDateWindow(a, b) == DateDistance(a, b) <= WindowDays

\* Jaccard similarity of the two token sets.
DescriptionSimilarity(v, w) ==
    IF v = {} \/ w = {} THEN 0
    ELSE HalfUp(1000 * Cardinality(v \cap w), Cardinality(v \cup w))

\* 0.95 less up to 0.03 for the amount and up to 0.02 for the date, clamped
\* to [0, 1]; the fractions are brought over one denominator before rounding.
TierTwoConfidence(l, r) ==
    LET span == IF WindowDays > 1 THEN WindowDays ELSE 1
        base == IF l.amount = 0 THEN 1 ELSE Distance(l.amount, 0) * ToleranceBp
        variance == IF l.amount = 0 THEN 0
                    ELSE AbsoluteAmountVariance(l.amount, r.amount) * 10000
        whole == base * span
        score == 950 * whole - 30 * variance * span
                             - 20 * DateDistance(l.day, r.day) * base
        clamped == IF score < 0 THEN 0
                   ELSE IF score > 1000 * whole THEN 1000 * whole
                   ELSE score
    IN  HalfUp(clamped, whole)

TierThreeConfidence(similarity) == 700 + HalfUp(similarity, 5)

-----------------------------------------------------------------------------
(* matcher.py, _find_candidates: the tier at which r is a candidate for l. *)

SameReference(l, r) == l.ref # NoRef /\ r.ref = l.ref

Similarity(l, r) == DescriptionSimilarity(l.words, r.words)

IsTierOne(l, r) ==
    /\ l.currency = r.currency
    /\ SameReference(l, r)
    /\ l.amount = r.amount

IsTierTwo(l, r) ==
    /\ l.currency = r.currency
    /\ SameReference(l, r)
    /\ l.amount # r.amount
    /\ WithinAmountTolerance(l.amount, r.amount)
    /\ WithinDateWindow(l.day, r.day)

IsTierThree(l, r) ==
    /\ l.currency = r.currency
    /\ l.ref = NoRef
    /\ l.amount = r.amount
    /\ WithinDateWindow(l.day, r.day)
    /\ Similarity(l, r) >= SimilarityFloor

\* The tier a pair qualifies for; 0 when it qualifies for none.
TierOf(l, r) ==
    IF IsTierOne(l, r) THEN 1
    ELSE IF IsTierTwo(l, r) THEN 2
    ELSE IF IsTierThree(l, r) THEN 3
    ELSE 0

\* Fault: the scan stops at the first hit.
FindFirstCandidate(l, rights, within) ==
    {p \in within : /\ TierOf(l, rights[p]) # 0
                    /\ \A q \in within : TierOf(l, rights[q]) # 0 => p <= q}

\* The positions of `rights` in `within` that hold candidates for l: those of
\* the best tier that has any.  Positions, not ids: a right record listed
\* twice is two candidates.
FindCandidates(l, rights, within) ==
    LET At(t) == {p \in within : TierOf(l, rights[p]) = t}
    IN  IF At(1) # {} THEN At(1)
        ELSE IF At(2) # {} THEN At(2)
        ELSE At(3)

Confidence(l, r) ==
    IF TierOf(l, r) = 1 THEN 1000
    ELSE IF TierOf(l, r) = 2 THEN TierTwoConfidence(l, r)
    ELSE TierThreeConfidence(Similarity(l, r))

MatchStatus == {"auto-matched", "matched-needs-review"}

\* Fault: the threshold itself does not pass.
StatusAbove(confidence) ==
    IF confidence > AutoAccept THEN "auto-matched" ELSE "matched-needs-review"

StatusFor(confidence) ==
    IF confidence >= AutoAccept THEN "auto-matched" ELSE "matched-needs-review"

MatchDecisions ==
    [left : Line, right : Line, tier : 1..3, confidence : Int, variance : Int,
     status : MatchStatus]

MatchDecision(l, r) ==
    [left |-> l.id, right |-> r.id, tier |-> TierOf(l, r),
     confidence |-> Confidence(l, r),
     variance |-> AbsoluteAmountVariance(l.amount, r.amount),
     status |-> StatusFor(Confidence(l, r))]

-----------------------------------------------------------------------------
(* matcher.py, _classify_exception *)

ReasonCode ==
    {"NO_COUNTERPART", "STALE_REFERENCE", "AMOUNT_VARIANCE_EXCEEDS_TOLERANCE",
     "DATE_VARIANCE_EXCEEDS_WINDOW", "IN_TRANSIT_NOT_CLEARED",
     "DUPLICATE_CANDIDATE", "CURRENCY_FX_MISMATCH"}

\* Which of the two wordings a DUPLICATE_CANDIDATE exception carries; every
\* other code has one wording.
ExceptionCause == {"several-free", "already-consumed", "unmatched"}

\* Fault: amounts are compared with any record, not those of the reference.
ClassifyByAnyAmount(l, rights) ==
    IF \E p \in DOMAIN rights : ~WithinAmountTolerance(l.amount, rights[p].amount)
    THEN "AMOUNT_VARIANCE_EXCEEDS_TOLERANCE"
    ELSE "NO_COUNTERPART"

ClassifyException(l, rights) ==
    LET all == DOMAIN rights
        sameRef == {p \in all : SameReference(l, rights[p])}
        comparable == {p \in all : rights[p].currency = l.currency}
        outOfTolerance(p) == ~WithinAmountTolerance(l.amount, rights[p].amount)
        outOfWindow(p) == ~WithinDateWindow(l.day, rights[p].day)
    IN  IF l.transit THEN "IN_TRANSIT_NOT_CLEARED"
        ELSE IF ~(sameRef \subseteq comparable) THEN "CURRENCY_FX_MISMATCH"
        ELSE IF \E p \in sameRef : outOfTolerance(p)
             THEN "AMOUNT_VARIANCE_EXCEEDS_TOLERANCE"
        ELSE IF \E p \in sameRef : outOfWindow(p)
             THEN "DATE_VARIANCE_EXCEEDS_WINDOW"
        ELSE IF comparable = {} /\ all # {} THEN "CURRENCY_FX_MISMATCH"
        ELSE IF comparable = {} THEN "NO_COUNTERPART"
        ELSE IF l.ref # NoRef THEN "STALE_REFERENCE"
        ELSE IF \E p \in comparable :
                   l.amount = rights[p].amount /\ outOfWindow(p)
             THEN "DATE_VARIANCE_EXCEEDS_WINDOW"
        ELSE "NO_COUNTERPART"

ExceptionDecisions ==
    [left : Line, code : ReasonCode, cause : ExceptionCause]

ExceptionDecision(l, code, cause) == [left |-> l.id, code |-> code, cause |-> cause]

=============================================================================
