--------------------------- MODULE Reconciliation ---------------------------
(***************************************************************************)
(* matcher.reconcile as the loop it is: one pass over the left records, in *)
(* the caller's order, each settled by one branch of the loop body against *)
(* the right records no earlier match has used.                            *)
(*                                                                         *)
(* `matches' and `exceptions' are the function's two lists.  Their `at'    *)
(* field is history: the position of the left record in the input, which   *)
(* tells two occurrences of one id apart.                                  *)
(***************************************************************************)
EXTENDS Matcher

CONSTANT Inputs   \* the <<left_records, right_records>> the function is called with

ASSUME InputsAreRecordSequences ==
    Inputs \subseteq Seq(CanonicalLedgerRecord) \X Seq(CanonicalLedgerRecord)

VARIABLES
    left,         \* left_records
    right,        \* right_records
    next,         \* position of the left record the loop is at
    usedRightIds, \* used_right_ids
    matches,
    exceptions

inputVars == <<left, right>>
vars == <<left, right, next, usedRightIds, matches, exceptions>>

Init ==
    /\ \E input \in Inputs : left = input[1] /\ right = input[2]
    /\ next = 1
    /\ usedRightIds = {}
    /\ matches = <<>>
    /\ exceptions = <<>>

\* Faults: used records stay available; the scan of the right records only
\* moves forward.
AvailableAlways == DOMAIN right

AvailableForward ==
    {p \in DOMAIN right : \A q \in DOMAIN right : right[q].id \in usedRightIds => q < p}

Available == {p \in DOMAIN right : right[p].id \notin usedRightIds}

FreeCandidates == FindCandidates(left[next], right, Available)

\* Fault: the second look leaves the used records out as well.
AnyFreeCandidates == FreeCandidates

AnyCandidates == FindCandidates(left[next], right, DOMAIN right)

RaiseException(code, cause) ==
    exceptions' = Append(exceptions,
        [at |-> next, made |-> ExceptionDecision(left[next], code, cause)])

\* More than one free candidate: nothing is forced.
Ambiguous ==
    /\ next <= Len(left)
    /\ Cardinality(FreeCandidates) > 1
    /\ RaiseException("DUPLICATE_CANDIDATE", "several-free")
    /\ next' = next + 1
    /\ UNCHANGED <<inputVars, usedRightIds, matches>>

\* Exactly one free candidate: it is used up.
MatchSole ==
    /\ next <= Len(left)
    /\ \E p \in DOMAIN right :
          /\ FreeCandidates = {p}
          /\ usedRightIds' = usedRightIds \cup {right[p].id}
          /\ matches' = Append(matches,
                 [at |-> next, made |-> MatchDecision(left[next], right[p])])
    /\ next' = next + 1
    /\ UNCHANGED <<inputVars, exceptions>>

\* Fault: a left record whose counterparts are all used is passed over.
PassOverConsumed ==
    /\ next <= Len(left)
    /\ FreeCandidates = {}
    /\ AnyCandidates # {}
    /\ next' = next + 1
    /\ UNCHANGED <<inputVars, usedRightIds, matches, exceptions>>

\* No free candidate, but one among the used records.
AlreadyConsumed ==
    /\ next <= Len(left)
    /\ FreeCandidates = {}
    /\ AnyCandidates # {}
    /\ RaiseException("DUPLICATE_CANDIDATE", "already-consumed")
    /\ next' = next + 1
    /\ UNCHANGED <<inputVars, usedRightIds, matches>>

\* No candidate at all: the record is classified.
Unmatched ==
    /\ next <= Len(left)
    /\ AnyCandidates = {}
    /\ RaiseException(ClassifyException(left[next], right), "unmatched")
    /\ next' = next + 1
    /\ UNCHANGED <<inputVars, usedRightIds, matches>>

Next == Ambiguous \/ MatchSole \/ AlreadyConsumed \/ Unmatched

Spec == Init /\ [][Next]_vars

Returned == next > Len(left)

-----------------------------------------------------------------------------
(* Invariants *)

\* The loop's variables hold what the Python names hold: lists of decisions,
\* a set of ids, a position in the input.
TypeOK ==
    /\ <<left, right>> \in Inputs
    /\ next \in 1..(Len(left) + 1)
    /\ usedRightIds \subseteq Line
    /\ matches \in Seq([at : 1..Len(left), made : MatchDecisions])
    /\ exceptions \in Seq([at : 1..Len(left), made : ExceptionDecisions])

\* "Each right-side record can be used at most once" (matcher.py:41): no two
\* matches name one right id, whatever ids the input repeats.
RightUsedOnce ==
    \A j, k \in DOMAIN matches :
        matches[j].made.right = matches[k].made.right => j = k

PositionsOf(decisions) == {decisions[k].at : k \in DOMAIN decisions}

Ascending(decisions) ==
    \A j, k \in DOMAIN decisions : j < k => decisions[j].at < decisions[k].at

\* Matches and exceptions partition the left records scanned so far, each
\* list in input order, each decision about the record at its position: no
\* left record is dropped, and none is both matched and reported.
EveryLeftDecidedOnce ==
    /\ Ascending(matches) /\ Ascending(exceptions)
    /\ PositionsOf(matches) \cap PositionsOf(exceptions) = {}
    /\ PositionsOf(matches) \cup PositionsOf(exceptions) = 1..(next - 1)
    /\ \A k \in DOMAIN matches :
          matches[k].made.left = left[matches[k].at].id
    /\ \A k \in DOMAIN exceptions :
          exceptions[k].made.left = left[exceptions[k].at].id

TakenBefore(k) == {matches[j].made.right : j \in 1..(k - 1)}

\* Match k is to a record that qualifies at the tier it claims, and every
\* other entry that qualified at that tier or a better one was gone.
Unforced(k) ==
    LET l == left[matches[k].at]
        m == matches[k].made
    IN  \E p \in DOMAIN right :
            /\ right[p].id = m.right
            /\ TierOf(l, right[p]) = m.tier
            /\ \A q \in DOMAIN right \ {p} :
                  TierOf(l, right[q]) \in 1..m.tier
                      => right[q].id \in TakenBefore(k)

\* "Never fabricates a match to consume a candidate" (matcher.py:40): a match
\* is to a compatible record at the tier it claims, and every other record
\* that qualified for the same left at that tier or a better one had been
\* taken by an earlier match.
NothingForced == \A k \in DOMAIN matches : Unforced(k)

CompatiblePositions(l) == {p \in DOMAIN right : TierOf(l, right[p]) # 0}

\* Exception k reports a contest exactly when there is one.
RealContest(k) ==
    LET e == exceptions[k].made
        compatible == CompatiblePositions(left[exceptions[k].at])
    IN  /\ e.code = "DUPLICATE_CANDIDATE" <=> compatible # {}
        /\ e.cause = "unmatched" <=> compatible = {}
        /\ e.cause = "several-free" => Cardinality(compatible) > 1
        /\ e.cause = "already-consumed" =>
              \A p \in compatible : \E j \in DOMAIN matches :
                  /\ matches[j].made.right = right[p].id
                  /\ matches[j].at < exceptions[k].at

\* A DUPLICATE_CANDIDATE exception reports a real contest: "already
\* consumed" only when every compatible record went to earlier left records,
\* "multiple candidates" only when two compatible entries were there; and a
\* record with any compatible counterpart is never reported otherwise.
ContestsAreReal == \A k \in DOMAIN exceptions : RealContest(k)

\* What a reader may conclude from a reason code about the right records.
ReasonHolds(code, l) ==
    LET refs == {p \in DOMAIN right : SameReference(l, right[p])}
        money == {p \in DOMAIN right : right[p].currency = l.currency}
    IN  /\ code = "STALE_REFERENCE" => l.ref # NoRef /\ refs = {}
        /\ code = "AMOUNT_VARIANCE_EXCEEDS_TOLERANCE" =>
              /\ refs # {}
              /\ \E p \in refs : l.amount # right[p].amount
        /\ code = "DATE_VARIANCE_EXCEEDS_WINDOW" =>
              \E p \in money :
                 /\ ~WithinDateWindow(l.day, right[p].day)
                 /\ refs = {} => l.amount = right[p].amount
                 /\ refs # {} => p \in refs /\ l.amount # right[p].amount
        /\ code = "CURRENCY_FX_MISMATCH" =>
              /\ Len(right) > 0
              /\ refs \cap money # refs \/ money = {}
        /\ code = "NO_COUNTERPART" =>
              refs = {} /\ (l.ref # NoRef => right = <<>>)
        /\ code = "IN_TRANSIT_NOT_CLEARED" => l.transit

\* The reason code of an unmatched record tells the truth about the right
\* records: a stale reference is one no right record carries, a date variance
\* names a record that differs by its date, a reference with a counterpart is
\* never reported as having none.
ReasonsAreTrue ==
    \A k \in DOMAIN exceptions :
        ReasonHolds(exceptions[k].made.code, left[exceptions[k].at])

InItsBand(m) ==
    /\ m.status = "matched-needs-review" => m.tier = 3
    /\ m.tier = 1 => m.confidence = 1000
    /\ m.tier = 2 => m.confidence \in 900..950
    /\ m.tier = 3 => m.confidence \in 800..900

\* Only tier 3 is ever left to a reviewer (tier 2 cannot fall below the
\* auto-accept threshold), and the tiers' confidences never cross.
OnlyTierThreeIsReviewed ==
    \A k \in DOMAIN matches : InItsBand(matches[k].made)

-----------------------------------------------------------------------------
(* The abstract assignment this loop implements. *)

MatchedPairs == {<<matches[k].at, matches[k].made.right>> : k \in DOMAIN matches}

ExceptedFor(causes) ==
    {exceptions[k].at : k \in {j \in DOMAIN exceptions :
                                  exceptions[j].made.cause \in causes}}

PartnersOf(l) ==
    {right[p].id : p \in {q \in DOMAIN right : TierOf(l, right[q]) # 0}}

Abstract == INSTANCE Assignment WITH
    partners <- [at \in DOMAIN left |-> PartnersOf(left[at])],
    pairs <- MatchedPairs,
    uncontested <- ExceptedFor({"unmatched"}),
    contested <- ExceptedFor({"several-free", "already-consumed"})

\* The loop implements the assignment: each step settles one left record as
\* the abstract specification allows, whatever the scan order.
ImplementsAssignment == Abstract!AssignmentSpec

=============================================================================
