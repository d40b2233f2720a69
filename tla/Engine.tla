------------------------------- MODULE Engine -------------------------------
(***************************************************************************)
(* matcher.reconcile as the function its callers see: the whole loop by    *)
(* recursion over the left records.  The loop of module Reconciliation     *)
(* returns exactly this.                                                   *)
(***************************************************************************)
EXTENDS Matcher, SequencesExt

NothingDecided == [used |-> {}, matches |-> <<>>, exceptions |-> <<>>]

\* One iteration of the loop: `done' is what the earlier ones accumulated.
Decide(done, l, rights) ==
    LET free == FindCandidates(l, rights,
                    {p \in DOMAIN rights : rights[p].id \notin done.used})
        any == FindCandidates(l, rights, DOMAIN rights)
        Except(code, cause) ==
            [done EXCEPT !.exceptions =
                Append(@, ExceptionDecision(l, code, cause))]
    IN  IF Cardinality(free) > 1
            THEN Except("DUPLICATE_CANDIDATE", "several-free")
        ELSE IF free # {}
            THEN LET r == rights[CHOOSE p \in free : TRUE]
                 IN  [done EXCEPT !.used = @ \cup {r.id},
                                  !.matches = Append(@, MatchDecision(l, r))]
        ELSE IF any # {}
            THEN Except("DUPLICATE_CANDIDATE", "already-consumed")
        ELSE Except(ClassifyException(l, rights), "unmatched")

\* What the loop has decided after n of the left records.
DecidedAfter(lefts, rights) ==
    LET done[n \in Nat] == IF n = 0 THEN NothingDecided
                           ELSE Decide(done[n - 1], lefts[n], rights)
    IN  done

\* ReconciliationResult of the call reconcile(lefts, rights).
Reconcile(lefts, rights) ==
    LET end == DecidedAfter(lefts, rights)[Len(lefts)]
    IN  [matches |-> end.matches, exceptions |-> end.exceptions]

-----------------------------------------------------------------------------
(* What those who store the result count on. *)

DecidedIds(decisions) == {decisions[k].left : k \in DOMAIN decisions}

\* The call returns one decision for each left record it was given and about
\* no other id; each match is of two given records that qualify for each
\* other, with their tier and confidence, and no right id is matched twice.
Accounts(lefts, rights, result) ==
    /\ Len(result.matches) + Len(result.exceptions) = Len(lefts)
    /\ DecidedIds(result.matches) \cup DecidedIds(result.exceptions)
          = {lefts[a].id : a \in DOMAIN lefts}
    /\ \A k \in DOMAIN result.matches :
          \E a \in DOMAIN lefts, p \in DOMAIN rights :
              /\ TierOf(lefts[a], rights[p]) # 0
              /\ result.matches[k] = MatchDecision(lefts[a], rights[p])
    /\ \A j, k \in DOMAIN result.matches :
          result.matches[j].right = result.matches[k].right => j = k

=============================================================================
