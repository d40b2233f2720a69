------------------------------ MODULE Results ------------------------------
(***************************************************************************)
(* What those who call matcher.reconcile rely on: that it is a function,   *)
(* which does not depend on the order of the right records, and what a     *)
(* benchmark that reconciles two records alone says of a run of many.      *)
(***************************************************************************)
EXTENDS Reconciliation, Benchmark

Made(decisions) == [k \in DOMAIN decisions |-> decisions[k].made]

\* The function module RunService calls is the one the loop computes.
LoopComputesReconcile ==
    Returned =>
        Reconcile(left, right)
            = [matches |-> Made(matches), exceptions |-> Made(exceptions)]

OrderNeverMatters ==
    \A order \in Bijection(DOMAIN right, DOMAIN right) :
        Reconcile(left, [p \in DOMAIN right |-> right[order[p]]]) = Reconcile(left, right)

\* create_run and reconcile_all_task SELECT the ids with no ORDER BY: the
\* order up to three right records come back in changes nothing in the
\* result.
RightOrderIsIrrelevant == Returned /\ Len(right) <= 3 => OrderNeverMatters

\* Ids are primary keys of ledger_lines.
Distinct(records) ==
    \A j, k \in DOMAIN records : records[j].id = records[k].id => j = k

\* benchmark_database judges each labelled pair alone: that reports no fewer
\* matches than a run makes of the same records, and no others if no record
\* has a second partner.  So what it measures is the run's own accuracy where
\* nothing is contested, and an upper bound of its recall everywhere.
AloneIsNoStricter ==
    Returned /\ Distinct(left) /\ Distinct(right) =>
        \A a \in DOMAIN left, b \in DOMAIN right :
            LET l == left[a]
                r == right[b]
                matched == <<l.id, r.id>> \in ActualPairs(Made(matches))
                sole == /\ PartnersOf(l) \subseteq {r.id}
                        /\ \A c \in DOMAIN left \ {a} : r.id \notin PartnersOf(left[c])
            IN  /\ matched => MatchesAlone(l, r)
                /\ sole /\ MatchesAlone(l, r) => matched

=============================================================================
