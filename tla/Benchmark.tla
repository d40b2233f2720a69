----------------------------- MODULE Benchmark -----------------------------
(***************************************************************************)
(* The accuracy benchmarks: the generated workload with its authored       *)
(* expectations (packages/engine/synthetic.py), the confusion counts and   *)
(* the report of a whole run (bench.py), and the benchmark of golden       *)
(* labels, which reconciles each labelled pair alone (api/accuracy.py).    *)
(* Amounts are in cents.  Of a payload only what normalize_payloads makes  *)
(* of it is kept.                                                          *)
(***************************************************************************)
EXTENDS Engine, TLC

Scenario(i) ==
    <<"exact", "tolerant", "description", "unmatched", "amount", "date",
      "currency", "duplicate", "one_to_one", "review">>[1 + (i % 10)]

\* quantize: the nearest integer to n/d, halves to even.
Quantized(n, d) ==
    LET floor == n \div d
        twice == 2 * (n % d)
    IN  IF twice > d \/ (twice = d /\ floor % 2 = 1) THEN floor + 1 ELSE floor

Name(kind, i) == kind \o ToString(i)

Payload(id, ref, amount, currency, day, i) ==
    [id |-> id, ref |-> ref, amount |-> amount, currency |-> currency, day |-> day,
     words |-> {"merchant", "settlement", "batch", Name("", i)}, transit |-> FALSE]

Amount(i) == 7500 + 100 * i + (i % 100)

Day(i) == 1 + (i % 27)

\* Each list of the dataset, by the index its records come from.
LeftsOf(i) ==
    LET ref == IF Scenario(i) \in {"description", "review"} THEN NoRef
               ELSE Name("BATCH-", i)
        record(id) == Payload(Name(id, i), ref, Amount(i), "USD", Day(i), i)
    IN  IF Scenario(i) = "one_to_one" THEN <<record("left"), record("one-to-one-left")>>
        ELSE <<record("left")>>

RightsOf(i) ==
    LET scenario == Scenario(i)
        ref == CASE scenario = "description" -> Name("OTHER-", i)
                 [] scenario = "unmatched" -> Name("STALE-", i)
                 [] scenario = "review" -> Name("REVIEW-", i)
                 [] OTHER -> Name("BATCH-", i)
        amount == CASE scenario = "unmatched" -> Amount(i) + 1700
                    [] scenario = "amount" -> Quantized(Amount(i) * 105, 100)
                    [] scenario = "date" -> Quantized(Amount(i) * 1005, 1000)
                    [] OTHER -> Amount(i)
        currency == IF scenario = "currency" THEN "EUR" ELSE "USD"
        day == IF scenario = "date" THEN Day(i) + 10 ELSE Day(i)
        record(id) == Payload(Name(id, i), ref, amount, currency, day, i)
    IN  IF scenario = "duplicate" THEN <<record("right"), record("duplicate")>>
        ELSE <<record("right")>>

\* The pairs that are expected to match, and those that are not.
ExpectedOf(i) ==
    LET pair(l) == <<Name(l, i), Name("right", i)>>
        matches == {"exact", "tolerant", "description", "review", "one_to_one"}
    IN  {[pair |-> pair("left"), match |-> Scenario(i) \in matches]}
        \cup IF Scenario(i) = "one_to_one"
             THEN {[pair |-> pair("one-to-one-left"), match |-> FALSE]} ELSE {}

ProviderOnly ==
    [id |-> "provider-only", ref |-> "PROVIDER-ONLY", amount |-> 999999,
     currency |-> "USD", day |-> 1, words |-> {"provider", "only", "settlement"},
     transit |-> FALSE]

\* generate_synthetic_dataset of a record_count.
Dataset(n) ==
    [left |-> FlattenSeq([i \in 1..n |-> LeftsOf(i - 1)]),
     right |-> Append(FlattenSeq([i \in 1..n |-> RightsOf(i - 1)]), ProviderOnly),
     expected |-> UNION {ExpectedOf(i) : i \in 0..(n - 1)}]

-----------------------------------------------------------------------------

\* calculate_metrics: how the predicted pairs fare against the labels.
Metrics(labels, predicted) ==
    LET count(expected, guessed) ==
            Cardinality({label \in labels :
                label.match = expected /\ (label.pair \in predicted) = guessed})
    IN  [tp |-> count(TRUE, TRUE), fp |-> count(FALSE, TRUE),
         fn |-> count(TRUE, FALSE), tn |-> count(FALSE, FALSE)]

\* run_scalability_benchmark: the pairs a run matched.
ActualPairs(made) == {<<made[k].left, made[k].right>> : k \in DOMAIN made}

\* benchmark_database: the pair is reconciled with no other record in sight.
MatchesAlone(l, r) == Reconcile(<<l>>, <<r>>).matches # <<>>

=============================================================================
