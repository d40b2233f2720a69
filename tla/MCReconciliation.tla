-------------------------- MODULE MCReconciliation --------------------------
(***************************************************************************)
(* The matching loop on every input of up to three left and two right      *)
(* records, and two left and three right records, drawn with repetition    *)
(* from records chosen to meet every rule of matcher.py: both sides of the *)
(* tolerance (3 on 200 at 1.5%), of the date window and of the similarity  *)
(* floor, shared, missing and foreign references, other currencies, a      *)
(* payment in transit.  And the loop on the generated workload of the      *)
(* scalability benchmark, at three sizes.                                  *)
(***************************************************************************)
EXTENDS Results

CatalogueLine == {"l1", "l2", "l3", "l4", "l5", "l6", "l7",
           "r1", "r2", "r3", "r4", "r5", "r6", "r7"}

CatalogueWord == {"acme", "invoice", "in", "transit"}

Acme == {"acme", "invoice"}

Rec(id, ref, amount, currency, day, words) ==
    [id |-> id, ref |-> ref, amount |-> amount, currency |-> currency,
     day |-> day, words |-> words, transit |-> {"in", "transit"} \subseteq words]

LeftRecords == {
    Rec("l1", "A", 200, "INR", 10, Acme),
    Rec("l2", "A", 200, "INR", 10, {}),
    Rec("l3", NoRef, 200, "INR", 10, Acme),
    Rec("l4", NoRef, 200, "INR", 10, {"acme"}),
    Rec("l5", "B", 200, "INR", 10, {"in", "transit"}),
    Rec("l6", "B", 200, "USD", 10, Acme),
    Rec("l7", "C", 0, "INR", 10, Acme)}

RightRecords == {
    Rec("r1", "A", 200, "INR", 99, {"acme"}),
    Rec("r2", "A", 203, "INR", 15, Acme),
    Rec("r3", "A", 204, "INR", 10, Acme),
    Rec("r4", "A", 199, "INR", 16, Acme),
    Rec("r5", NoRef, 200, "INR", 15, Acme),
    Rec("r6", "B", 200, "INR", 5, {"acme"}),
    Rec("r7", "C", 1, "INR", 10, {})}

Generated == (1 :> Dataset(1)) @@ (14 :> Dataset(14)) @@ (33 :> Dataset(33))

GeneratedRecords == UNION {ToSet(data.left) \cup ToSet(data.right) : data \in Range(Generated)}

MCLine == CatalogueLine \cup {r.id : r \in GeneratedRecords}
MCRef == ({"A", "B", "C"} \cup {r.ref : r \in GeneratedRecords}) \ {NoRef}
MCCurrency == {"INR", "USD", "EUR"}
MCWord == CatalogueWord \cup UNION {r.words : r \in GeneratedRecords}

MCInputs ==
    (BoundedSeq(LeftRecords, 3) \X BoundedSeq(RightRecords, 2))
    \cup (BoundedSeq(LeftRecords, 2) \X TupleOf(RightRecords, 3))
    \cup {<<data.left, data.right>> : data \in Range(Generated)}

-----------------------------------------------------------------------------

\* What generate_synthetic_dataset says is "authored from the scenario type,
\* not inferred from the matcher output" (synthetic.py:104) is what the
\* matcher does with all the scenarios in one run: every label is met, and
\* the records that are not expected to match are the exceptions.
GeneratedAsExpected ==
    Returned /\ ProviderOnly \in ToSet(right) =>
        \A n \in {k \in DOMAIN Generated : right = Generated[k].right} :
            LET found == Metrics(Generated[n].expected, ActualPairs(Made(matches)))
            IN  /\ found.fp = 0 /\ found.fn = 0
                /\ Len(matches) = found.tp /\ Len(exceptions) = found.tn

=============================================================================
