---------------------------- MODULE MCRunService ----------------------------
(***************************************************************************)
(* Two bank lines that compete for one gateway line: b1 qualifies at tier  *)
(* 2, b2 at tier 1 with a settlement lag of 1000 days that does not fit    *)
(* its column.  The order of the ids decides the result, and whether there *)
(* is one, while the run id ignores it.  x1 is an invoice's line, which    *)
(* looks like b1.                                                          *)
(***************************************************************************)
EXTENDS RunService

Rec(id, amount, day) ==
    [id |-> id, ref |-> "A", amount |-> amount, currency |-> "INR",
     day |-> day, words |-> {}, transit |-> FALSE]

MCLine == {"b1", "b2", "g1", "x1"}

MCLedger ==
    ("b1" :> Rec("b1", 201, 10)) @@ ("b2" :> Rec("b2", 200, 1010))
        @@ ("g1" :> Rec("g1", 200, 10)) @@ ("x1" :> Rec("x1", 201, 10))

MCBookLine == {"b1", "b2"}
MCGatewayLine == {"g1"}

MCRequest == {
    <<<<"b1", "b2">>, <<"g1">>>>,
    <<<<"b2", "b1">>, <<"g1">>>>,
    <<<<"b1", "b1">>, <<"g1">>>>,
    <<<<"b1">>, <<>>>>,
    <<<<>>, <<>>>>}

\* The ledger starts with b1; any others are there or come.
MCInit == Init /\ "b1" \in stored
MCSpec == MCInit /\ [][Next]_vars /\ WF_vars(\E c \in Call : Serve(c))

=============================================================================
