---------------------------- MODULE MCIngestion ----------------------------
(***************************************************************************)
(* Deliveries of two lines, one of them with two contents: together in     *)
(* either order (so that two batches can wait for each other), one of them *)
(* twice in one batch, and none (an empty collection).                     *)
(***************************************************************************)
EXTENDS Ingestion

MCLine == {"a", "b"}
MCBody == {"old", "new"}

Rec(id, body) == [id |-> id, body |-> body]

MCBatch == {
    <<Rec("a", "old"), Rec("b", "old")>>,
    <<Rec("b", "old"), Rec("a", "new")>>,
    <<Rec("a", "new"), Rec("a", "old")>>,
    <<>>}

=============================================================================
