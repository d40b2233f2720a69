----------------------------- MODULE MCCopilot -----------------------------
(***************************************************************************)
(* Three exceptions of two runs, two of them of one line, one more than    *)
(* the limit of a retrieval; a question for the biggest, one whose terms   *)
(* fit the oldest only, which a crowd can push out of the retrieval, and   *)
(* one whose terms fit the newest, which nothing can.                      *)
(***************************************************************************)
EXTENDS Copilot, TLC

MCException == {"e1", "e2", "e3"}
MCLineOf == "e1" :> "a" @@ "e2" :> "b" @@ "e3" :> "b"
MCOpenedAt == "e1" :> 1 @@ "e2" :> 1 @@ "e3" :> 2
MCTerms == "biggest" :> {} @@ "old" :> {"e1"} @@ "recent" :> {"e2", "e3"}
MCAmountOf == "a" :> 2 @@ "b" :> 1

=============================================================================
