------------------------------- MODULE MCTax -------------------------------
(***************************************************************************)
(* Two lines of the general ledger, which listings can insert in opposite  *)
(* orders: one has words of tax and of wages, one has neither.  Three      *)
(* requests, so that a listing can be overtaken by another one and by a    *)
(* correction of what that one inserted; two corrections that disagree.    *)
(***************************************************************************)
EXTENDS Tax

MCWords == "gl1" :> {"tax", "wage"} @@ "gl2" :> {}

=============================================================================
