---------------------------- MODULE MCRunButton ----------------------------
(***************************************************************************)
(* Three clicks over two visits of the page: two on one visit, or one      *)
(* beside a chain that an earlier visit left behind.  Two polls instead of *)
(* 120, two runs, which clicks may share.                                  *)
(***************************************************************************)
EXTENDS RunButton

=============================================================================
