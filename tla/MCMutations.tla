---------------------------- MODULE MCMutations ----------------------------
(***************************************************************************)
(* Edits of one match and one exception: patches that close, reopen,       *)
(* assign, close with a note, and say nothing.  One assignee and one note  *)
(* tell a field that was set from one that was not; `status' has the       *)
(* values to tell two writers apart.                                       *)
(***************************************************************************)
EXTENDS Mutations

MCReported ==
    [row \in Match \cup Exception |->
        IF row \in Match THEN [status |-> "matched-needs-review"]
        ELSE [status |-> "new", assignee |-> NoValue,
              resolution_note |-> NoValue, resolved_at |-> NoValue]]

MCPatch ==
    {[status |-> "resolved"], [status |-> "new"],
     [status |-> "written_off", resolution_note |-> "paid"],
     [assignee |-> "asha"],
     <<>>}

=============================================================================
