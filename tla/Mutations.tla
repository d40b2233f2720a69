----------------------------- MODULE Mutations -----------------------------
(***************************************************************************)
(* What users change by hand (api/mutations.py): override_match and        *)
(* update_exception, each in the transaction of its request, concurrently  *)
(* against one database at READ COMMITTED.                                 *)
(*                                                                         *)
(* A request reads its row once, changes it in memory and commits an       *)
(* UPDATE together with one audit_log row.  SQLAlchemy's UPDATE names only *)
(* the columns whose value differs from the one that was READ, and it      *)
(* waits for another open transaction that has updated the row.            *)
(***************************************************************************)
EXTENDS Integers, Sequences

CONSTANTS
    Edit,        \* the requests that are ever served
    Match,       \* ids of matches
    Exception,   \* ids of exceptions
    Missing,     \* an id that is neither
    Person,      \* assignees
    Note,        \* resolution notes
    NoValue,     \* NULL
    Patch,       \* the patches of exceptions that are ever sent
    Reported     \* the rows as the reconciliation runs stored them

Closing == {"resolved", "written_off"}
ExceptionStatus == {"new", "investigating"} \cup Closing
MatchStatus == {"auto-matched", "matched-needs-review", "overridden"}

\* resolved_at is a time: it is represented by the request that set it.
ExceptionRow ==
    [status : ExceptionStatus, assignee : Person \cup {NoValue},
     resolution_note : Note \cup {NoValue}, resolved_at : Edit \cup {NoValue}]
MatchRow == [status : MatchStatus]

ASSUME ReportedRows ==
    /\ Reported \in [Match \cup Exception -> MatchRow \cup ExceptionRow]
    /\ Match \cap Exception = {} /\ Missing \notin Match \cup Exception
    /\ \A m \in Match : Reported[m] \in MatchRow
    /\ \A x \in Exception : Reported[x] \in ExceptionRow
    /\ \A x \in Exception :
          Reported[x].status = "new" /\ Reported[x].resolved_at = NoValue

\* What the schema of the PATCH lets through: any of three fields, also none.
ASSUME PatchesAreFields ==
    \A fields \in Patch :
        /\ DOMAIN fields \subseteq {"status", "assignee", "resolution_note"}
        /\ "status" \in DOMAIN fields => fields.status \in ExceptionStatus
        /\ "assignee" \in DOMAIN fields => fields.assignee \in Person
        /\ "resolution_note" \in DOMAIN fields => fields.resolution_note \in Note

ASSUME DatesAreKnown == NoValue \notin Edit

VARIABLES
    rows,      \* committed matches and exceptions
    audit,     \* committed audit_log, in the order of the commits
    pc, target,
    patch,     \* the fields the request assigns
    previous,  \* the row as the request read it
    outcome

vars == <<rows, audit, pc, target, patch, previous, outcome>>

Init ==
    /\ rows = Reported
    /\ audit = <<>>
    /\ pc = [c \in Edit |-> "idle"]
    /\ target = [c \in Edit |-> Missing]
    /\ patch = [c \in Edit |-> <<>>]
    /\ previous = [c \in Edit |-> <<>>]
    /\ outcome = [c \in Edit |-> "none"]

-----------------------------------------------------------------------------

\* A row, or the fields of a patch, with some fields assigned.
Assigned(row, fields) ==
    [f \in DOMAIN row \cup DOMAIN fields |->
        IF f \in DOMAIN fields THEN fields[f] ELSE row[f]]

\* POST /matches/{id}/override
Override(c) ==
    /\ pc[c] = "idle"
    /\ \E m \in Match \cup {Missing} : target' = [target EXCEPT ![c] = m]
    /\ patch' = [patch EXCEPT ![c] = [status |-> "overridden"]]
    /\ pc' = [pc EXCEPT ![c] = "get"]
    /\ UNCHANGED <<rows, audit, previous, outcome>>

\* Fault: only one of the two closing states is dated.
StampResolved(c, fields) ==
    IF "status" \in DOMAIN fields /\ fields.status = "resolved"
    THEN Assigned(fields, [resolved_at |-> c])
    ELSE fields

\* A patch that closes the exception also sets resolved_at; one that opens it
\* again leaves it.
Stamped(c, fields) ==
    IF "status" \in DOMAIN fields /\ fields.status \in Closing
    THEN Assigned(fields, [resolved_at |-> c])
    ELSE fields

\* PATCH /exceptions/{id}
Update(c) ==
    /\ pc[c] = "idle"
    /\ \E x \in Exception \cup {Missing}, fields \in Patch :
          /\ target' = [target EXCEPT ![c] = x]
          /\ patch' = [patch EXCEPT ![c] = Stamped(c, fields)]
    /\ pc' = [pc EXCEPT ![c] = "get"]
    /\ UNCHANGED <<rows, audit, previous, outcome>>

End(c, how) ==
    /\ pc' = [pc EXCEPT ![c] = "ended"]
    /\ outcome' = [outcome EXCEPT ![c] = how]
    /\ UNCHANGED <<target, patch, previous>>

NotFound(c) ==
    /\ pc[c] = "get"
    /\ target[c] \notin DOMAIN rows
    /\ End(c, "not-found")
    /\ UNCHANGED <<rows, audit>>

\* Fault: the previous values are taken after the assignments.
GetAssigned(c) ==
    /\ pc[c] = "get"
    /\ target[c] \in DOMAIN rows
    /\ previous' = [previous EXCEPT ![c] = Assigned(rows[target[c]], patch[c])]
    /\ pc' = [pc EXCEPT ![c] = "update"]
    /\ UNCHANGED <<rows, audit, target, patch, outcome>>

Get(c) ==
    /\ pc[c] = "get"
    /\ target[c] \in DOMAIN rows
    /\ previous' = [previous EXCEPT ![c] = rows[target[c]]]
    /\ pc' = [pc EXCEPT ![c] = "update"]
    /\ UNCHANGED <<rows, audit, target, patch, outcome>>

\* The columns of the UPDATE, with their new values: assigned ones that
\* differ from what was read.
Written(c) ==
    LET changed == {f \in DOMAIN patch[c] : patch[c][f] # previous[c][f]}
    IN  [f \in changed |-> patch[c][f]]

\* The request has updated its row and not committed.
Holds(c) == pc[c] = "commit" /\ DOMAIN Written(c) # {}

\* Fault: a lock that is never given up.
UpdateRowForEver(c) ==
    /\ pc[c] = "update"
    /\ \A e \in Edit \ {c} :
          target[e] = target[c] => pc[e] # "commit" /\ outcome[e] # "ok"
    /\ pc' = [pc EXCEPT ![c] = "commit"]
    /\ UNCHANGED <<rows, audit, target, patch, previous, outcome>>

\* The flush of the commit: without changed columns there is no UPDATE and
\* nothing to wait for.
UpdateRow(c) ==
    /\ pc[c] = "update"
    /\ DOMAIN Written(c) # {} =>
          \A e \in Edit \ {c} : target[e] = target[c] => ~Holds(e)
    /\ pc' = [pc EXCEPT ![c] = "commit"]
    /\ UNCHANGED <<rows, audit, target, patch, previous, outcome>>

\* `wrote' is history: the code's audit row has the previous values only.
Entry(c) ==
    [by |-> c, entity |-> target[c], previous |-> previous[c],
     wrote |-> Written(c)]

\* Faults: the row is written back whole; the audit row is left out when the
\* row does not change.
CommitWholeRow(c) ==
    /\ pc[c] = "commit"
    /\ rows' = [rows EXCEPT ![target[c]] = Assigned(previous[c], patch[c])]
    /\ audit' = Append(audit, Entry(c))
    /\ End(c, "ok")

CommitChanges(c) ==
    /\ pc[c] = "commit"
    /\ rows' = [rows EXCEPT ![target[c]] = Assigned(@, Written(c))]
    /\ audit' = IF DOMAIN Written(c) = {} THEN audit ELSE Append(audit, Entry(c))
    /\ End(c, "ok")

Commit(c) ==
    /\ pc[c] = "commit"
    /\ rows' = [rows EXCEPT ![target[c]] = Assigned(@, Written(c))]
    /\ audit' = Append(audit, Entry(c))
    /\ End(c, "ok")

\* The process dies, or its connection: PostgreSQL rolls back.
Crash(c) ==
    /\ pc[c] \notin {"idle", "ended"}
    /\ End(c, "crashed")
    /\ UNCHANGED <<rows, audit>>

Serve(c) == NotFound(c) \/ Get(c) \/ UpdateRow(c) \/ Commit(c)

Next == \E c \in Edit : Override(c) \/ Update(c) \/ Serve(c) \/ Crash(c)

Spec == Init /\ [][Next]_vars

\* A request that is being served keeps executing.
FairSpec == Spec /\ \A c \in Edit : WF_vars(Serve(c))

-----------------------------------------------------------------------------
(* Properties *)

\* Rows keep the shape of their table, whatever columns are written.
TypeOK ==
    /\ \A m \in Match : rows[m] \in MatchRow
    /\ \A x \in Exception : rows[x] \in ExceptionRow
    /\ pc \in [Edit -> {"idle", "get", "update", "commit", "ended"}]
    /\ target \in [Edit -> Match \cup Exception \cup {Missing}]
    /\ \A c \in Edit : pc[c] \in {"update", "commit"} =>
          target[c] \in DOMAIN rows /\ DOMAIN patch[c] \subseteq DOMAIN previous[c]
    /\ outcome \in [Edit -> {"none", "ok", "not-found", "crashed"}]

\* "Append-only audit log of every state change" (project.spec.md:61): the
\* edits that succeeded and the audit rows are one for one, also for edits
\* that changed nothing, and a crash leaves neither.
EveryEditIsAudited ==
    /\ \A j, k \in DOMAIN audit : audit[j].by = audit[k].by => j = k
    /\ {audit[k].by : k \in DOMAIN audit} = {c \in Edit : outcome[c] = "ok"}
    /\ \A k \in DOMAIN audit : audit[k].entity = target[audit[k].by]

\* The audit rows among the first n whose edits wrote field f of the row.
Writers(entity, f, n) ==
    {k \in 1..n : audit[k].entity = entity /\ f \in DOMAIN audit[k].wrote}

\* Such a row is the entity's after the first n commits of the log: in each
\* field it has what the last of them that wrote it gave it, or what the run
\* reported.
IsAfter(row, entity, n) ==
    /\ DOMAIN row = DOMAIN Reported[entity]
    /\ \A f \in DOMAIN row :
          \/ Writers(entity, f, n) = {} /\ row[f] = Reported[entity][f]
          \/ \E k \in Writers(entity, f, n) :
                /\ \A j \in Writers(entity, f, n) : j <= k
                /\ row[f] = audit[k].wrote[f]

\* Each field of a row has the value the last edit that changed it gave it:
\* an edit of one field does not undo a concurrent edit of another, and
\* nothing but an audited edit changes a row.
LastChangeStands ==
    \A entity \in DOMAIN rows : IsAfter(rows[entity], entity, Len(audit))

\* The previous values of an audit row were those of the committed row at
\* one moment before the edit, though not always right before it.
PreviousWasTrue ==
    \A k \in DOMAIN audit :
        \E n \in 0..(k - 1) : IsAfter(audit[k].previous, audit[k].entity, n)

\* An exception that is resolved or written off says since when, whatever
\* edits of its status race.
ClosedIsDated ==
    \A x \in Exception : rows[x].status \in Closing => rows[x].resolved_at # NoValue

\* Edits of one row wait for each other, and every one ends.
EveryEditEnds ==
    \A c \in Edit : pc[c] # "idle" ~> pc[c] = "ended"

=============================================================================
