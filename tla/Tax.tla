-------------------------------- MODULE Tax --------------------------------
(***************************************************************************)
(* Tax classification (api/tax.py).  GET /tax/classifications classifies   *)
(* what is not classified yet and then lists; PATCH corrects one           *)
(* classification and keeps the correction as a training example.  Each    *)
(* request is a session of its own against one database at READ COMMITTED, *)
(* while lines are being ingested.                                         *)
(*                                                                         *)
(* A classification has the id of its line for primary key (tax.py:27):    *)
(* that key, and the row lock of an UPDATE, is all the coordination there  *)
(* is.  The filters of the listing are left out.                           *)
(***************************************************************************)
EXTENDS Naturals, Sequences, FiniteSets, SequencesExt

CONSTANTS
    Request,     \* the requests that are ever served
    Line,        \* ids of ledger lines; also of their classifications
    GlLine,      \* those whose source is "gl"
    Words,       \* the groups of terms the text of a line has
    Correction,  \* labels users correct to
    NoLabel      \* NULL

ASSUME TaxConstants ==
    /\ IsFiniteSet(Line) /\ GlLine \subseteq Line
    /\ Words \in [Line -> SUBSET {"tax", "wage"}]
    /\ NoLabel \notin Correction

VARIABLES
    ledger,     \* the lines that are stored
    rows,       \* committed tax_classifications, by id
    training,   \* committed tax_training_examples
    audit,      \* committed tax.correction rows of audit_log
    pc,
    lines,      \* what the first SELECT of a listing found
    todo,       \* the rows it inserts, in the order of that SELECT
    inserted,   \* how many of them it has inserted, uncommitted
    began,      \* history: what was stored when the listing was asked for
    answer,     \* the rows it was answered with
    target, label,
    read,       \* the row as the correction read it
    outcome

tables == <<ledger, rows, training, audit>>
listing == <<lines, todo, inserted, began, answer>>
correcting == <<target, label, read>>
vars == <<tables, pc, listing, correcting, outcome>>

Classification ==
    [label : {"taxable", "payroll", "unclassified"},
     status : {"review", "auto", "corrected"},
     corrected_label : Correction \cup {NoLabel}]

\* Words of tax win over words of wages, and only the latter need no review.
ClassifyLine(line) ==
    IF "tax" \in Words[line]
    THEN [label |-> "taxable", status |-> "review", corrected_label |-> NoLabel]
    ELSE IF "wage" \in Words[line]
    THEN [label |-> "payroll", status |-> "auto", corrected_label |-> NoLabel]
    ELSE [label |-> "unclassified", status |-> "review", corrected_label |-> NoLabel]

\* Some of the lines that are stored were listed before.
Init ==
    /\ ledger \in SUBSET Line
    /\ \E listed \in SUBSET (ledger \cap GlLine) :
          rows = [line \in listed |-> ClassifyLine(line)]
    /\ training = {} /\ audit = {}
    /\ pc = [c \in Request |-> "idle"]
    /\ lines = [c \in Request |-> {}]
    /\ todo = [c \in Request |-> <<>>]
    /\ inserted = [c \in Request |-> 0]
    /\ began = [c \in Request |-> [stored |-> {}, corrected |-> {}]]
    /\ answer = [c \in Request |-> <<>>]
    /\ target = [c \in Request |-> NoLabel]
    /\ label = [c \in Request |-> NoLabel]
    /\ read = [c \in Request |-> <<>>]
    /\ outcome = [c \in Request |-> "none"]

IngestLine ==
    /\ \E line \in Line \ ledger : ledger' = ledger \cup {line}
    /\ UNCHANGED <<rows, training, audit, pc, listing, correcting, outcome>>

\* The session is closed, and with it what it has not committed.
End(c, how) ==
    /\ pc' = [pc EXCEPT ![c] = "ended"]
    /\ outcome' = [outcome EXCEPT ![c] = how]
    /\ lines' = [lines EXCEPT ![c] = {}]
    /\ todo' = [todo EXCEPT ![c] = <<>>]
    /\ inserted' = [inserted EXCEPT ![c] = 0]
    /\ read' = [read EXCEPT ![c] = <<>>]
    /\ UNCHANGED <<ledger, began, target, label>>

-----------------------------------------------------------------------------
(* GET /tax/classifications: classify_pending_lines, then the listing *)

List(c) ==
    /\ pc[c] = "idle"
    /\ began' = [began EXCEPT ![c] =
          [stored |-> ledger,
           corrected |-> {line \in DOMAIN rows : rows[line].status = "corrected"}]]
    /\ pc' = [pc EXCEPT ![c] = "select-lines"]
    /\ UNCHANGED <<tables, lines, todo, inserted, answer, correcting, outcome>>

SelectLines(c) ==
    /\ pc[c] = "select-lines"
    /\ lines' = [lines EXCEPT ![c] = ledger]
    /\ pc' = [pc EXCEPT ![c] = "select-existing"]
    /\ UNCHANGED <<tables, todo, inserted, began, answer, correcting, outcome>>

\* Fault: lines that another listing is just classifying are left to it.
PendingOfNobody(c) ==
    (lines[c] \cap GlLine)
        \ (DOMAIN rows \cup UNION {{todo[e][k] : k \in 1..inserted[e]} : e \in Request})

\* The lines that need a classification, by the second SELECT.
Pending(c) == (lines[c] \cap GlLine) \ DOMAIN rows

\* Without pending lines nothing is committed.
SelectExisting(c) ==
    /\ pc[c] = "select-existing"
    /\ \E order \in SetToSeqs(Pending(c)) : todo' = [todo EXCEPT ![c] = order]
    /\ lines' = [lines EXCEPT ![c] = {}]
    /\ pc' = [pc EXCEPT ![c] = IF Pending(c) = {} THEN "list" ELSE "insert"]
    /\ UNCHANGED <<tables, inserted, began, answer, correcting, outcome>>

Inserting(c) == pc[c] = "insert" /\ inserted[c] < Len(todo[c])

NextKey(c) == todo[c][inserted[c] + 1]

Uncommitted(c) == {todo[c][k] : k \in 1..inserted[c]}

\* The open transactions whose row the next INSERT of c has to wait for.
WaitsFor(c) ==
    {e \in Request \ {c} : Inserting(c) /\ NextKey(c) \in Uncommitted(e)}

\* Fault: a merge instead of an INSERT.
UpsertRow(c) ==
    /\ Inserting(c)
    /\ WaitsFor(c) = {}
    /\ inserted' = [inserted EXCEPT ![c] = @ + 1]
    /\ UNCHANGED <<tables, pc, lines, todo, began, answer, correcting, outcome>>

InsertRow(c) ==
    /\ Inserting(c)
    /\ WaitsFor(c) = {}
    /\ NextKey(c) \notin DOMAIN rows
    /\ inserted' = [inserted EXCEPT ![c] = @ + 1]
    /\ UNCHANGED <<tables, pc, lines, todo, began, answer, correcting, outcome>>

\* Fault: a row that has been committed is waited for.
InsertWaits(c) ==
    /\ Inserting(c)
    /\ NextKey(c) \in DOMAIN rows
    /\ WaitsFor(c) # {}
    /\ End(c, "error")
    /\ UNCHANGED <<rows, training, audit, answer>>

\* Another listing has classified the line: this one fails with all its rows.
InsertConflicts(c) ==
    /\ Inserting(c)
    /\ NextKey(c) \in DOMAIN rows
    /\ End(c, "error")
    /\ UNCHANGED <<rows, training, audit, answer>>

\* PostgreSQL fails one of the INSERTs that wait for each other.
DeadlockVictim(c) ==
    /\ WaitsFor(c) # {}
    /\ \E group \in SUBSET Request :
          /\ c \in group
          /\ \A x \in group :
                WaitsFor(x) \cap group # {} /\ \E y \in group : x \in WaitsFor(y)
    /\ End(c, "error")
    /\ UNCHANGED <<rows, training, audit, answer>>

CommitRows(c) ==
    /\ pc[c] = "insert"
    /\ ~Inserting(c)
    /\ rows' = [line \in DOMAIN rows \cup Uncommitted(c) |->
          IF line \in Uncommitted(c) THEN ClassifyLine(line) ELSE rows[line]]
    /\ inserted' = [inserted EXCEPT ![c] = 0]
    /\ todo' = [todo EXCEPT ![c] = <<>>]
    /\ pc' = [pc EXCEPT ![c] = "list"]
    /\ UNCHANGED <<ledger, training, audit, lines, began, answer, correcting,
                   outcome>>

\* A SELECT of its own: the rows may have been corrected since.  It loads
\* those the listing inserted anew: a session refers to what it has flushed
\* weakly, and classify_pending_lines keeps no reference.
Answer(c) ==
    /\ pc[c] = "list"
    /\ answer' = [answer EXCEPT ![c] = rows]
    /\ End(c, "ok")
    /\ UNCHANGED <<rows, training, audit>>
-----------------------------------------------------------------------------
(* PATCH /tax/classifications/{id}: correct_classification *)

Correct(c) ==
    /\ pc[c] = "idle"
    /\ \E line \in Line, to \in Correction :
          /\ target' = [target EXCEPT ![c] = line]
          /\ label' = [label EXCEPT ![c] = to]
    /\ pc' = [pc EXCEPT ![c] = "get"]
    /\ UNCHANGED <<tables, listing, read, outcome>>

NotFound(c) ==
    /\ pc[c] = "get"
    /\ target[c] \notin DOMAIN rows
    /\ End(c, "error")
    /\ UNCHANGED <<rows, training, audit, answer>>

Get(c) ==
    /\ pc[c] = "get"
    /\ target[c] \in DOMAIN rows
    /\ read' = [read EXCEPT ![c] = rows[target[c]]]
    /\ pc' = [pc EXCEPT ![c] = "update"]
    /\ UNCHANGED <<tables, listing, target, label, outcome>>

\* The columns of the UPDATE: those whose new value is not the one read.
WritesStatus(c) == read[c].status # "corrected"
WritesLabel(c) == read[c].corrected_label # label[c]
Updates(c) == WritesStatus(c) \/ WritesLabel(c)

\* It waits for another open transaction that has updated the row.
UpdateRow(c) ==
    /\ pc[c] = "update"
    /\ Updates(c) =>
          \A e \in Request \ {c} :
              pc[e] = "commit" /\ target[e] = target[c] => ~Updates(e)
    /\ pc' = [pc EXCEPT ![c] = "commit"]
    /\ UNCHANGED <<tables, listing, correcting, outcome>>

CommitCorrection(c) ==
    /\ pc[c] = "commit"
    /\ rows' = [rows EXCEPT
          ![target[c]].status = IF WritesStatus(c) THEN "corrected" ELSE @,
          ![target[c]].corrected_label = IF WritesLabel(c) THEN label[c] ELSE @]
    /\ training' = training \cup {[by |-> c, line |-> target[c], label |-> label[c]]}
    /\ audit' = audit \cup {[by |-> c, line |-> target[c], label |-> label[c]]}
    /\ End(c, "ok")
    /\ UNCHANGED answer

-----------------------------------------------------------------------------

\* The process dies, or its connection: PostgreSQL rolls back.
Crash(c) ==
    /\ pc[c] \notin {"idle", "ended"}
    /\ End(c, "crashed")
    /\ UNCHANGED <<rows, training, audit, answer>>

Serve(c) ==
    \/ SelectLines(c) \/ SelectExisting(c)
    \/ InsertRow(c) \/ InsertConflicts(c) \/ DeadlockVictim(c)
    \/ CommitRows(c) \/ Answer(c)
    \/ NotFound(c) \/ Get(c) \/ UpdateRow(c) \/ CommitCorrection(c)

Next ==
    \/ IngestLine
    \/ \E c \in Request : List(c) \/ Correct(c) \/ Serve(c) \/ Crash(c)

Spec == Init /\ [][Next]_vars

\* While some request that is being served can go on, one of them does;
\* nothing forces requests, crashes, or the ingestion of lines.
FairSpec == Spec /\ WF_vars(\E c \in Request : Serve(c))

-----------------------------------------------------------------------------
(* Properties *)

\* Only stored lines of the general ledger have a classification, at most
\* one each, and what a request has in memory is what it is at.
TypeOK ==
    /\ DOMAIN rows \subseteq ledger \cap GlLine
    /\ rows \in [DOMAIN rows -> Classification]
    /\ training \cup audit \subseteq [by : Request, line : GlLine, label : Correction]
    /\ pc \in [Request -> {"idle", "select-lines", "select-existing", "insert",
                           "list", "get", "update", "commit", "ended"}]
    /\ \A c \in Request :
          /\ inserted[c] \in 0..Len(todo[c])
          /\ pc[c] \in {"update", "commit"} => read[c] \in Classification

\* FR-9, "Every GL/opex line classified" (project.spec.md:43): a listing that
\* is answered has each GL line that was stored when it was asked for, and
\* shows no correction undone that had been made by then, whichever listings
\* and corrections it raced with.
AnswersAreCurrent ==
    \A c \in Request : outcome[c] = "ok" /\ label[c] = NoLabel =>
        /\ began[c].stored \cap GlLine \subseteq DOMAIN answer[c]
        /\ \A line \in began[c].corrected : answer[c][line].status = "corrected"

\* "Correction feeds [the] training set" (api_spec.md:38) and the audit log
\* (FR-19): a row is corrected exactly if there is an example for its line,
\* its label is that of one of them, and examples and audit rows tell of the
\* same corrections.  So no listing ever puts a corrected line back into the
\* review queue (testing.md:30).  The label need not be that of the LAST
\* example: a correction to the label it read writes no column.
LearnedIsCorrected ==
    /\ training = audit
    /\ {t.line : t \in training}
          = {line \in DOMAIN rows : rows[line].status = "corrected"}
    /\ \A line \in DOMAIN rows : rows[line].status = "corrected" =>
          \E t \in training : t.line = line /\ t.label = rows[line].corrected_label

\* Listings that insert the same keys, and corrections of one row, wait for
\* each other; every one ends: again and again none is left.
EveryRequestEnds == []<>(\A c \in Request : pc[c] \in {"idle", "ended"})

=============================================================================
