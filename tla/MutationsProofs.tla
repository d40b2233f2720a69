-------------------------- MODULE MutationsProofs --------------------------
(***************************************************************************)
(* Safety of the manual mutations, for any number of concurrent edits,     *)
(* matches, exceptions and patches.  The log is kept as history: a row is  *)
(* what the log says of it, so the proofs follow one entry being appended. *)
(* What an edit in flight carries - the row as it read it, the fields it   *)
(* will write - is out of date by the commits of the others; InFlight says *)
(* by how much.                                                            *)
(***************************************************************************)
EXTENDS Mutations, TLAPS

Id == Match \cup Exception

Column == {"status", "assignee", "resolution_note", "resolved_at"}

\* The columns of the table that has row `id', and what each may hold.
Columns(id) == IF id \in Match THEN {"status"} ELSE Column

Values(id, f) ==
    IF id \in Match THEN MatchStatus
    ELSE IF f = "status" THEN ExceptionStatus
    ELSE IF f = "assignee" THEN Person \cup {NoValue}
    ELSE IF f = "resolution_note" THEN Note \cup {NoValue}
    ELSE Edit \cup {NoValue}

Value == MatchStatus \cup ExceptionStatus \cup Person \cup Note \cup Edit \cup {NoValue}

Fits(id, fields) ==
    /\ DOMAIN fields \subseteq Columns(id)
    /\ \A f \in DOMAIN fields : fields[f] \in Values(id, f)

IsRow(id, row) ==
    /\ row = [f \in Columns(id) |-> row[f]]
    /\ Fits(id, row)

Piece == UNION {[D -> Value] : D \in SUBSET Column}

Logged == [by : Edit, entity : Id, previous : Piece, wrote : Piece]

-----------------------------------------------------------------------------
(* The inductive invariant *)

Types ==
    /\ rows = [id \in Id |-> rows[id]]
    /\ \A id \in Id : IsRow(id, rows[id])
    /\ audit \in Seq(Logged)
    /\ pc \in [Edit -> {"idle", "get", "update", "commit", "ended"}]
    /\ target \in [Edit -> Id \cup {Missing}]
    /\ outcome \in [Edit -> {"none", "ok", "not-found", "crashed"}]
    /\ patch = [c \in Edit |-> patch[c]]
    /\ previous = [c \in Edit |-> previous[c]]

\* What an edit assigns fits its row; it is the one that dates the closings.
Carries(c) ==
    pc[c] \in {"get", "update", "commit"} /\ target[c] # Missing =>
        /\ Fits(target[c], patch[c])
        /\ "resolved_at" \in DOMAIN patch[c] => patch[c].resolved_at = c
        /\ (/\ target[c] \in Exception
            /\ "status" \in DOMAIN patch[c]
            /\ patch[c].status \in Closing)
           => "resolved_at" \in DOMAIN patch[c]

\* What an edit has read was so after some commit of the log, and a row that
\* was dated then still is.
InFlight(c) ==
    pc[c] \in {"update", "commit"} =>
        /\ target[c] \in Id
        /\ IsRow(target[c], previous[c])
        /\ \E n \in 0..Len(audit) : IsAfter(previous[c], target[c], n)
        /\ target[c] \in Exception /\ previous[c].resolved_at # NoValue
           => rows[target[c]].resolved_at # NoValue

Unended(c) == pc[c] # "ended" => outcome[c] = "none"

IInv ==
    /\ Types
    /\ \A c \in Edit : Carries(c)
    /\ \A c \in Edit : InFlight(c)
    /\ \A c \in Edit : Unended(c)
    /\ EveryEditIsAudited
    /\ LastChangeStands
    /\ PreviousWasTrue
    /\ ClosedIsDated

-----------------------------------------------------------------------------
(* Rows and pieces of rows *)

\* A row is a record of its table, and the other way round.
LEMMA RowsOfTables ==
    /\ \A m \in Match : \A row : IsRow(m, row) <=> row \in MatchRow
    /\ \A x \in Exception : \A row : IsRow(x, row) <=> row \in ExceptionRow
<1>1. ASSUME NEW m \in Match, NEW row PROVE IsRow(m, row) <=> row \in MatchRow
  <2>1. ASSUME row \in MatchRow PROVE IsRow(m, row)
    BY <2>1 DEF IsRow, Fits, Columns, Values, MatchRow
  <2>2. ASSUME IsRow(m, row) PROVE row \in MatchRow
    <3>1. row = [status |-> row["status"]]
      BY <2>2 DEF IsRow, Columns
    <3>2. row["status"] \in MatchStatus
      BY <2>2 DEF IsRow, Fits, Columns, Values
    <3> QED
      BY <3>1, <3>2 DEF MatchRow
  <2> QED
    BY <2>1, <2>2
<1>2. ASSUME NEW x \in Exception, NEW row PROVE IsRow(x, row) <=> row \in ExceptionRow
  <2>0. x \notin Match
    BY ReportedRows
  <2>1. ASSUME row \in ExceptionRow PROVE IsRow(x, row)
    <3>1. row = [f \in Column |-> row[f]]
      BY <2>1 DEF ExceptionRow, Column
    <3>2. /\ row["status"] \in ExceptionStatus
          /\ row["assignee"] \in Person \cup {NoValue}
          /\ row["resolution_note"] \in Note \cup {NoValue}
          /\ row["resolved_at"] \in Edit \cup {NoValue}
      BY <2>1 DEF ExceptionRow
    <3>3. DOMAIN row = Column
      BY <3>1
    <3> QED
      BY <2>0, <3>1, <3>2, <3>3 DEF IsRow, Fits, Columns, Values, Column
  <2>2. ASSUME IsRow(x, row) PROVE row \in ExceptionRow
    <3>1. row = [status |-> row["status"], assignee |-> row["assignee"],
                 resolution_note |-> row["resolution_note"],
                 resolved_at |-> row["resolved_at"]]
      BY <2>0, <2>2 DEF IsRow, Columns, Column
    <3>2. /\ row["status"] \in ExceptionStatus
          /\ row["assignee"] \in Person \cup {NoValue}
          /\ row["resolution_note"] \in Note \cup {NoValue}
          /\ row["resolved_at"] \in Edit \cup {NoValue}
      BY <2>0, <2>2 DEF IsRow, Fits, Columns, Values, Column
    <3> QED
      BY <3>1, <3>2 DEF ExceptionRow
  <2> QED
    BY <2>1, <2>2
<1> QED
  BY <1>1, <1>2

LEMMA RowColumns ==
    ASSUME NEW id \in Id, NEW row, IsRow(id, row)
    PROVE  /\ DOMAIN row = Columns(id)
           /\ row \in Piece
<1>1. DOMAIN row = Columns(id)
  BY DEF IsRow
<1>2. Columns(id) \subseteq Column
  BY DEF Columns, Column
<1>3. \A f \in Columns(id) : Values(id, f) \subseteq Value
  BY DEF Values, Value
<1>4. row \in [Columns(id) -> Value]
  BY <1>1, <1>3 DEF IsRow, Fits
<1> QED
  BY <1>1, <1>2, <1>4 DEF Piece

\* A row that is assigned what fits it stays a row.
LEMMA AssignedRow ==
    ASSUME NEW id \in Id, NEW row, IsRow(id, row), NEW fields, Fits(id, fields)
    PROVE  /\ IsRow(id, Assigned(row, fields))
           /\ DOMAIN Assigned(row, fields) = DOMAIN row
           /\ \A f \in DOMAIN row :
                 Assigned(row, fields)[f] = IF f \in DOMAIN fields THEN fields[f] ELSE row[f]
<1>1. DOMAIN row \cup DOMAIN fields = Columns(id) /\ DOMAIN row = Columns(id)
  BY RowColumns DEF Fits
<1>2. Assigned(row, fields) =
        [f \in Columns(id) |-> IF f \in DOMAIN fields THEN fields[f] ELSE row[f]]
  BY <1>1 DEF Assigned
<1> QED
  BY <1>1, <1>2 DEF IsRow, Fits

\* What an edit writes is part of what it assigns.
LEMMA WrittenFits ==
    ASSUME NEW c \in Edit, NEW id \in Id, Fits(id, patch[c])
    PROVE  /\ Fits(id, Written(c))
           /\ Written(c) \in Piece
           /\ DOMAIN Written(c) = {f \in DOMAIN patch[c] : patch[c][f] # previous[c][f]}
           /\ \A f \in DOMAIN Written(c) : Written(c)[f] = patch[c][f]
<1> DEFINE changed == {f \in DOMAIN patch[c] : patch[c][f] # previous[c][f]}
<1>1. Written(c) = [f \in changed |-> patch[c][f]]
  BY DEF Written
<1>2. DOMAIN Written(c) = changed /\ \A f \in changed : Written(c)[f] = patch[c][f]
  BY <1>1
<1>3. Fits(id, Written(c))
  BY <1>2 DEF Fits
<1>4. changed \in SUBSET Column
  BY DEF Fits, Columns, Column
<1>5. \A f \in changed : patch[c][f] \in Value
  BY DEF Fits, Values, Value
<1>6. Written(c) \in [changed -> Value]
  BY <1>1, <1>5
<1> QED
  BY <1>2, <1>3, <1>4, <1>6 DEF Piece

\* The schema's patches fit an exception, also with the date that is added.
LEMMA StampedFits ==
    ASSUME NEW c \in Edit, NEW x \in Exception, NEW fields \in Patch
    PROVE  /\ Fits(x, Stamped(c, fields))
           /\ "resolved_at" \in DOMAIN Stamped(c, fields) => Stamped(c, fields).resolved_at = c
           /\ (/\ "status" \in DOMAIN Stamped(c, fields)
               /\ Stamped(c, fields).status \in Closing)
              => "resolved_at" \in DOMAIN Stamped(c, fields)
<1>0. x \notin Match
  BY ReportedRows
<1>1. /\ DOMAIN fields \subseteq {"status", "assignee", "resolution_note"}
      /\ "status" \in DOMAIN fields => fields["status"] \in ExceptionStatus
      /\ "assignee" \in DOMAIN fields => fields["assignee"] \in Person
      /\ "resolution_note" \in DOMAIN fields => fields["resolution_note"] \in Note
  BY PatchesAreFields
<1>2. CASE "status" \in DOMAIN fields /\ fields.status \in Closing
  <2>1. Stamped(c, fields) = Assigned(fields, [resolved_at |-> c])
    BY <1>2 DEF Stamped
  <2>2. PICK g : g = Assigned(fields, [resolved_at |-> c])
    OBVIOUS
  <2>3. /\ DOMAIN g = DOMAIN fields \cup {"resolved_at"}
        /\ g["resolved_at"] = c
        /\ \A f \in DOMAIN fields : g[f] = fields[f]
    BY <1>1, <2>2 DEF Assigned
  <2>4. Fits(x, g)
    BY <1>0, <1>1, <2>3 DEF Fits, Columns, Values, Column
  <2> QED
    BY <2>1, <2>2, <2>3, <2>4
<1>3. CASE ~("status" \in DOMAIN fields /\ fields.status \in Closing)
  <2>1. Stamped(c, fields) = fields
    BY <1>3 DEF Stamped
  <2>2. Fits(x, fields)
    BY <1>0, <1>1 DEF Fits, Columns, Values, Column
  <2> QED
    BY <1>1, <1>3, <2>1, <2>2
<1> QED
  BY <1>2, <1>3

-----------------------------------------------------------------------------
(* The log as history *)

\* An entry that is appended leaves what the entries before it say.
LEMMA PastStays ==
    ASSUME audit \in Seq(Logged), NEW entry \in Logged, audit' = Append(audit, entry),
           NEW id \in Id, NEW row, NEW n \in 0..Len(audit), IsAfter(row, id, n)
    PROVE  IsAfter(row, id, n)'
<1>1. \A k \in 1..n : audit'[k] = audit[k]
  OBVIOUS
<1>2. \A f : Writers(id, f, n)' = Writers(id, f, n)
  BY <1>1 DEF Writers
<1>3. \A f : Writers(id, f, n) \subseteq 1..n
  BY DEF Writers
<1> QED
  BY <1>1, <1>2, <1>3 DEF IsAfter

\* An entry about another row leaves a row as it is; one about the row assigns
\* what it wrote.
LEMMA EntryOfAnother ==
    ASSUME audit \in Seq(Logged), NEW entry \in Logged, audit' = Append(audit, entry),
           NEW last \in Nat, last = Len(audit),
           NEW id \in Id, NEW row, IsAfter(row, id, last), entry.entity # id
    PROVE  IsAfter(row, id, last + 1)'
<1>1. /\ audit'[last + 1] = entry
      /\ \A k \in 1..last : audit'[k] = audit[k]
  OBVIOUS
<1>2. \A f : Writers(id, f, last + 1)' = Writers(id, f, last)
  BY <1>1 DEF Writers
<1>3. \A f : Writers(id, f, last) \subseteq 1..last
  BY DEF Writers
<1> QED
  BY <1>1, <1>2, <1>3 DEF IsAfter

LEMMA EntryOfRow ==
    ASSUME audit \in Seq(Logged), NEW entry \in Logged, audit' = Append(audit, entry),
           NEW last \in Nat, last = Len(audit),
           NEW id \in Id, NEW row, IsAfter(row, id, last), entry.entity = id,
           NEW new, DOMAIN new = DOMAIN row,
           \A f \in DOMAIN row :
              new[f] = IF f \in DOMAIN entry.wrote THEN entry.wrote[f] ELSE row[f]
    PROVE  IsAfter(new, id, last + 1)'
<1>1. DOMAIN new = DOMAIN Reported[id]
  BY DEF IsAfter
<1>2. /\ audit'[last + 1] = entry
      /\ \A k \in 1..last : audit'[k] = audit[k]
  OBVIOUS
<1> SUFFICES ASSUME NEW f \in DOMAIN row
             PROVE  \/ Writers(id, f, last + 1)' = {} /\ new[f] = Reported[id][f]
                    \/ \E k \in Writers(id, f, last + 1)' :
                          /\ \A j \in Writers(id, f, last + 1)' : j <= k
                          /\ new[f] = audit'[k].wrote[f]
  BY <1>1 DEF IsAfter
<1>3. CASE f \in DOMAIN entry.wrote
  <2>1. last + 1 \in Writers(id, f, last + 1)'
    BY <1>2, <1>3 DEF Writers
  <2>2. \A j \in Writers(id, f, last + 1)' : j <= last + 1
    BY DEF Writers
  <2> QED
    BY <1>2, <1>3, <2>1, <2>2
<1>4. CASE f \notin DOMAIN entry.wrote
  <2>1. Writers(id, f, last + 1)' = Writers(id, f, last)
    BY <1>2, <1>4 DEF Writers
  <2>2. Writers(id, f, last) \subseteq 1..last
    BY DEF Writers
  <2> QED
    BY <1>1, <1>2, <1>4, <2>1, <2>2 DEF IsAfter
<1> QED
  BY <1>3, <1>4

-----------------------------------------------------------------------------
(* The invariant holds at first and is kept *)

LEMMA InitInv == Init => IInv
<1> SUFFICES ASSUME Init PROVE IInv
  OBVIOUS
<1>1. Types
  <2>1. /\ rows = [id \in Id |-> rows[id]]
        /\ \A id \in Id : IsRow(id, rows[id])
    <3>1. \A id \in Id : IsRow(id, Reported[id])
      BY ReportedRows, RowsOfTables DEF Id
    <3>2. Reported = [id \in Id |-> Reported[id]]
      BY ReportedRows DEF Id
    <3> QED
      BY <3>1, <3>2 DEF Init
  <2>2. audit \in Seq(Logged)
    BY DEF Init
  <2> QED
    BY <2>1, <2>2 DEF Init, Types
<1>2. \A c \in Edit : Carries(c) /\ InFlight(c) /\ Unended(c)
  BY DEF Init, Carries, InFlight, Unended
<1>3. DOMAIN audit = {} /\ Len(audit) = 0
  BY DEF Init
<1>4. EveryEditIsAudited /\ PreviousWasTrue
  BY <1>3 DEF Init, EveryEditIsAudited, PreviousWasTrue
<1>5. LastChangeStands
  BY <1>3 DEF Init, LastChangeStands, IsAfter, Writers
<1>6. ClosedIsDated
  BY ReportedRows DEF Init, ClosedIsDated, Closing
<1> QED
  BY <1>1, <1>2, <1>4, <1>5, <1>6 DEF IInv

\* What a step of edit c leaves of the others.
Bystanders(c) ==
    \A e \in Edit \ {c} :
        /\ pc'[e] = pc[e] /\ target'[e] = target[e]
        /\ patch'[e] = patch[e] /\ previous'[e] = previous[e]
        /\ outcome'[e] = outcome[e]

\* A step that touches neither the tables nor an edit that was audited.
LEMMA QuietStep ==
    ASSUME IInv, NEW c \in Edit, Bystanders(c), UNCHANGED <<rows, audit>>, Types',
           outcome[c] # "ok", outcome'[c] # "ok",
           Carries(c)', InFlight(c)', Unended(c)'
    PROVE  IInv'
<1>1. \A e \in Edit : Carries(e)'
  <2> SUFFICES ASSUME NEW e \in Edit \ {c} PROVE Carries(e)'
    OBVIOUS
  <2> QED
    BY DEF IInv, Carries, Bystanders, Fits
<1>2. \A e \in Edit : InFlight(e)'
  <2> SUFFICES ASSUME NEW e \in Edit \ {c} PROVE InFlight(e)'
    OBVIOUS
  <2> QED
    BY DEF IInv, InFlight, Bystanders, IsAfter, Writers
<1>3. \A e \in Edit : Unended(e)'
  BY DEF IInv, Unended, Bystanders
<1>4. EveryEditIsAudited'
  <2>1. \A e \in Edit : outcome'[e] = "ok" <=> outcome[e] = "ok"
    BY DEF Bystanders
  <2>2. \A k \in DOMAIN audit : audit[k].by \in Edit \ {c}
    BY DEF IInv, EveryEditIsAudited
  <2>3. \A k \in DOMAIN audit : target'[audit[k].by] = target[audit[k].by]
    BY <2>2 DEF Bystanders
  <2>4. \A k \in DOMAIN audit : audit[k].entity = target[audit[k].by]
    BY DEF IInv, EveryEditIsAudited
  <2>5. {e \in Edit : outcome'[e] = "ok"} = {e \in Edit : outcome[e] = "ok"}
    BY <2>1
  <2> QED
    BY <2>3, <2>4, <2>5 DEF IInv, EveryEditIsAudited
<1>5. LastChangeStands' /\ PreviousWasTrue'
  BY DEF IInv, LastChangeStands, PreviousWasTrue, IsAfter, Writers
<1>6. ClosedIsDated'
  BY DEF IInv, ClosedIsDated
<1> QED
  BY <1>1, <1>2, <1>3, <1>4, <1>5, <1>6 DEF IInv

LEMMA OverrideStep ==
    ASSUME IInv, NEW c \in Edit, Override(c)
    PROVE  IInv'
<1>1. PICK m \in Match \cup {Missing} : target' = [target EXCEPT ![c] = m]
  BY DEF Override
<1>2. /\ pc[c] = "idle" /\ pc' = [pc EXCEPT ![c] = "get"]
      /\ patch' = [patch EXCEPT ![c] = [status |-> "overridden"]]
      /\ UNCHANGED <<rows, audit, previous, outcome>>
  BY DEF Override
<1>3. Types'
  BY <1>1, <1>2 DEF IInv, Types, Id
<1>4. outcome[c] = "none" /\ outcome'[c] = "none"
  BY <1>2 DEF IInv, Unended
<1>5. pc'[c] = "get" /\ target'[c] = m /\ patch'[c] = [status |-> "overridden"]
  BY <1>1, <1>2 DEF IInv, Types
<1>6. Carries(c)'
  <2>1. m \in Match => Fits(m, patch'[c])
    BY <1>5 DEF Fits, Columns, Values, MatchStatus
  <2>2. m \in Match => m \notin Exception
    BY ReportedRows
  <2> QED
    BY <1>5, <2>1, <2>2 DEF Carries, Fits
<1>7. InFlight(c)' /\ Unended(c)'
  BY <1>4, <1>5 DEF InFlight, Unended
<1>8. Bystanders(c)
  BY <1>1, <1>2 DEF IInv, Types, Bystanders
<1> QED
  BY <1>2, <1>3, <1>4, <1>6, <1>7, <1>8, QuietStep

LEMMA UpdateStep ==
    ASSUME IInv, NEW c \in Edit, Update(c)
    PROVE  IInv'
<1>1. PICK x \in Exception \cup {Missing}, fields \in Patch :
          /\ target' = [target EXCEPT ![c] = x]
          /\ patch' = [patch EXCEPT ![c] = Stamped(c, fields)]
  BY DEF Update
<1>2. /\ pc[c] = "idle" /\ pc' = [pc EXCEPT ![c] = "get"]
      /\ UNCHANGED <<rows, audit, previous, outcome>>
  BY DEF Update
<1>3. Types'
  BY <1>1, <1>2 DEF IInv, Types, Id
<1>4. outcome[c] = "none" /\ outcome'[c] = "none"
  BY <1>2 DEF IInv, Unended
<1>5. pc'[c] = "get" /\ target'[c] = x /\ patch'[c] = Stamped(c, fields)
  BY <1>1, <1>2 DEF IInv, Types
<1>6. Carries(c)'
  BY <1>5, StampedFits DEF Carries, Fits
<1>7. InFlight(c)' /\ Unended(c)'
  BY <1>4, <1>5 DEF InFlight, Unended
<1>8. Bystanders(c)
  BY <1>1, <1>2 DEF IInv, Types, Bystanders
<1> QED
  BY <1>2, <1>3, <1>4, <1>6, <1>7, <1>8, QuietStep

LEMMA GetStep ==
    ASSUME IInv, NEW c \in Edit, Get(c)
    PROVE  IInv'
<1>1. /\ pc[c] = "get" /\ pc' = [pc EXCEPT ![c] = "update"]
      /\ previous' = [previous EXCEPT ![c] = rows[target[c]]]
      /\ UNCHANGED <<rows, audit, target, patch, outcome>>
  BY DEF Get
<1>2. target[c] \in Id
  BY DEF Get, IInv, Types
<1>3. Types'
  BY <1>1 DEF IInv, Types
<1>4. outcome[c] = "none" /\ outcome'[c] = "none"
  BY <1>1 DEF IInv, Unended
<1>5. pc'[c] = "update" /\ previous'[c] = rows[target[c]]
  BY <1>1 DEF IInv, Types
<1>6. Carries(c)'
  BY <1>1, <1>5 DEF IInv, Carries, Fits
<1>7. InFlight(c)'
  <2>1. IsAfter(rows[target[c]], target[c], Len(audit))
    BY <1>2 DEF IInv, Types, LastChangeStands
  <2>2. Len(audit) \in 0..Len(audit)
    BY DEF IInv, Types
  <2>3. \E n \in 0..Len(audit) : IsAfter(rows[target[c]], target[c], n)
    BY <2>1, <2>2
  <2>4. (\E n \in 0..Len(audit) : IsAfter(previous[c], target[c], n))'
    BY SMTT(40), <1>1, <1>5, <2>3 DEF IsAfter, Writers
  <2> QED
    BY <1>1, <1>2, <1>5, <2>4 DEF InFlight, IInv, Types, IsRow, Fits
<1>8. Unended(c)' /\ Bystanders(c)
  BY <1>1, <1>4, <1>5 DEF Unended, IInv, Types, Bystanders
<1> QED
  BY <1>1, <1>3, <1>4, <1>6, <1>7, <1>8, QuietStep

LEMMA UpdateRowStep ==
    ASSUME IInv, NEW c \in Edit, UpdateRow(c)
    PROVE  IInv'
<1>1. /\ pc[c] = "update" /\ pc' = [pc EXCEPT ![c] = "commit"]
      /\ UNCHANGED <<rows, audit, target, patch, previous, outcome>>
  BY DEF UpdateRow
<1>2. Types' /\ pc'[c] = "commit"
  BY <1>1 DEF IInv, Types
<1>3. outcome[c] = "none" /\ outcome'[c] = "none"
  BY <1>1 DEF IInv, Unended
<1>4. Carries(c)' /\ Unended(c)'
  BY <1>1, <1>2, <1>3 DEF IInv, Carries, Fits, Unended
<1>5. InFlight(c)'
  BY <1>1, <1>2 DEF IInv, InFlight, IsRow, Fits, IsAfter, Writers
<1>6. Bystanders(c)
  BY <1>1 DEF IInv, Types, Bystanders
<1> QED
  BY <1>1, <1>2, <1>3, <1>4, <1>5, <1>6, QuietStep

\* An edit that ends without a commit.
LEMMA FailStep ==
    ASSUME IInv, NEW c \in Edit, NEW how \in {"not-found", "crashed"},
           pc[c] # "ended", End(c, how), UNCHANGED <<rows, audit>>
    PROVE  IInv'
<1>1. /\ pc' = [pc EXCEPT ![c] = "ended"]
      /\ outcome' = [outcome EXCEPT ![c] = how]
      /\ UNCHANGED <<target, patch, previous>>
  BY DEF End
<1>2. Types' /\ pc'[c] = "ended" /\ outcome'[c] = how
  BY <1>1 DEF IInv, Types
<1>3. outcome[c] = "none"
  BY DEF IInv, Unended
<1>4. Carries(c)' /\ InFlight(c)' /\ Unended(c)' /\ Bystanders(c)
  BY <1>1, <1>2 DEF IInv, Types, Carries, InFlight, Unended, Bystanders
<1> QED
  BY <1>2, <1>3, <1>4, QuietStep

\* The commit appends the entry and writes the row in one step.
LEMMA CommitStep ==
    ASSUME IInv, NEW c \in Edit, Commit(c)
    PROVE  IInv'
<1>1. /\ pc[c] = "commit" /\ pc' = [pc EXCEPT ![c] = "ended"]
      /\ rows' = [rows EXCEPT ![target[c]] = Assigned(rows[target[c]], Written(c))]
      /\ audit' = Append(audit, Entry(c))
      /\ outcome' = [outcome EXCEPT ![c] = "ok"]
      /\ UNCHANGED <<target, patch, previous>>
  BY DEF Commit, End
<1>2. PICK id \in Id : id = target[c]
  BY <1>1 DEF IInv, InFlight
<1>3. id # Missing
  BY ReportedRows DEF Id
<1>4. PICK last \in Nat : last = Len(audit)
  BY DEF IInv, Types
<1>5. PICK wrote : wrote = Written(c)
  OBVIOUS
<1>6. /\ Fits(id, patch[c])
      /\ IsRow(id, previous[c])
      /\ IsRow(id, rows[id])
  BY <1>1, <1>2, <1>3 DEF IInv, Carries, InFlight, Types
<1>7. /\ Fits(id, wrote) /\ wrote \in Piece
      /\ DOMAIN wrote = {f \in DOMAIN patch[c] : patch[c][f] # previous[c][f]}
      /\ \A f \in DOMAIN wrote : wrote[f] = patch[c][f]
  BY <1>5, <1>6, WrittenFits
<1>8. PICK entry : entry = Entry(c)
  OBVIOUS
<1>9. /\ entry \in Logged
      /\ entry.by = c /\ entry.entity = id
      /\ entry.previous = previous[c] /\ entry.wrote = wrote
  BY <1>2, <1>5, <1>6, <1>7, <1>8, RowColumns DEF Entry, Logged
<1>10. PICK new : new = Assigned(rows[id], wrote)
  OBVIOUS
<1>11. /\ IsRow(id, new) /\ DOMAIN new = DOMAIN rows[id]
       /\ \A f \in DOMAIN rows[id] :
             new[f] = IF f \in DOMAIN wrote THEN wrote[f] ELSE rows[id][f]
  <2>1. PICK row : row = rows[id]
    OBVIOUS
  <2>2. IsRow(id, row) /\ Fits(id, wrote)
    BY <1>6, <1>7, <2>1
  <2>3. /\ IsRow(id, Assigned(row, wrote))
        /\ DOMAIN Assigned(row, wrote) = DOMAIN row
        /\ \A f \in DOMAIN row :
              Assigned(row, wrote)[f] = IF f \in DOMAIN wrote THEN wrote[f] ELSE row[f]
    BY <2>2, AssignedRow
  <2> QED
    BY <1>10, <2>1, <2>3
<1>12. /\ audit \in Seq(Logged)
       /\ audit' = Append(audit, entry)
       /\ rows' = [rows EXCEPT ![id] = new]
  BY <1>1, <1>2, <1>5, <1>8, <1>10 DEF IInv, Types
<1>13. /\ rows'[id] = new
       /\ \A other \in Id \ {id} : rows'[other] = rows[other]
       /\ DOMAIN rows = Id /\ DOMAIN rows' = Id
  BY <1>12 DEF IInv, Types
<1>14. /\ Len(audit') = last + 1 /\ audit'[last + 1] = entry
       /\ DOMAIN audit = 1..last /\ DOMAIN audit' = 1..(last + 1)
       /\ \A k \in 1..last : audit'[k] = audit[k]
  BY <1>4, <1>9, <1>12
<1>15. \A e \in Edit \ {c} : pc'[e] = pc[e] /\ outcome'[e] = outcome[e]
  BY <1>1 DEF IInv, Types
<1>16. pc'[c] = "ended" /\ outcome'[c] = "ok" /\ outcome[c] = "none"
  BY <1>1 DEF IInv, Types, Unended
<1>17. Types'
  <2>1. /\ rows' = [other \in Id |-> rows'[other]]
        /\ \A other \in Id : IsRow(other, rows'[other])
    BY <1>11, <1>12, <1>13 DEF IInv, Types
  <2>2. audit' \in Seq(Logged)
    BY <1>9, <1>12
  <2> QED
    BY <1>1, <2>1, <2>2 DEF IInv, Types, IsRow, Fits
<1>18. \A e \in Edit : Carries(e)' /\ Unended(e)'
  BY <1>1, <1>15, <1>16 DEF IInv, Carries, Fits, Unended
\* An edit that had read the row before this commit is one entry further
\* behind; a row that was dated stays so.
<1>19. \A x \in Exception : rows[x].resolved_at # NoValue => rows'[x].resolved_at # NoValue
  <2> SUFFICES ASSUME NEW x \in Exception, rows[x].resolved_at # NoValue, x = id
               PROVE  rows'[x].resolved_at # NoValue
    BY <1>13 DEF Id
  <2>1. "resolved_at" \in DOMAIN rows[id]
    BY <1>6, RowColumns, ReportedRows DEF Columns, Column
  <2>2. "resolved_at" \in DOMAIN wrote => wrote["resolved_at"] = c
    BY <1>1, <1>2, <1>3, <1>7 DEF IInv, Carries
  <2> QED
    BY <1>11, <1>13, <2>1, <2>2, DatesAreKnown
<1>20. \A e \in Edit : InFlight(e)'
  <2> SUFFICES ASSUME NEW e \in Edit, pc'[e] \in {"update", "commit"}
               PROVE  InFlight(e)'
    BY DEF InFlight
  <2>1. e # c /\ pc[e] \in {"update", "commit"}
    BY <1>15, <1>16
  <2>2. /\ target[e] \in Id
        /\ IsRow(target[e], previous[e])
        /\ target[e] \in Exception /\ previous[e].resolved_at # NoValue
           => rows[target[e]].resolved_at # NoValue
    BY <2>1 DEF IInv, InFlight
  <2>3. PICK n \in 0..last : IsAfter(previous[e], target[e], n)
    BY <1>4, <2>1 DEF IInv, InFlight
  <2>4. PICK row : row = previous[e]
    OBVIOUS
  <2>5. PICK other \in Id : other = target[e]
    BY <2>2
  <2>6. IsAfter(row, other, n)'
    BY <1>4, <1>9, <1>12, <2>3, <2>4, <2>5, PastStays
  <2>7. target'[e] = other /\ previous'[e] = row
    BY <1>1, <2>4, <2>5
  <2>8. n \in 0..(last + 1)
    OBVIOUS
  <2>9. \E k \in 0..Len(audit') : IsAfter(row, other, k)'
    BY <1>14, <2>6, <2>8
  <2>10. (\E k \in 0..Len(audit) : IsAfter(previous[e], target[e], k))'
    BY <2>7, <2>9 DEF IsAfter, Writers
  <2>11. IsRow(target[e], previous[e])'
    BY <1>1, <2>2 DEF IsRow, Fits
  <2> QED
    BY <1>1, <1>19, <2>2, <2>10, <2>11 DEF InFlight
<1>21. EveryEditIsAudited'
  <2>1. /\ \A j, k \in 1..last : audit[j].by = audit[k].by => j = k
        /\ \A k \in 1..last : audit[k].by \in Edit /\ outcome[audit[k].by] = "ok"
        /\ \A e \in Edit : outcome[e] = "ok" => \E k \in 1..last : audit[k].by = e
        /\ \A k \in 1..last : audit[k].entity = target[audit[k].by]
    BY SMTT(40), <1>14 DEF IInv, EveryEditIsAudited
  <2>2. \A k \in 1..last : audit[k].by # c
    BY <1>16, <2>1
  <2>3. \A j, k \in 1..(last + 1) : audit'[j].by = audit'[k].by => j = k
    BY <1>9, <1>14, <2>1, <2>2
  <2>4. \A k \in 1..(last + 1) : audit'[k].by \in Edit /\ outcome'[audit'[k].by] = "ok"
    BY <1>9, <1>14, <1>15, <1>16, <2>1
  <2>5. \A e \in Edit : outcome'[e] = "ok" => \E k \in 1..(last + 1) : audit'[k].by = e
    BY <1>9, <1>14, <1>15, <2>1
  <2>6. \A k \in 1..(last + 1) : audit'[k].entity = target'[audit'[k].by]
    BY <1>1, <1>2, <1>9, <1>14, <2>1
  <2> QED
    BY <1>14, <2>3, <2>4, <2>5, <2>6 DEF EveryEditIsAudited
<1>22. LastChangeStands'
  <2> SUFFICES ASSUME NEW other \in Id
               PROVE  IsAfter(rows[other], other, last + 1)'
    BY <1>13, <1>14 DEF LastChangeStands
  <2>1. PICK row : row = rows[other]
    OBVIOUS
  <2>2. IsAfter(row, other, last)
    BY <1>4, <1>13, <2>1 DEF IInv, LastChangeStands
  <2>3. CASE other = id
    <3>1. IsAfter(new, other, last + 1)'
      BY <1>4, <1>9, <1>11, <1>12, <2>1, <2>2, <2>3, EntryOfRow
    <3> QED
      BY <1>13, <2>3, <3>1 DEF IsAfter, Writers
  <2>4. CASE other # id
    <3>1. IsAfter(row, other, last + 1)'
      BY <1>4, <1>9, <1>12, <2>2, <2>4, EntryOfAnother
    <3> QED
      BY <1>13, <2>1, <2>4, <3>1 DEF IsAfter, Writers
  <2> QED
    BY <2>3, <2>4
<1>23. PreviousWasTrue'
  <2> SUFFICES ASSUME NEW k \in 1..(last + 1)
               PROVE  \E n \in 0..(k - 1) :
                         IsAfter(audit[k].previous, audit[k].entity, n)'
    BY <1>14 DEF PreviousWasTrue
  <2>1. CASE k \in 1..last
    <3>0. PreviousWasTrue /\ k \in DOMAIN audit
      BY <1>14, <2>1 DEF IInv
    <3>1. PICK n \in 0..(k - 1) : IsAfter(audit[k].previous, audit[k].entity, n)
      BY <3>0 DEF PreviousWasTrue
    <3>2. PICK row : row = audit[k].previous
      OBVIOUS
    <3>3. PICK other \in Id : other = audit[k].entity
      <4>1. audit[k] \in Logged
        BY <1>4, <1>12, <2>1
      <4> QED
        BY <4>1 DEF Logged
    <3>4. n \in 0..last
      BY <2>1
    <3>5. IsAfter(row, other, n)'
      BY <1>4, <1>9, <1>12, <3>1, <3>2, <3>3, <3>4, PastStays
    <3>6. audit'[k].previous = row /\ audit'[k].entity = other
      BY <1>14, <2>1, <3>2, <3>3
    <3>7. IsAfter(audit[k].previous, audit[k].entity, n)'
      BY <3>5, <3>6 DEF IsAfter, Writers
    <3> QED
      BY <3>7
  <2>2. CASE k = last + 1
    <3>1. PICK n \in 0..last : IsAfter(previous[c], id, n)
      BY <1>1, <1>2, <1>4 DEF IInv, InFlight
    <3>2. PICK row : row = previous[c]
      OBVIOUS
    <3>3. IsAfter(row, id, n)'
      BY <1>4, <1>9, <1>12, <3>1, <3>2, PastStays
    <3>4. n \in 0..(k - 1)
      BY <2>2
    <3>5. audit'[k].previous = row /\ audit'[k].entity = id
      BY <1>9, <1>14, <2>2, <3>2
    <3>6. IsAfter(audit[k].previous, audit[k].entity, n)'
      BY <3>3, <3>5 DEF IsAfter, Writers
    <3> QED
      BY <3>4, <3>6
  <2> QED
    BY <2>1, <2>2
<1>24. ClosedIsDated'
  <2> SUFFICES ASSUME NEW x \in Exception, rows'[x].status \in Closing
               PROVE  rows'[x].resolved_at # NoValue
    BY DEF ClosedIsDated
  <2>1. rows[x].status \in Closing => rows[x].resolved_at # NoValue
    BY DEF IInv, ClosedIsDated
  <2>2. CASE x # id
    BY <1>13, <2>1, <2>2 DEF Id
  <2>3. CASE x = id
    <3>1. {"status", "resolved_at"} \subseteq DOMAIN rows[id]
      BY <1>6, <2>3, RowColumns, ReportedRows DEF Columns, Column
    <3>2. CASE "status" \notin DOMAIN wrote
      BY <1>11, <1>13, <1>19, <2>1, <2>3, <3>1, <3>2
    <3>3. CASE "status" \in DOMAIN wrote
      <4>1. patch[c].status \in Closing
        BY <1>7, <1>11, <1>13, <2>3, <3>1, <3>3
      <4>2. "resolved_at" \in DOMAIN patch[c] /\ patch[c].resolved_at = c
        BY <1>1, <1>2, <1>3, <1>7, <2>3, <3>3, <4>1 DEF IInv, Carries
      <4>3. CASE previous[c].resolved_at = c
        \* c is known as a date already, so the row is dated.
        <5>1. rows[x].resolved_at # NoValue
          BY <1>1, <1>2, <2>3, <4>3, DatesAreKnown DEF IInv, InFlight
        <5> QED
          BY <1>19, <5>1
      <4>4. CASE previous[c].resolved_at # c
        <5>1. "resolved_at" \in DOMAIN wrote /\ wrote["resolved_at"] = c
          BY <1>7, <4>2, <4>4
        <5> QED
          BY <1>11, <1>13, <2>3, <3>1, <5>1, DatesAreKnown
      <4> QED
        BY <4>3, <4>4
    <3> QED
      BY <3>2, <3>3
  <2> QED
    BY <2>2, <2>3
<1> QED
  BY <1>17, <1>18, <1>20, <1>21, <1>22, <1>23, <1>24 DEF IInv

LEMMA StepInv == IInv /\ [Next]_vars => IInv'
<1> SUFFICES ASSUME IInv, [Next]_vars PROVE IInv'
  OBVIOUS
<1>1. CASE UNCHANGED vars
  <2>1. Types'
    BY <1>1 DEF IInv, vars, Types, IsRow, Fits
  <2>2. \A c \in Edit : Carries(c)' /\ InFlight(c)' /\ Unended(c)'
    BY <1>1 DEF IInv, vars, Carries, InFlight, Unended, IsRow, Fits, IsAfter, Writers
  <2>3. EveryEditIsAudited' /\ ClosedIsDated'
    BY <1>1 DEF IInv, vars, EveryEditIsAudited, ClosedIsDated
  <2>4. LastChangeStands' /\ PreviousWasTrue'
    BY <1>1 DEF IInv, vars, LastChangeStands, PreviousWasTrue, IsAfter, Writers
  <2> QED
    BY <2>1, <2>2, <2>3, <2>4 DEF IInv
<1>2. ASSUME NEW c \in Edit, Override(c) \/ Update(c) \/ Serve(c) \/ Crash(c)
      PROVE  IInv'
  <2>1. CASE Override(c)
    BY <2>1, OverrideStep
  <2>2. CASE Update(c)
    BY <2>2, UpdateStep
  <2>3. CASE NotFound(c)
    BY <2>3, FailStep DEF NotFound
  <2>4. CASE Get(c)
    BY <2>4, GetStep
  <2>5. CASE UpdateRow(c)
    BY <2>5, UpdateRowStep
  <2>6. CASE Commit(c)
    BY <2>6, CommitStep
  <2>7. CASE Crash(c)
    BY <2>7, FailStep DEF Crash
  <2> QED
    BY <1>2, <2>1, <2>2, <2>3, <2>4, <2>5, <2>6, <2>7 DEF Serve
<1> QED
  BY <1>1, <1>2 DEF Next

-----------------------------------------------------------------------------
(* Theorems *)

\* The inductive invariant of the manual mutations.
THEOREM Invariance == Spec => []IInv
  BY InitInv, StepInv, PTL DEF Spec

\* Rows stay records of their tables and edits assign only columns of them.
THEOREM TypeCorrect == Spec => []TypeOK
<1>1. IInv => TypeOK
  <2> SUFFICES ASSUME IInv PROVE TypeOK
    OBVIOUS
  <2>1. /\ \A m \in Match : rows[m] \in MatchRow
        /\ \A x \in Exception : rows[x] \in ExceptionRow
    BY RowsOfTables DEF IInv, Types, Id
  <2>2. ASSUME NEW c \in Edit, pc[c] \in {"update", "commit"}
        PROVE  target[c] \in DOMAIN rows /\ DOMAIN patch[c] \subseteq DOMAIN previous[c]
    <3>1. target[c] \in Id /\ IsRow(target[c], previous[c]) /\ DOMAIN rows = Id
      BY <2>2 DEF IInv, InFlight, Types
    <3>2. target[c] # Missing
      BY <3>1, ReportedRows DEF Id
    <3>3. DOMAIN patch[c] \subseteq Columns(target[c])
      BY <2>2, <3>2 DEF IInv, Carries, Fits
    <3> QED
      BY <3>1, <3>3, RowColumns
  <2> QED
    BY <2>1, <2>2 DEF IInv, Types, TypeOK, Id
<1> QED
  BY <1>1, Invariance, PTL

\* The edits that succeed and the audit rows are one for one, however edits
\* interleave and wherever they crash.
THEOREM EditsAudited == Spec => []EveryEditIsAudited
<1>1. IInv => EveryEditIsAudited
  BY DEF IInv
<1> QED
  BY <1>1, Invariance, PTL

\* Every row is what the log says of it: no concurrent edit undoes another's
\* field, and nothing but an audited edit changes a row.
THEOREM ChangesStand == Spec => []LastChangeStands
<1>1. IInv => LastChangeStands
  BY DEF IInv
<1> QED
  BY <1>1, Invariance, PTL

\* The previous values the log records were once those of the committed row.
THEOREM PreviousTrue == Spec => []PreviousWasTrue
<1>1. IInv => PreviousWasTrue
  BY DEF IInv
<1> QED
  BY <1>1, Invariance, PTL

\* A closed exception is dated, whatever edits of its status race.
THEOREM ClosedDated == Spec => []ClosedIsDated
<1>1. IInv => ClosedIsDated
  BY DEF IInv
<1> QED
  BY <1>1, Invariance, PTL

-----------------------------------------------------------------------------
(* Nobody is stuck *)

Served == {c \in Edit : pc[c] \notin {"idle", "ended"}}

\* The guards of the steps of Serve.
CanServe(c) ==
    \/ pc[c] \in {"get", "commit"}
    \/ /\ pc[c] = "update"
       /\ DOMAIN Written(c) # {} =>
             \A e \in Edit \ {c} : target[e] = target[c] => ~Holds(e)

SomeoneGoesOn == Served # {} => \E c \in Served : CanServe(c)

\* An edit has one row, so that the one that holds its lock waits for no
\* other: of the edits that are being served, one can always go on.
THEOREM NobodyIsStuck == Spec => []SomeoneGoesOn
<1>1. IInv => SomeoneGoesOn
  <2> SUFFICES ASSUME IInv, NEW c \in Served, \A e \in Served : ~CanServe(e) PROVE FALSE
    BY DEF SomeoneGoesOn
  <2>1. pc[c] = "update"
    BY DEF IInv, Types, Served, CanServe
  <2>2. PICK e \in Edit \ {c} : Holds(e)
    BY <2>1 DEF CanServe
  <2>3. e \in Served /\ CanServe(e)
    BY <2>2 DEF Holds, Served, CanServe
  <2> QED
    BY <2>3
<1> QED
  BY <1>1, Invariance, PTL

\* How many steps of its own an edit that is being served is from its end.
StepsLeft(c) ==
    IF pc[c] = "get" THEN 3
    ELSE IF pc[c] = "update" THEN 2
    ELSE IF pc[c] = "commit" THEN 1
    ELSE 0

\* Each step of an edit brings it nearer to its end, and none of another's
\* sets it back.
EveryStepCounts ==
    [][\A c \in Edit : pc[c] # "idle" =>
          IF Serve(c) \/ Crash(c) THEN StepsLeft(c)' < StepsLeft(c)
          ELSE StepsLeft(c)' = StepsLeft(c)]_vars

\* An edit that waited for a row does not read it again: what it does until it
\* ends is bounded, whatever the others do to the row.
THEOREM EditsRunDown == Spec => EveryStepCounts
<1>1. ASSUME TypeOK, [Next]_vars
      PROVE  \A c \in Edit : pc[c] # "idle" =>
                IF Serve(c) \/ Crash(c) THEN StepsLeft(c)' < StepsLeft(c)
                ELSE StepsLeft(c)' = StepsLeft(c)
  <2>1. pc \in [Edit -> {"idle", "get", "update", "commit", "ended"}]
    BY <1>1 DEF TypeOK
  <2>2. ASSUME NEW c \in Edit, Serve(c) \/ Crash(c)
        PROVE  /\ StepsLeft(c)' < StepsLeft(c)
               /\ \A e \in Edit \ {c} : pc'[e] = pc[e]
    BY <2>1, <2>2
       DEF Serve, Crash, NotFound, Get, UpdateRow, Commit, End, StepsLeft
  <2>3. ASSUME NEW c \in Edit, Override(c) \/ Update(c)
        PROVE  pc[c] = "idle" /\ \A e \in Edit \ {c} : pc'[e] = pc[e]
    BY <2>1, <2>3 DEF Override, Update
  <2>4. \A c \in Edit : pc'[c] = pc[c] => StepsLeft(c)' = StepsLeft(c)
    BY DEF StepsLeft
  <2>5. CASE UNCHANGED vars
    BY <2>2, <2>4, <2>5 DEF vars
  <2>6. CASE \E c \in Edit : Override(c) \/ Update(c) \/ Serve(c) \/ Crash(c)
    BY <2>2, <2>3, <2>4, <2>6
  <2> QED
    BY <1>1, <2>5, <2>6 DEF Next
<1> QED
  BY <1>1, TypeCorrect, PTL DEF Spec, EveryStepCounts


=============================================================================
