----------------------------- MODULE TaxProofs -----------------------------
(***************************************************************************)
(* Theorems about tax classification, for any number of requests and any   *)
(* ledger.  A listing may decide what to insert by a SELECT that is out of *)
(* date; what keeps it from undoing a correction is that of the rows it    *)
(* has inserted none is committed, and none is another listing's.          *)
(***************************************************************************)
EXTENDS Tax, FiniteSetTheorems, TLAPS

\* A label that was corrected, and only such a one, is of a corrected row.
Coherent(row) == row.corrected_label # NoLabel => row.status = "corrected"

\* What the request has in memory, by where it is.
Memory(c) ==
    /\ lines[c] \subseteq ledger
    /\ todo[c] \in Seq(GlLine)
    /\ \A k \in 1..Len(todo[c]) : todo[c][k] \in ledger
    /\ inserted[c] \in 0..Len(todo[c])
    /\ pc[c] # "insert" => inserted[c] = 0
    /\ pc[c] \in {"get", "update", "commit"} => label[c] \in Correction
    /\ pc[c] \in {"update", "commit"} =>
          /\ target[c] \in DOMAIN rows
          /\ read[c] \in Classification /\ Coherent(read[c])
          /\ read[c].status = "corrected" => rows[target[c]].status = "corrected"

\* The unique key: what is not committed is of one listing.
OneWriterPerKey ==
    /\ \A c \in Request : Uncommitted(c) \cap DOMAIN rows = {}
    /\ \A c, e \in Request : c # e => Uncommitted(c) \cap Uncommitted(e) = {}

Shape ==
    /\ DOMAIN lines = Request /\ DOMAIN todo = Request /\ DOMAIN inserted = Request
    /\ DOMAIN label = Request /\ DOMAIN target = Request /\ DOMAIN read = Request
    /\ ledger \subseteq Line

IInv ==
    /\ TypeOK
    /\ Shape
    /\ \A c \in Request : Memory(c)
    /\ OneWriterPerKey
    /\ \A line \in DOMAIN rows : Coherent(rows[line])
    /\ LearnedIsCorrected

LEMMA ClassifyType ==
    ASSUME NEW line
    PROVE  /\ ClassifyLine(line) \in Classification
           /\ ClassifyLine(line).status # "corrected"
           /\ Coherent(ClassifyLine(line))
BY DEF ClassifyLine, Classification, Coherent

LEMMA InitInv == Init => IInv
<1> SUFFICES ASSUME Init PROVE IInv
  OBVIOUS
<1>1. PICK listed \in SUBSET (ledger \cap GlLine) :
         rows = [line \in listed |-> ClassifyLine(line)]
  BY DEF Init
<1>2. TypeOK
  BY <1>1, ClassifyType DEF Init, TypeOK
<1>3. Shape /\ OneWriterPerKey
  BY DEF Init, Shape, OneWriterPerKey, Uncommitted
<1>4. \A c \in Request : Memory(c)
  BY DEF Init, Memory
<1>5. /\ \A line \in DOMAIN rows : Coherent(rows[line])
      /\ LearnedIsCorrected
  BY <1>1, ClassifyType DEF Init, LearnedIsCorrected
<1> QED
  BY <1>2, <1>3, <1>4, <1>5 DEF IInv

\* Orders of a finite set are sequences of its elements.
LEMMA OrdersAreSequences ==
    ASSUME NEW S, IsFiniteSet(S), NEW order \in SetToSeqs(S)
    PROVE  order \in Seq(S)
<1>1. Cardinality(S) \in Nat
  BY FS_CardinalityType
<1>2. order \in [1..Cardinality(S) -> S]
  BY DEF SetToSeqs
<1> QED
  BY <1>1, <1>2

-----------------------------------------------------------------------------
(* Steps of one request *)

Places ==
    {"idle", "select-lines", "select-existing", "insert", "list", "get", "update",
     "commit", "ended"}

OthersStay(c) ==
    \A e \in Request \ {c} :
        /\ pc'[e] = pc[e] /\ lines'[e] = lines[e] /\ todo'[e] = todo[e]
        /\ inserted'[e] = inserted[e] /\ label'[e] = label[e]
        /\ target'[e] = target[e] /\ read'[e] = read[e]

\* Tables only grow, and a corrected row stays corrected.
Grows ==
    /\ ledger \subseteq ledger'
    /\ \A line \in DOMAIN rows :
          line \in DOMAIN rows'
          /\ (rows[line].status = "corrected" => rows'[line].status = "corrected")

LEMMA Bystander ==
    ASSUME IInv, NEW c \in Request, OthersStay(c), Grows, NEW e \in Request \ {c}
    PROVE  Memory(e)' /\ Uncommitted(e)' = Uncommitted(e)
<1>1. /\ pc'[e] = pc[e] /\ lines'[e] = lines[e] /\ todo'[e] = todo[e]
      /\ inserted'[e] = inserted[e] /\ label'[e] = label[e]
      /\ target'[e] = target[e] /\ read'[e] = read[e]
  BY DEF OthersStay
<1>2. Memory(e)
  BY DEF IInv
<1>3. Memory(e)'
  BY <1>1, <1>2 DEF Memory, Grows
<1> QED
  BY <1>1, <1>3 DEF Uncommitted

\* What is left to show of a step that writes no table.
LEMMA QuietKeeps ==
    ASSUME IInv, NEW c \in Request, OthersStay(c),
           UNCHANGED <<ledger, rows, training, audit>>,
           Shape', pc' \in [Request -> Places], Memory(c)',
           Uncommitted(c)' \subseteq Uncommitted(c)
    PROVE  IInv'
<1>1. Grows
  BY DEF Grows
<1>2. \A e \in Request : Memory(e)' /\ Uncommitted(e)' \subseteq Uncommitted(e)
  BY <1>1, Bystander
<1>3. OneWriterPerKey'
  BY <1>2 DEF IInv, OneWriterPerKey
<1>4. TypeOK'
  BY <1>2 DEF IInv, TypeOK, Memory, Places
<1>5. /\ \A line \in DOMAIN rows' : Coherent(rows'[line])
      /\ LearnedIsCorrected'
  BY DEF IInv, LearnedIsCorrected
<1> QED
  BY <1>2, <1>3, <1>4, <1>5 DEF IInv

\* A request that ends holds nothing any more.
LEMMA Ending ==
    ASSUME IInv, NEW c \in Request, NEW how, End(c, how)
    PROVE  /\ OthersStay(c) /\ Shape' /\ Memory(c)'
           /\ pc' \in [Request -> Places]
           /\ Uncommitted(c)' = {} /\ ledger' = ledger
<1>1. OthersStay(c)
  BY DEF End, IInv, TypeOK, Shape, OthersStay
<1>2. Shape'
  BY DEF End, IInv, Shape
<1>3. pc' \in [Request -> Places]
  BY DEF End, IInv, TypeOK, Places
<1>4. pc'[c] = "ended" /\ lines'[c] = {} /\ todo'[c] = <<>> /\ inserted'[c] = 0
  BY DEF End, IInv, TypeOK, Shape
<1>5. Memory(c)'
  BY <1>4 DEF Memory
<1>6. Uncommitted(c)' = {}
  BY <1>4 DEF Uncommitted
<1>7. ledger' = ledger
  BY DEF End
<1> QED
  BY <1>1, <1>2, <1>3, <1>5, <1>6, <1>7

LEMMA QuietEnds ==
    ASSUME IInv, NEW c \in Request, NEW how, End(c, how),
           UNCHANGED <<rows, training, audit>>
    PROVE  IInv'
BY Ending, QuietKeeps

\* The steps that read, or only change where the request is.
LEMMA ReadingSteps ==
    ASSUME IInv, NEW c \in Request,
           List(c) \/ SelectLines(c) \/ Correct(c) \/ Get(c) \/ UpdateRow(c)
    PROVE  IInv'
<1> USE DEF IInv, TypeOK, Shape, tables, listing, correcting
<1>1. UNCHANGED <<ledger, rows, training, audit>>
  BY DEF List, SelectLines, Correct, Get, UpdateRow
<1>2. Shape'
  BY DEF List, SelectLines, Correct, Get, UpdateRow
<1>3. pc' \in [Request -> Places]
  BY DEF List, SelectLines, Correct, Get, UpdateRow, Places
<1>4. OthersStay(c)
  BY DEF List, SelectLines, Correct, Get, UpdateRow, OthersStay
<1>5. Uncommitted(c)' = Uncommitted(c)
  BY DEF List, SelectLines, Correct, Get, UpdateRow, Uncommitted
<1>6. Memory(c)'
  <2>1. CASE List(c)
    BY <2>1 DEF List, Memory
  <2>2. CASE SelectLines(c)
    BY <2>2 DEF SelectLines, Memory
  <2>3. CASE Correct(c)
    BY <2>3 DEF Correct, Memory
  <2>4. CASE Get(c)
    BY <2>4 DEF Get, Memory
  <2>5. CASE UpdateRow(c)
    BY <2>5 DEF UpdateRow, Memory
  <2> QED
    BY <2>1, <2>2, <2>3, <2>4, <2>5
<1> QED
  BY <1>1, <1>2, <1>3, <1>4, <1>5, <1>6, QuietKeeps

\* The second SELECT orders the rows that are to be inserted.
LEMMA SelectExistingStep ==
    ASSUME IInv, NEW c \in Request, SelectExisting(c)
    PROVE  IInv'
<1> USE DEF IInv, TypeOK, Shape, tables, correcting
<1>1. Memory(c)
  OBVIOUS
<1>2. PICK order \in SetToSeqs(Pending(c)) : todo' = [todo EXCEPT ![c] = order]
  BY DEF SelectExisting
<1>3. Pending(c) \subseteq GlLine /\ Pending(c) \subseteq ledger
  BY <1>1 DEF Pending, Memory
<1>4. IsFiniteSet(Pending(c))
  BY <1>3, TaxConstants, FS_Subset
<1>5. order \in Seq(Pending(c))
  BY <1>2, <1>4, OrdersAreSequences
<1>6. order \in Seq(GlLine) /\ \A k \in 1..Len(order) : order[k] \in ledger
  BY <1>3, <1>5
<1>7. inserted'[c] = 0 /\ inserted[c] = 0
  BY <1>1 DEF SelectExisting, Memory
<1>8. UNCHANGED <<ledger, rows, training, audit>> /\ OthersStay(c) /\ Shape'
  BY <1>2 DEF SelectExisting, OthersStay
<1>9. pc' \in [Request -> Places]
  BY DEF SelectExisting, Places
<1>10. pc'[c] \in {"list", "insert"}
  BY DEF SelectExisting
<1>11. todo'[c] = order /\ lines'[c] = {}
  BY <1>2 DEF SelectExisting
<1>12. Memory(c)'
  BY <1>6, <1>7, <1>8, <1>10, <1>11 DEF Memory
<1>13. Uncommitted(c)' = {}
  BY <1>7 DEF Uncommitted
<1> QED
  BY <1>8, <1>9, <1>12, <1>13, QuietKeeps
\* An INSERT goes through only where no row, committed or not, has its key.
LEMMA InsertRowStep ==
    ASSUME IInv, NEW c \in Request, InsertRow(c)
    PROVE  IInv'
<1> USE DEF IInv, TypeOK, Shape, tables, correcting
<1>1. Memory(c) /\ Inserting(c)
  BY DEF InsertRow
<1>2. UNCHANGED <<ledger, rows, training, audit, pc, lines, todo, label, target, read>>
  BY DEF InsertRow
<1>3. inserted' = [inserted EXCEPT ![c] = inserted[c] + 1]
  BY DEF InsertRow
<1>4. OthersStay(c) /\ Grows
  BY <1>2, <1>3 DEF OthersStay, Grows
<1>5. inserted'[c] = inserted[c] + 1 /\ inserted[c] \in Nat
  BY <1>1, <1>3 DEF Memory
<1>6. Memory(c)'
  BY <1>1, <1>2, <1>5 DEF Memory, Inserting
<1>7. \A e \in Request : Memory(e)'
  BY <1>4, <1>6, Bystander
<1>8. Uncommitted(c)' \subseteq Uncommitted(c) \cup {NextKey(c)}
  BY <1>2, <1>5 DEF Uncommitted, NextKey
<1>9. \A e \in Request \ {c} : Uncommitted(e)' = Uncommitted(e)
  BY <1>4, Bystander
<1>10. NextKey(c) \notin DOMAIN rows
       /\ \A e \in Request \ {c} : NextKey(c) \notin Uncommitted(e)
  BY <1>1 DEF InsertRow, WaitsFor
<1>11. OneWriterPerKey'
  <2>1. ASSUME NEW e \in Request PROVE Uncommitted(e)' \cap DOMAIN rows' = {}
    <3>1. Uncommitted(e) \cap DOMAIN rows = {} /\ rows' = rows
      BY <1>2 DEF OneWriterPerKey
    <3>2. CASE e = c
      BY <1>8, <1>10, <3>1, <3>2
    <3>3. CASE e # c
      BY <1>9, <3>1, <3>3
    <3> QED
      BY <3>2, <3>3
  <2>2. ASSUME NEW e \in Request, NEW d \in Request, e # d
        PROVE  Uncommitted(e)' \cap Uncommitted(d)' = {}
    <3>1. Uncommitted(e) \cap Uncommitted(d) = {}
      BY <2>2 DEF OneWriterPerKey
    <3>2. CASE e = c
      BY <1>8, <1>9, <1>10, <2>2, <3>1, <3>2
    <3>3. CASE d = c
      BY <1>8, <1>9, <1>10, <2>2, <3>1, <3>3
    <3>4. CASE e # c /\ d # c
      BY <1>9, <3>1, <3>4
    <3> QED
      BY <3>2, <3>3, <3>4
  <2> QED
    BY <2>1, <2>2 DEF OneWriterPerKey
<1>12. TypeOK'
  BY <1>2, <1>7 DEF Memory
<1>13. Shape' /\ LearnedIsCorrected' /\ \A line \in DOMAIN rows' : Coherent(rows'[line])
  BY <1>2, <1>3 DEF LearnedIsCorrected
<1> QED
  BY <1>7, <1>11, <1>12, <1>13

\* What a listing commits are new rows: no committed one is replaced.
LEMMA CommitRowsStep ==
    ASSUME IInv, NEW c \in Request, CommitRows(c)
    PROVE  IInv'
<1> USE DEF IInv, TypeOK, Shape
<1>1. Memory(c) /\ Uncommitted(c) \cap DOMAIN rows = {}
  BY DEF OneWriterPerKey
<1>2. rows' = [line \in DOMAIN rows \cup Uncommitted(c) |->
                 IF line \in Uncommitted(c) THEN ClassifyLine(line) ELSE rows[line]]
  BY DEF CommitRows
<1>3. UNCHANGED <<ledger, training, audit, lines, label, target, read>>
  BY DEF CommitRows, correcting
<1>4. Uncommitted(c) \subseteq ledger \cap GlLine
  BY <1>1 DEF Memory, Uncommitted
<1>5. /\ DOMAIN rows' = DOMAIN rows \cup Uncommitted(c)
      /\ \A line \in DOMAIN rows : rows'[line] = rows[line]
      /\ \A line \in Uncommitted(c) : rows'[line] = ClassifyLine(line)
  BY <1>1, <1>2
<1>6. OthersStay(c) /\ Grows
  BY <1>3, <1>5 DEF CommitRows, OthersStay, Grows
<1>7. pc'[c] = "list" /\ todo'[c] = <<>> /\ inserted'[c] = 0
  BY DEF CommitRows
<1>8. Memory(c)'
  BY <1>1, <1>3, <1>7 DEF Memory
<1>9. \A e \in Request : Memory(e)'
  BY <1>6, <1>8, Bystander
<1>10. Uncommitted(c)' = {}
  BY <1>7 DEF Uncommitted
<1>11. \A e \in Request \ {c} : Uncommitted(e)' = Uncommitted(e)
  BY <1>6, Bystander
<1>12. OneWriterPerKey'
  <2>1. ASSUME NEW e \in Request PROVE Uncommitted(e)' \cap DOMAIN rows' = {}
    <3>1. CASE e = c
      BY <1>10, <3>1
    <3>2. CASE e # c
      <4>1. Uncommitted(e)' = Uncommitted(e)
        BY <1>11, <3>2
      <4>2. Uncommitted(e) \cap DOMAIN rows = {} /\ Uncommitted(e) \cap Uncommitted(c) = {}
        BY <3>2 DEF OneWriterPerKey
      <4> QED
        BY <1>5, <4>1, <4>2
    <3> QED
      BY <3>1, <3>2
  <2>2. ASSUME NEW e \in Request, NEW d \in Request, e # d
        PROVE  Uncommitted(e)' \cap Uncommitted(d)' = {}
    <3>1. Uncommitted(e) \cap Uncommitted(d) = {}
      BY <2>2 DEF OneWriterPerKey
    <3>2. CASE e = c
      BY <1>10, <3>2
    <3>3. CASE d = c
      BY <1>10, <3>3
    <3>4. CASE e # c /\ d # c
      BY <1>11, <3>1, <3>4
    <3> QED
      BY <3>2, <3>3, <3>4
  <2> QED
    BY <2>1, <2>2 DEF OneWriterPerKey
<1>13. pc' \in [Request -> Places] /\ Shape'
  BY <1>3 DEF CommitRows, Places
<1>14. rows' \in [DOMAIN rows' -> Classification]
  BY <1>2, <1>5, ClassifyType
<1>15. TypeOK'
  BY <1>3, <1>4, <1>5, <1>9, <1>13, <1>14 DEF Memory, Places
<1>16. \A line \in DOMAIN rows' : Coherent(rows'[line])
  BY <1>5, ClassifyType
<1>17. LearnedIsCorrected'
  BY SMTT(40), <1>3, <1>5, ClassifyType DEF LearnedIsCorrected
<1> QED
  BY <1>9, <1>12, <1>13, <1>15, <1>16, <1>17

\* After a correction its row is corrected, and the label is the one of this
\* example or, where the request had read that label, that of an earlier one.
LEMMA CommitCorrectionStep ==
    ASSUME IInv, NEW c \in Request, CommitCorrection(c)
    PROVE  IInv'
<1> USE DEF IInv, TypeOK, Shape
<1> DEFINE row == rows[target[c]]
           new == rows'[target[c]]
           example == [by |-> c, line |-> target[c], label |-> label[c]]
<1>1. /\ Memory(c) /\ pc[c] = "commit"
      /\ target[c] \in DOMAIN rows /\ row \in Classification /\ Coherent(row)
      /\ label[c] \in Correction
  BY DEF CommitCorrection, Memory
<1>2. /\ training' = training \cup {example} /\ audit' = audit \cup {example}
      /\ End(c, "ok")
  BY DEF CommitCorrection
<1>3. /\ DOMAIN rows' = DOMAIN rows
      /\ \A line \in DOMAIN rows \ {target[c]} : rows'[line] = rows[line]
      /\ new = [row EXCEPT !.status = IF WritesStatus(c) THEN "corrected" ELSE row.status,
                           !.corrected_label = IF WritesLabel(c) THEN label[c]
                                               ELSE row.corrected_label]
  BY <1>1 DEF CommitCorrection, Classification
<1>4. new \in Classification
  BY <1>1, <1>3 DEF Classification
<1>5. new.status = "corrected"
  BY <1>1, <1>3 DEF Classification, WritesStatus, Memory
<1>6. new.corrected_label = label[c] \/ new.corrected_label = row.corrected_label
  BY <1>1, <1>3 DEF Classification
<1>7. new.corrected_label # label[c] => row.status = "corrected"
  BY <1>1, <1>3, TaxConstants DEF Classification, WritesLabel, Memory, Coherent
<1>8. OthersStay(c) /\ Shape' /\ Memory(c)' /\ pc' \in [Request -> Places]
      /\ Uncommitted(c)' = {} /\ ledger' = ledger
  BY <1>2, Ending
<1>9. Grows
  BY <1>3, <1>5, <1>8 DEF Grows
<1>10. \A e \in Request : Memory(e)'
  BY <1>8, <1>9, Bystander
<1>11. \A e \in Request \ {c} : Uncommitted(e)' = Uncommitted(e)
  BY <1>8, <1>9, Bystander
<1>12. OneWriterPerKey'
  BY ZenonT(60), <1>3, <1>8, <1>11 DEF OneWriterPerKey
<1>13. rows' \in [DOMAIN rows' -> Classification]
  <2>1. rows' = [line \in DOMAIN rows' |-> rows'[line]]
    BY DEF CommitCorrection
  <2> QED
    BY <1>3, <1>4, <2>1
<1>14. example \in [by : Request, line : GlLine, label : Correction]
  BY <1>1
<1>15. TypeOK'
  BY <1>2, <1>3, <1>8, <1>10, <1>13, <1>14 DEF Memory, Places
<1>16. \A line \in DOMAIN rows' : Coherent(rows'[line])
  BY <1>3, <1>5 DEF Coherent
<1>17. training' = audit'
  BY <1>2 DEF LearnedIsCorrected
<1>18. {t.line : t \in training'} = {line \in DOMAIN rows' : rows'[line].status = "corrected"}
  <2>1. {t.line : t \in training'} = {t.line : t \in training} \cup {target[c]}
    <3>1. \A x : x \in {t.line : t \in training'} <=>
                  x \in {t.line : t \in training} \/ x = example.line
      BY <1>2
    <3>2. example.line = target[c]
      OBVIOUS
    <3> QED
      BY <3>1, <3>2
  <2>2. {t.line : t \in training} = {line \in DOMAIN rows : rows[line].status = "corrected"}
    BY DEF LearnedIsCorrected
  <2> QED
    BY <1>1, <1>3, <1>5, <2>1, <2>2
<1>19. ASSUME NEW line \in DOMAIN rows', rows'[line].status = "corrected"
       PROVE  \E t \in training' : t.line = line /\ t.label = rows'[line].corrected_label
  <2>1. CASE line # target[c]
    BY <1>2, <1>3, <1>19, <2>1 DEF LearnedIsCorrected
  <2>2. CASE line = target[c] /\ new.corrected_label = label[c]
    <3>1. example \in training' /\ example.line = target[c] /\ example.label = label[c]
      BY <1>2
    <3> QED
      BY <2>2, <3>1
  <2>3. CASE line = target[c] /\ new.corrected_label # label[c]
    BY <1>1, <1>2, <1>6, <1>7, <2>3 DEF LearnedIsCorrected
  <2> QED
    BY <2>1, <2>2, <2>3
<1>20. LearnedIsCorrected'
  BY <1>17, <1>18, <1>19 DEF LearnedIsCorrected
<1> QED
  BY <1>8, <1>10, <1>12, <1>15, <1>16, <1>20

LEMMA IngestLineStep ==
    ASSUME IInv, IngestLine
    PROVE  IInv'
<1> USE DEF IInv, TypeOK, Shape, listing, correcting
<1>1. /\ ledger \subseteq ledger' /\ ledger' \subseteq Line
      /\ UNCHANGED <<rows, training, audit, pc, listing, correcting, outcome>>
  BY DEF IngestLine
<1>2. \A c \in Request : Memory(c)'
  BY <1>1 DEF Memory
<1>3. OneWriterPerKey'
  <2>1. \A c \in Request : Uncommitted(c)' = Uncommitted(c)
    BY <1>1 DEF Uncommitted
  <2> QED
    BY <1>1, <2>1 DEF OneWriterPerKey
<1> QED
  BY <1>1, <1>2, <1>3 DEF LearnedIsCorrected

-----------------------------------------------------------------------------
(* The theorems *)

LEMMA StepInv == IInv /\ [Next]_vars => IInv'
<1> SUFFICES ASSUME IInv, [Next]_vars PROVE IInv'
  OBVIOUS
<1>1. ASSUME NEW c \in Request,
             List(c) \/ SelectLines(c) \/ Correct(c) \/ Get(c) \/ UpdateRow(c)
      PROVE  IInv'
  BY <1>1, ReadingSteps
<1>2. ASSUME NEW c \in Request, SelectExisting(c) PROVE IInv'
  BY <1>2, SelectExistingStep
<1>3. ASSUME NEW c \in Request, InsertRow(c) PROVE IInv'
  BY <1>3, InsertRowStep
<1>4. ASSUME NEW c \in Request, CommitRows(c) PROVE IInv'
  BY <1>4, CommitRowsStep
<1>5. ASSUME NEW c \in Request, CommitCorrection(c) PROVE IInv'
  BY <1>5, CommitCorrectionStep
<1>6. ASSUME NEW c \in Request,
             InsertConflicts(c) \/ DeadlockVictim(c) \/ Answer(c) \/ NotFound(c) \/ Crash(c)
      PROVE  IInv'
  <2>1. \E how : End(c, how) /\ UNCHANGED <<rows, training, audit>>
    BY <1>6 DEF InsertConflicts, DeadlockVictim, Answer, NotFound, Crash
  <2> QED
    BY <2>1, QuietEnds
<1>7. CASE UNCHANGED vars
  <2> USE <1>7 DEF vars, tables, listing, correcting
  <2>1. \A c \in Request : Memory(c)' /\ Uncommitted(c)' = Uncommitted(c)
    BY DEF IInv, Memory, Uncommitted
  <2>2. OneWriterPerKey'
    BY <2>1 DEF IInv, OneWriterPerKey
  <2>3. TypeOK' /\ Shape' /\ LearnedIsCorrected'
    BY DEF IInv, TypeOK, Shape, LearnedIsCorrected
  <2>4. \A line \in DOMAIN rows' : Coherent(rows'[line])
    BY DEF IInv
  <2> QED
    BY <2>1, <2>2, <2>3, <2>4 DEF IInv
<1> QED
  BY <1>1, <1>2, <1>3, <1>4, <1>5, <1>6, <1>7, IngestLineStep DEF Next, Serve

\* The inductive invariant: each request's memory agrees with the tables, and
\* every key that is not committed has one writer.
THEOREM Invariance == Spec => []IInv
  BY InitInv, StepInv, PTL DEF Spec

\* Only stored lines of the general ledger have a classification.
THEOREM TypeCorrect == Spec => []TypeOK
  BY Invariance, PTL DEF IInv

\* Corrected rows and training examples go together: no listing, however
\* late its INSERTs, undoes a correction.
THEOREM CorrectionsStand == Spec => []LearnedIsCorrected
  BY Invariance, PTL DEF IInv

-----------------------------------------------------------------------------
(* What a listing is answered with *)

\* The rows a listing inserts.
Chosen(c) == {todo[c][k] : k \in 1..Len(todo[c])}

\* A listing never loses sight of a line that was stored when it was asked
\* for, and no correction it could have shown is undone under it.
Current(c) ==
    /\ pc[c] # "ended" => outcome[c] = "none"
    /\ pc[c] = "select-lines" => began[c].stored \subseteq ledger
    /\ pc[c] = "select-existing" => began[c].stored \subseteq lines[c]
    /\ pc[c] = "insert" => began[c].stored \cap GlLine \subseteq DOMAIN rows \cup Chosen(c)
    /\ pc[c] = "list" => began[c].stored \cap GlLine \subseteq DOMAIN rows
    /\ pc[c] \in {"select-lines", "select-existing", "insert", "list"} =>
          \A line \in began[c].corrected :
              line \in DOMAIN rows /\ rows[line].status = "corrected"
    /\ outcome[c] = "ok" /\ label[c] = NoLabel =>
          /\ began[c].stored \cap GlLine \subseteq DOMAIN answer[c]
          /\ \A line \in began[c].corrected : answer[c][line].status = "corrected"

Domains ==
    DOMAIN began = Request /\ DOMAIN answer = Request /\ DOMAIN outcome = Request

Histories == Domains /\ \A c \in Request : Current(c)

\* The order of the INSERTs misses none of the lines.
LEMMA OrdersCover ==
    ASSUME NEW S, IsFiniteSet(S), NEW order \in SetToSeqs(S)
    PROVE  \A x \in S : \E k \in 1..Len(order) : order[k] = x
<1>1. PICK n \in Nat : n = Cardinality(S)
  BY FS_CardinalityType
<1>2. order \in [1..n -> S] /\ \A i, j \in 1..n : i # j => order[i] # order[j]
  BY <1>1 DEF SetToSeqs
<1>3. Len(order) = n
  BY <1>2
<1>4. IsFiniteSet(1..n) /\ Cardinality(1..n) = n
  BY FS_Interval
<1>5. order \in Injection(1..n, S)
  BY <1>2 DEF Injection, IsInjective
<1>6. order \in Surjection(1..n, S)
  BY <1>1, <1>4, <1>5, FS_Injection
<1> QED
  BY <1>3, <1>6 DEF Surjection

\* No step takes a row away, or a correction.
LEMMA StepGrows == IInv /\ [Next]_vars => Grows
<1> SUFFICES ASSUME IInv, [Next]_vars PROVE Grows
  OBVIOUS
<1>1. CASE ledger \subseteq ledger' /\ rows' = rows
  BY <1>1 DEF Grows
<1>2. CASE IngestLine
  BY <1>1, <1>2 DEF IngestLine
<1>3. ASSUME NEW c \in Request, CommitRows(c) PROVE Grows
  <2>1. Uncommitted(c) \cap DOMAIN rows = {}
    BY DEF IInv, OneWriterPerKey
  <2>2. rows' = [line \in DOMAIN rows \cup Uncommitted(c) |->
                   IF line \in Uncommitted(c) THEN ClassifyLine(line) ELSE rows[line]]
        /\ ledger' = ledger
    BY <1>3 DEF CommitRows
  <2> QED
    BY <2>1, <2>2 DEF Grows
<1>4. ASSUME NEW c \in Request, CommitCorrection(c) PROVE Grows
  <2>1. /\ target[c] \in DOMAIN rows /\ rows[target[c]] \in Classification
        /\ read[c].status = "corrected" => rows[target[c]].status = "corrected"
    BY <1>4 DEF IInv, TypeOK, Memory, CommitCorrection
  <2>2. /\ DOMAIN rows' = DOMAIN rows
        /\ \A line \in DOMAIN rows \ {target[c]} : rows'[line] = rows[line]
        /\ rows'[target[c]].status
             = IF WritesStatus(c) THEN "corrected" ELSE rows[target[c]].status
    BY <1>4, <2>1 DEF CommitCorrection, Classification
  <2>3. rows'[target[c]].status = "corrected"
    BY <2>1, <2>2 DEF WritesStatus
  <2>4. ledger' = ledger
    BY <1>4 DEF CommitCorrection, End
  <2> QED
    BY <2>2, <2>3, <2>4 DEF Grows
<1>5. ASSUME NEW c \in Request,
             List(c) \/ SelectLines(c) \/ Correct(c) \/ Get(c) \/ UpdateRow(c)
               \/ SelectExisting(c) \/ InsertRow(c) \/ InsertConflicts(c)
               \/ DeadlockVictim(c) \/ Answer(c) \/ NotFound(c) \/ Crash(c)
      PROVE  Grows
  <2>1. ledger' = ledger /\ rows' = rows
    BY <1>5 DEF List, SelectLines, Correct, Get, UpdateRow, SelectExisting, InsertRow,
                InsertConflicts, DeadlockVictim, Answer, NotFound, Crash, End, tables
  <2> QED
    BY <1>1, <2>1
<1>6. CASE UNCHANGED vars
  BY <1>1, <1>6 DEF vars, tables
<1> QED
  BY <1>2, <1>3, <1>4, <1>5, <1>6 DEF Next, Serve

\* What is a request's own, when another one takes a step.
Untouched(e) ==
    /\ pc'[e] = pc[e] /\ lines'[e] = lines[e] /\ todo'[e] = todo[e]
    /\ inserted'[e] = inserted[e]
    /\ label'[e] = label[e] /\ began'[e] = began[e] /\ answer'[e] = answer[e]
    /\ outcome'[e] = outcome[e]

LEMMA UntouchedStays ==
    ASSUME NEW e \in Request, Current(e), Grows, Untouched(e)
    PROVE  Current(e)'
<1>1. Chosen(e)' = Chosen(e)
  BY DEF Untouched, Chosen
<1>2. DOMAIN rows \subseteq DOMAIN rows'
  BY DEF Grows
<1> QED
  BY <1>1, <1>2 DEF Current, Untouched, Grows

Serves(c) == List(c) \/ Correct(c) \/ Serve(c) \/ Crash(c)

\* A step of one request is none of another's.
LEMMA OthersUntouched ==
    ASSUME IInv, Domains, NEW c \in Request, Serves(c)
    PROVE  Domains' /\ \A e \in Request \ {c} : Untouched(e)
<1> USE DEF IInv, TypeOK, Shape, Domains, Untouched, tables, listing, correcting
<1>1. CASE List(c)
  BY <1>1 DEF List
<1>2. CASE Correct(c)
  BY <1>2 DEF Correct
<1>3. CASE SelectLines(c)
  BY <1>3 DEF SelectLines
<1>4. CASE SelectExisting(c)
  <2>1. PICK order : todo' = [todo EXCEPT ![c] = order]
    BY <1>4 DEF SelectExisting
  <2> QED
    BY <1>4, <2>1 DEF SelectExisting
<1>5. CASE InsertRow(c)
  BY <1>5 DEF InsertRow
<1>6. CASE CommitRows(c)
  BY <1>6 DEF CommitRows
<1>7. CASE Get(c) \/ UpdateRow(c)
  BY <1>7 DEF Get, UpdateRow
<1>8. CASE \E how : End(c, how) /\ answer' = answer
  BY <1>8 DEF End
<1>9. CASE Answer(c)
  BY <1>9 DEF Answer, End
<1>10. InsertConflicts(c) \/ DeadlockVictim(c) \/ NotFound(c) \/ CommitCorrection(c)
          \/ Crash(c) => \E how : End(c, how) /\ answer' = answer
  BY DEF InsertConflicts, DeadlockVictim, NotFound, CommitCorrection, Crash
<1> QED
  BY <1>1, <1>2, <1>3, <1>4, <1>5, <1>6, <1>7, <1>8, <1>9, <1>10 DEF Serves, Serve

\* A request that ends without an answer, or after a correction, has nothing
\* to account for.
LEMMA EndsUnanswered ==
    ASSUME IInv, Domains, NEW c \in Request, NEW how, End(c, how),
           how # "ok" \/ label[c] # NoLabel
    PROVE  Current(c)'
<1>1. pc'[c] = "ended" /\ outcome'[c] = how /\ label'[c] = label[c]
  BY DEF End, IInv, TypeOK, Domains
<1> QED
  BY <1>1 DEF Current

\* A step of a listing, or of a correction, keeps its own account.
LEMMA ServedStays ==
    ASSUME IInv, Histories, Grows, NEW c \in Request, Serves(c)
    PROVE  Current(c)'
<1> USE DEF IInv, TypeOK, Shape, Histories, Domains, tables, listing, correcting
<1>0. Current(c) /\ Memory(c)
  OBVIOUS
<1>1. CASE List(c)
  <2>1. /\ began'[c] = [stored |-> ledger,
              corrected |-> {line \in DOMAIN rows : rows[line].status = "corrected"}]
        /\ pc'[c] = "select-lines" /\ outcome'[c] = "none"
        /\ rows' = rows /\ ledger' = ledger
    BY <1>0, <1>1 DEF List, Current
  <2>2. began'[c].stored = ledger
        /\ began'[c].corrected = {line \in DOMAIN rows : rows[line].status = "corrected"}
    BY <2>1
  <2> QED
    BY <2>1, <2>2 DEF Current
<1>2. CASE SelectLines(c)
  <2>1. /\ pc[c] = "select-lines" /\ pc'[c] = "select-existing" /\ lines'[c] = ledger
        /\ UNCHANGED <<rows, began, outcome, label, answer>>
    BY <1>2 DEF SelectLines
  <2> QED
    BY <1>0, <2>1 DEF Current
<1>3. CASE SelectExisting(c)
  <2>1. PICK order \in SetToSeqs(Pending(c)) : todo' = [todo EXCEPT ![c] = order]
    BY <1>3 DEF SelectExisting
  <2>2. /\ pc[c] = "select-existing"
        /\ pc'[c] = IF Pending(c) = {} THEN "list" ELSE "insert"
        /\ todo'[c] = order
        /\ UNCHANGED <<rows, began, outcome, label, answer>>
    BY <1>3, <2>1 DEF SelectExisting
  <2>3. began[c].stored \cap GlLine \subseteq DOMAIN rows \cup Pending(c)
    BY <1>0, <2>2 DEF Current, Pending
  <2>4. Pending(c) \subseteq Chosen(c)'
    <3>1. IsFiniteSet(Pending(c))
      <4>1. Pending(c) \subseteq Line
        BY <1>0 DEF Pending, Memory
      <4> QED
        BY <4>1, TaxConstants, FS_Subset
    <3>2. Chosen(c)' = {order[k] : k \in 1..Len(order)}
      BY <2>2 DEF Chosen
    <3> QED
      BY <2>1, <3>1, <3>2, OrdersCover
  <2> QED
    BY <1>0, <2>2, <2>3, <2>4 DEF Current
<1>4. CASE InsertRow(c)
  <2>1. /\ pc[c] = "insert"
        /\ UNCHANGED <<rows, pc, todo, began, outcome, label, answer>>
    BY <1>4 DEF InsertRow, Inserting
  <2>2. Chosen(c)' = Chosen(c)
    BY <2>1 DEF Chosen
  <2> QED
    BY <1>0, <2>1, <2>2 DEF Current
<1>5. CASE CommitRows(c)
  <2>1. /\ pc[c] = "insert" /\ pc'[c] = "list"
        /\ UNCHANGED <<began, outcome, label, answer>>
    BY <1>5 DEF CommitRows
  <2>2. inserted[c] = Len(todo[c])
    BY <1>0, <1>5 DEF CommitRows, Inserting, Memory
  <2>3. DOMAIN rows' = DOMAIN rows \cup Chosen(c)
    BY <1>5, <2>2 DEF CommitRows, Uncommitted, Chosen
  <2> QED
    BY <1>0, <2>1, <2>3 DEF Current, Grows
<1>6. CASE Answer(c)
  <2>1. /\ pc[c] = "list" /\ pc'[c] = "ended" /\ answer'[c] = rows
        /\ began' = began
    BY <1>6 DEF Answer, End
  <2> QED
    BY <1>0, <2>1 DEF Current
<1>7. CASE Correct(c)
  <2>1. pc[c] = "idle" /\ pc'[c] = "get" /\ UNCHANGED outcome
    BY <1>7 DEF Correct
  <2> QED
    BY <1>0, <2>1 DEF Current
<1>8. CASE Get(c) \/ UpdateRow(c)
  <2>1. pc[c] \in {"get", "update"} /\ pc'[c] \in {"update", "commit"} /\ UNCHANGED outcome
    BY <1>8 DEF Get, UpdateRow
  <2> QED
    BY <1>0, <2>1 DEF Current
<1>9. CASE CommitCorrection(c)
  <2>1. End(c, "ok") /\ label[c] # NoLabel
    BY <1>0, <1>9, TaxConstants DEF CommitCorrection, Memory
  <2> QED
    BY <2>1, EndsUnanswered
<1>10. CASE InsertConflicts(c) \/ DeadlockVictim(c) \/ NotFound(c) \/ Crash(c)
  <2>1. End(c, "error") \/ End(c, "crashed")
    BY <1>10 DEF InsertConflicts, DeadlockVictim, NotFound, Crash
  <2> QED
    BY <2>1, EndsUnanswered
<1> QED
  BY <1>1, <1>2, <1>3, <1>4, <1>5, <1>6, <1>7, <1>8, <1>9, <1>10 DEF Serves, Serve

LEMMA HistoriesInit == Init => Histories
  BY DEF Init, Histories, Domains, Current

LEMMA HistoriesStep == IInv /\ Histories /\ [Next]_vars => Histories'
<1> SUFFICES ASSUME IInv, Histories, [Next]_vars PROVE Histories'
  OBVIOUS
<1>1. Grows
  BY StepGrows
<1>2. ASSUME NEW c \in Request, Serves(c) PROVE Histories'
  <2>1. Domains' /\ \A e \in Request \ {c} : Untouched(e)
    BY <1>2, OthersUntouched DEF Histories
  <2>2. \A e \in Request \ {c} : Current(e)'
    BY <1>1, <2>1, UntouchedStays DEF Histories
  <2>3. Current(c)'
    BY <1>1, <1>2, ServedStays
  <2> QED
    BY <2>1, <2>2, <2>3 DEF Histories
<1>3. CASE IngestLine \/ UNCHANGED vars
  <2>1. Domains' /\ \A e \in Request : Untouched(e)
    BY <1>3 DEF IngestLine, vars, listing, correcting, Histories, Domains, Untouched
  <2> QED
    BY <1>1, <2>1, UntouchedStays DEF Histories
<1> QED
  BY <1>2, <1>3 DEF Next, Serves

\* A listing that is answered has every line of the general ledger that was
\* stored when it was asked for, and no correction of before undone.
THEOREM ListingsAreCurrent == Spec => []AnswersAreCurrent
<1>1. Histories => AnswersAreCurrent
  BY DEF Histories, Current, AnswersAreCurrent
<1> QED
  BY <1>1, HistoriesInit, HistoriesStep, Invariance, PTL DEF Spec

-----------------------------------------------------------------------------
(* Nobody is stuck *)

\* Where everyone waits for another, some wait for each other.
LEMMA Knot ==
    ASSUME NEW Waiting, IsFiniteSet(Waiting), Waiting # {}, NEW waits,
           \A x \in Waiting : waits[x] \cap Waiting # {}
    PROVE  \E group \in SUBSET Waiting :
              /\ group # {}
              /\ \A x \in group :
                    waits[x] \cap group # {} /\ \E y \in group : x \in waits[y]
<1> DEFINE Closed ==
             {group \in SUBSET Waiting :
                 group # {} /\ \A x \in group : waits[x] \cap group # {}}
<1>1. Closed \subseteq FiniteSubsetsOf(Waiting) /\ Waiting \in Closed
  BY FS_FiniteSubsetsOfFinite
<1>2. PICK group \in Closed :
         \A less \in Closed : ~(<<less, group>> \in StrictSubsetOrdering(Waiting))
  <2> HIDE DEF Closed
  <2> QED
    BY <1>1, FS_StrictSubsetOrderingWellFounded, WFMin
<1>3. PICK followed : followed = {x \in group : \E y \in group : x \in waits[y]}
  OBVIOUS
<1>4. followed \in Closed
  <2>1. \A x \in group : waits[x] \cap followed # {}
    BY <1>3
  <2> QED
    BY <1>3, <2>1
<1>5. followed = group
  <2>1. ~(<<followed, group>> \in StrictSubsetOrdering(Waiting))
    BY <1>2, <1>4
  <2> QED
    BY <1>3, <2>1 DEF StrictSubsetOrdering
<1>6. \A x \in group : \E y \in group : x \in waits[y]
  BY <1>3, <1>5
<1>7. group \in SUBSET Waiting /\ group # {} /\ \A x \in group : waits[x] \cap group # {}
  BY <1>2
<1> QED
  BY <1>6, <1>7

\* The lines of a SELECT can be inserted in some order.
LEMMA SomeOrder ==
    ASSUME NEW S, IsFiniteSet(S)
    PROVE  SetToSeqs(S) # {}
<1>1. PICK n \in Nat : n = Cardinality(S)
  BY FS_CardinalityType
<1>2. PICK order \in Bijection(1..n, S) : TRUE
  BY <1>1, FS_CardinalityType DEF ExistsBijection
<1>3. order \in [1..n -> S] /\ \A i, j \in 1..n : order[i] = order[j] => i = j
  BY <1>2 DEF Bijection, Injection, IsInjective
<1>4. order \in SetToSeqs(S)
  BY <1>1, <1>3 DEF SetToSeqs
<1> QED
  BY <1>4

Open == {c \in Request : pc[c] \notin {"idle", "ended"}}

\* The guards of the steps of Serve.
CanServe(c) ==
    \/ pc[c] \in {"select-lines", "list", "get", "commit"}
    \/ pc[c] = "select-existing" /\ SetToSeqs(Pending(c)) # {}
    \/ Inserting(c) /\ WaitsFor(c) = {} /\ NextKey(c) \notin DOMAIN rows
    \/ Inserting(c) /\ NextKey(c) \in DOMAIN rows
    \/ /\ WaitsFor(c) # {}
       /\ \E group \in SUBSET Request :
             /\ c \in group
             /\ \A x \in group :
                   WaitsFor(x) \cap group # {} /\ \E y \in group : x \in WaitsFor(y)
    \/ pc[c] = "insert" /\ ~Inserting(c)
    \/ /\ pc[c] = "update"
       /\ Updates(c) =>
             \A e \in Request \ {c} :
                 pc[e] = "commit" /\ target[e] = target[c] => ~Updates(e)

\* However listings and corrections wait for each other, one of those that
\* are being served can go on.
SomeoneGoesOn == Open # {} => \E c \in Open : CanServe(c)

FewAreOpen == IsFiniteSet(Open)

LEMMA FewAreOpenStep == IInv /\ Histories /\ FewAreOpen /\ [Next]_vars => FewAreOpen'
<1> SUFFICES ASSUME IInv, Histories, FewAreOpen, [Next]_vars PROVE FewAreOpen'
  OBVIOUS
<1>1. ASSUME NEW c \in Request, Serves(c) PROVE FewAreOpen'
  <2>1. \A e \in Request \ {c} : pc'[e] = pc[e]
    BY <1>1, OthersUntouched DEF Histories, Untouched
  <2>2. Open' \subseteq Open \cup {c}
    BY <2>1 DEF Open
  <2>3. IsFiniteSet(Open \cup {c})
    BY FS_AddElement DEF FewAreOpen
  <2> QED
    BY <2>2, <2>3, FS_Subset DEF FewAreOpen
<1>2. CASE IngestLine \/ UNCHANGED vars
  <2>1. pc' = pc
    BY <1>2 DEF IngestLine, vars
  <2> QED
    BY <2>1 DEF FewAreOpen, Open
<1> QED
  BY <1>1, <1>2 DEF Next, Serves

LEMMA GoingOn ==
    ASSUME IInv, FewAreOpen
    PROVE  SomeoneGoesOn
<1> SUFFICES ASSUME Open # {}, \A c \in Open : ~CanServe(c) PROVE FALSE
  BY DEF SomeoneGoesOn
<1>1. \A c \in Request : ~(pc[c] \in {"select-lines", "list", "get", "commit"})
  BY DEF Open, CanServe
<1>2. ASSUME NEW c \in Open PROVE pc[c] # "select-existing"
  <2>1. Pending(c) \subseteq Line
    BY DEF Pending, Open, IInv, Memory, Shape
  <2>2. SetToSeqs(Pending(c)) # {}
    BY <2>1, SomeOrder, TaxConstants, FS_Subset
  <2> QED
    BY <2>2 DEF CanServe
<1>3. ASSUME NEW c \in Open PROVE pc[c] # "update"
  BY <1>1 DEF CanServe
<1>4. ASSUME NEW c \in Open PROVE Inserting(c) /\ WaitsFor(c) # {}
  <2>1. pc[c] = "insert"
    BY <1>1, <1>2, <1>3 DEF Open, IInv, TypeOK
  <2> QED
    BY <2>1 DEF CanServe
\* Those that are waited for have inserted something, and are open.
<1>5. ASSUME NEW c \in Open PROVE WaitsFor(c) \subseteq Open
  <2> SUFFICES ASSUME NEW e \in WaitsFor(c) PROVE e \in Open
    OBVIOUS
  <2>1. e \in Request /\ Uncommitted(e) # {}
    BY DEF WaitsFor
  <2>2. Memory(e)
    BY <2>1 DEF IInv
  <2>3. inserted[e] # 0
    BY <2>1 DEF Uncommitted
  <2>4. pc[e] = "insert"
    BY <2>2, <2>3 DEF Memory
  <2> QED
    BY <2>1, <2>4 DEF Open
<1>6. PICK waits : waits = [c \in Open |-> WaitsFor(c)]
  OBVIOUS
<1>7. \A c \in Open : waits[c] = WaitsFor(c) /\ waits[c] \cap Open # {}
  BY <1>4, <1>5, <1>6
<1>8. PICK group \in SUBSET Open :
         /\ group # {}
         /\ \A x \in group : waits[x] \cap group # {} /\ \E y \in group : x \in waits[y]
  BY <1>7, Knot DEF FewAreOpen
<1>9. \A x \in group :
         WaitsFor(x) \cap group # {} /\ \E y \in group : x \in WaitsFor(y)
  BY <1>7, <1>8
<1>10. PICK c \in group : TRUE
  BY <1>8
<1>11. CanServe(c)
  <2>1. group \in SUBSET Request /\ c \in Open
    BY <1>8 DEF Open
  <2> QED
    BY <1>4, <1>9, <2>1 DEF CanServe
<1> QED
  BY <1>8, <1>11

\* No request waits for ever for want of one that can go on: the database
\* breaks every knot of listings, and what waits for nobody goes on.
THEOREM NobodyIsStuck == Spec => []SomeoneGoesOn
<1>1. Init => FewAreOpen
  <2> SUFFICES ASSUME Init PROVE FewAreOpen
    OBVIOUS
  <2>1. Open = {}
    BY DEF Init, Open
  <2> QED
    BY <2>1, FS_EmptySet DEF FewAreOpen
<1> QED
  BY <1>1, FewAreOpenStep, GoingOn, HistoriesInit, HistoriesStep, Invariance, PTL DEF Spec

\* How many steps of its own a request that is being served is from its end,
\* at most: a listing inserts each row at most once.
StepsLeft(c) ==
    IF pc[c] = "select-lines" THEN Cardinality(Line) + 4
    ELSE IF pc[c] = "select-existing" THEN Cardinality(Line) + 3
    ELSE IF pc[c] = "insert" THEN Len(todo[c]) - inserted[c] + 2
    ELSE IF pc[c] = "get" THEN 3
    ELSE IF pc[c] = "update" THEN 2
    ELSE IF pc[c] \in {"list", "commit"} THEN 1
    ELSE 0

\* Each step of a request brings it nearer to its end; no step of another and
\* no ingested line sets it back.
EveryStepCounts ==
    [][\A c \in Request : pc[c] # "idle" =>
          /\ StepsLeft(c) \in Nat
          /\ IF Serve(c) \/ Crash(c) THEN StepsLeft(c)' < StepsLeft(c)
             ELSE StepsLeft(c)' = StepsLeft(c)]_vars

\* The order of a finite set is as long as the set.
LEMMA OrderLength ==
    ASSUME NEW S \in SUBSET Line, NEW order \in SetToSeqs(S)
    PROVE  Len(order) \in Nat /\ Len(order) <= Cardinality(Line)
<1>1. IsFiniteSet(S) /\ Cardinality(S) <= Cardinality(Line)
  BY TaxConstants, FS_Subset
<1>2. PICK n \in Nat : n = Cardinality(S)
  BY <1>1, FS_CardinalityType
<1>3. order \in [1..n -> S]
  BY <1>2 DEF SetToSeqs
<1>4. Len(order) = n
  BY <1>3
<1> QED
  BY <1>1, <1>2, <1>4

LEMMA StepsLeftAt ==
    ASSUME IInv, NEW c \in Request
    PROVE  /\ StepsLeft(c) \in Nat
           /\ pc[c] \notin {"idle", "ended"} => StepsLeft(c) > 0
<1>1. PICK most \in Nat : most = Cardinality(Line)
  BY TaxConstants, FS_CardinalityType
<1>2. PICK length \in Nat : length = Len(todo[c])
  BY DEF IInv, Memory, Shape
<1>3. inserted[c] \in 0..length
  BY <1>2 DEF IInv, TypeOK
<1>4. pc[c] \in {"idle", "select-lines", "select-existing", "insert",
                 "list", "get", "update", "commit", "ended"}
  BY DEF IInv, TypeOK
<1>5. CASE pc[c] = "insert"
  <2>1. StepsLeft(c) = length - inserted[c] + 2
    BY <1>2, <1>5 DEF StepsLeft
  <2> QED
    BY <1>3, <2>1
<1>6. CASE pc[c] \in {"select-lines", "select-existing"}
  <2>1. StepsLeft(c) \in {most + 4, most + 3}
    BY <1>1, <1>6 DEF StepsLeft
  <2> QED
    BY <2>1
<1>7. CASE pc[c] \notin {"insert", "select-lines", "select-existing"}
  <2>1. StepsLeft(c) \in 0..3 /\ (pc[c] \notin {"idle", "ended"} => StepsLeft(c) \in 1..3)
    BY <1>4, <1>7 DEF StepsLeft
  <2> QED
    BY <2>1
<1> QED
  BY <1>5, <1>6, <1>7

\* A row that is inserted is one less to insert; an order that is chosen has
\* no more rows than there are lines.
LEMMA ListingCounts ==
    ASSUME IInv, NEW c \in Request, SelectExisting(c) \/ InsertRow(c)
    PROVE  StepsLeft(c)' < StepsLeft(c)
<1>1. PICK most \in Nat : most = Cardinality(Line)
  BY TaxConstants, FS_CardinalityType
<1>2. /\ pc \in [Request -> {"idle", "select-lines", "select-existing", "insert",
                             "list", "get", "update", "commit", "ended"}]
      /\ DOMAIN todo = Request /\ DOMAIN inserted = Request
  BY DEF IInv, TypeOK, Shape
<1>3. CASE SelectExisting(c)
  <2>1. pc[c] = "select-existing" /\ pc'[c] \in {"list", "insert"} /\ inserted' = inserted
    BY <1>2, <1>3 DEF SelectExisting
  <2>2. inserted[c] = 0
    BY <2>1 DEF IInv, Memory
  <2>3. PICK order \in SetToSeqs(Pending(c)) : todo' = [todo EXCEPT ![c] = order]
    BY <1>3 DEF SelectExisting
  <2>4. Pending(c) \in SUBSET Line
    BY DEF Pending, IInv, Memory, Shape
  <2>5. PICK length \in Nat : length = Len(todo'[c]) /\ length <= most
    BY <1>1, <1>2, <2>3, <2>4, OrderLength
  <2>6. StepsLeft(c) = most + 3 /\ StepsLeft(c)' \in {1, length + 2}
    BY <1>1, <2>1, <2>2, <2>5 DEF StepsLeft
  <2> QED
    BY <2>5, <2>6
<1>4. CASE InsertRow(c)
  <2>1. /\ pc[c] = "insert" /\ pc' = pc /\ todo' = todo
        /\ inserted'[c] = inserted[c] + 1
    BY <1>2, <1>4 DEF InsertRow, Inserting
  <2>2. PICK length \in Nat, done \in Nat : length = Len(todo[c]) /\ done = inserted[c]
    BY DEF IInv, Memory
  <2>3. StepsLeft(c) = length - done + 2 /\ StepsLeft(c)' = length - (done + 1) + 2
    BY <2>1, <2>2 DEF StepsLeft
  <2> QED
    BY <2>2, <2>3
<1> QED
  BY <1>3, <1>4

LEMMA ServeCounts ==
    ASSUME IInv, NEW c \in Request, Serve(c) \/ Crash(c)
    PROVE  StepsLeft(c)' < StepsLeft(c)
<1>1. PICK most \in Nat : most = Cardinality(Line)
  BY TaxConstants, FS_CardinalityType
<1>2. pc \in [Request -> {"idle", "select-lines", "select-existing", "insert",
                          "list", "get", "update", "commit", "ended"}]
  BY DEF IInv, TypeOK
<1>3. CASE SelectExisting(c) \/ InsertRow(c)
  BY <1>3, ListingCounts
<1>4. CASE CommitRows(c)
  <2>1. pc[c] = "insert" /\ pc'[c] = "list"
    BY <1>2, <1>4 DEF CommitRows
  <2>2. PICK length \in Nat, done \in Nat :
           length = Len(todo[c]) /\ done = inserted[c] /\ done <= length
    BY DEF IInv, Memory
  <2>3. StepsLeft(c) = length - done + 2 /\ StepsLeft(c)' = 1
    BY <2>1, <2>2 DEF StepsLeft
  <2> QED
    BY <2>2, <2>3
<1>5. CASE SelectLines(c) \/ Get(c) \/ UpdateRow(c)
  BY <1>1, <1>2, <1>5 DEF SelectLines, Get, UpdateRow, StepsLeft
<1>6. CASE \/ InsertConflicts(c) \/ DeadlockVictim(c) \/ Answer(c) \/ NotFound(c)
           \/ CommitCorrection(c) \/ Crash(c)
  <2>1. pc[c] \notin {"idle", "ended"} /\ pc'[c] = "ended"
    BY <1>2, <1>6 DEF InsertConflicts, DeadlockVictim, Answer, NotFound, CommitCorrection,
                      Crash, End, WaitsFor, Inserting
  <2>2. StepsLeft(c)' = 0
    BY <2>1 DEF StepsLeft
  <2> QED
    BY <2>1, <2>2, StepsLeftAt
<1> QED
  BY <1>3, <1>4, <1>5, <1>6 DEF Serve

\* A listing whose INSERT fails does not read again, and one that is overtaken
\* inserts no more than it chose: what a request does until it ends is
\* bounded, whatever the others do.
THEOREM RequestsRunDown == Spec => EveryStepCounts
<1>1. ASSUME IInv, Histories, [Next]_vars
      PROVE  \A c \in Request : pc[c] # "idle" =>
                /\ StepsLeft(c) \in Nat
                /\ IF Serve(c) \/ Crash(c) THEN StepsLeft(c)' < StepsLeft(c)
                   ELSE StepsLeft(c)' = StepsLeft(c)
  <2>1. ASSUME NEW c \in Request, Untouched(c) PROVE StepsLeft(c)' = StepsLeft(c)
    BY <2>1 DEF Untouched, StepsLeft
  <2>2. CASE \E c \in Request : Serves(c)
    <3>1. PICK c \in Request : Serves(c)
      BY <2>2
    <3>2. \A e \in Request \ {c} : StepsLeft(e)' = StepsLeft(e)
      BY <1>1, <2>1, <3>1, OthersUntouched DEF Histories
    <3>3. List(c) \/ Correct(c) => pc[c] = "idle"
      BY DEF List, Correct
    <3> QED
      BY <1>1, <3>1, <3>2, <3>3, ServeCounts, StepsLeftAt DEF Serves
  <2>3. CASE IngestLine \/ UNCHANGED vars
    <3>1. pc' = pc /\ todo' = todo /\ inserted' = inserted
      BY <2>3 DEF IngestLine, vars, listing
    <3>2. \A c \in Request : StepsLeft(c)' = StepsLeft(c)
      BY <3>1 DEF StepsLeft
    <3> QED
      BY <1>1, <3>2, ServeCounts, StepsLeftAt
  <2> QED
    BY <1>1, <2>2, <2>3 DEF Next, Serves
<1> QED
  BY <1>1, HistoriesInit, HistoriesStep, Invariance, PTL DEF Spec, EveryStepCounts


=============================================================================
