--------------------------- MODULE CopilotProofs ---------------------------
(***************************************************************************)
(* Safety of the copilot, for any number of questions, exceptions and      *)
(* terms.  A question that is being served carries what it has retrieved;  *)
(* `during' has the moments that can be of.  The one fact about numbers: a *)
(* retrieval takes each exception that at most Limit are no older than.    *)
(***************************************************************************)
EXTENDS Copilot, FiniteSetTheorems, TLAPS

DuringType == during \in [Query -> SUBSET SUBSET Exception]

Served(q) == pc[q] \in {"retrieve", "structure", "generate", "persist", "return"}

\* What is unresolved now was seen while the question was served.
Observed(q) == Served(q) => Unresolved \in during[q]

\* The answer is kept by the commit and not before.
Kept(q) ==
    /\ pc[q] \in {"idle", "retrieve", "structure", "generate", "persist"} => rows[q] = <<>>
    /\ pc[q] \in {"return", "answered"} => rows[q] = <<response[q]>>
    /\ pc[q] = "crashed" => rows[q] = <<>> \/ rows[q] = <<response[q]>>

\* What was retrieved, and what is answered, was unresolved at one moment.
WasTrue(q) ==
    /\ pc[q] \in {"structure", "generate"} => \E open \in during[q] : context[q] \subseteq open
    /\ pc[q] \in {"generate", "persist", "return", "answered"} =>
          \E open \in during[q] :
              /\ response[q].cited \subseteq LinesOf(open)
              /\ response[q].cited = {} => open = {}

\* Every retrieval finds an exception that fits the question.
CanBeHeeded(q) ==
    /\ question[q] \notin Biggest
    /\ \A open \in during[q] : Certain(open) \cap Terms[question[q]] # {}

Heeds(q) == CanBeHeeded(q) =>
    /\ pc[q] \in {"structure", "generate"} =>
          context[q] # {} /\ context[q] \subseteq Terms[question[q]]
    /\ pc[q] \in {"generate", "persist", "return", "answered"} =>
          /\ response[q].cited # {}
          /\ response[q].cited \subseteq LinesOf(Terms[question[q]])

PartOf(q) == Observed(q) /\ Kept(q) /\ WasTrue(q) /\ Heeds(q)

IInv == TypeOK /\ DuringType /\ \A q \in Query : PartOf(q)

-----------------------------------------------------------------------------
(* Retrievals *)

\* What is unresolved is finite, and so is each part of it.
LEMMA UnresolvedIsFinite ==
    /\ Unresolved \in SUBSET Exception /\ IsFiniteSet(Unresolved)
    /\ Cardinality(Unresolved) \in Nat
    /\ \A top \in SUBSET Unresolved : IsFiniteSet(top) /\ Cardinality(top) \in Nat
<1>1. Unresolved \in SUBSET Exception
  BY DEF Unresolved
<1>2. \A some \in SUBSET Exception : IsFiniteSet(some)
  BY CopilotConstants, FS_Subset
<1> QED
  BY <1>1, <1>2, FS_CardinalityType

\* A retrieval finds nothing only if there is nothing, and takes all it is
\* certain to take: with one of those left out there would be room for it.
LEMMA NewestIsComplete ==
    ASSUME NEW top \in Newest
    PROVE  /\ top \subseteq Unresolved
           /\ top = {} => Unresolved = {}
           /\ Certain(Unresolved) \subseteq top
<1>1. /\ top \in SUBSET Unresolved
      /\ Cardinality(top) = IF Cardinality(Unresolved) < Limit
                            THEN Cardinality(Unresolved) ELSE Limit
  BY DEF Newest
<1>2. Limit \in Nat \ {0}
  BY CopilotConstants
<1>3. Cardinality(Unresolved) \in Nat /\ IsFiniteSet(Unresolved)
  BY UnresolvedIsFinite
<1>4. ASSUME top = {} PROVE Unresolved = {}
  <2>1. Cardinality(top) = 0
    BY <1>4, FS_EmptySet
  <2>2. Cardinality(Unresolved) = 0
    BY <1>1, <1>2, <1>3, <2>1
  <2> QED
    BY <1>3, <2>2, FS_EmptySet
<1>5. ASSUME NEW e \in Certain(Unresolved), e \notin top PROVE FALSE
  <2> DEFINE younger == {f \in Unresolved : OpenedAt[f] >= OpenedAt[e]}
  <2>1. e \in Unresolved /\ Cardinality(younger) <= Limit
    BY <1>5 DEF Certain
  <2>2. top \cup {e} \subseteq younger
    <3>1. \A f \in top : OpenedAt[f] >= OpenedAt[e]
      BY <1>5, <2>1 DEF Newest
    <3>2. OpenedAt[e] >= OpenedAt[e]
      BY <2>1, UnresolvedIsFinite, CopilotConstants
    <3> QED
      BY <1>1, <2>1, <3>1, <3>2
  <2>3. Cardinality(top \cup {e}) <= Cardinality(younger) /\ Cardinality(younger) \in Nat
    <3>1. IsFiniteSet(younger)
      BY <1>3, FS_Subset
    <3> QED
      BY <2>2, <3>1, FS_Subset, FS_CardinalityType
  <2>4. Cardinality(top \cup {e}) = Cardinality(top) + 1 /\ Cardinality(top) \in Nat
    BY <1>1, <1>5, UnresolvedIsFinite, FS_AddElement
  <2>5. Cardinality(top) = Cardinality(Unresolved)
    BY <1>1, <1>2, <1>3, <2>1, <2>3, <2>4
  <2>6. top = Unresolved
    BY <1>1, <1>3, <2>5, FS_Subset
  <2> QED
    BY <1>5, <2>1, <2>6
<1> QED
  BY <1>1, <1>4, <1>5

\* What the terms leave of a retrieval.
LEMMA FitIsChosen ==
    ASSUME IInv, NEW q \in Query, Served(q), NEW top \in Newest
    PROVE  /\ Unresolved \in during[q]
           /\ Fit(question[q], top) \subseteq Unresolved
           /\ top = {} => Unresolved = {}
           /\ CanBeHeeded(q) =>
                 Fit(question[q], top) # {} /\ Fit(question[q], top) \subseteq Terms[question[q]]
<1>1. Unresolved \in during[q]
  BY DEF IInv, PartOf, Observed
<1>2. ASSUME CanBeHeeded(q)
      PROVE  question[q] \notin Biggest /\ top \cap Terms[question[q]] # {}
  BY <1>1, <1>2, NewestIsComplete DEF CanBeHeeded
<1> QED
  BY <1>1, <1>2, NewestIsComplete DEF Fit

-----------------------------------------------------------------------------

LEMMA InitInv == Init => IInv
<1> SUFFICES ASSUME Init PROVE IInv
  OBVIOUS
<1>1. TypeOK
  <2>1. (CHOOSE any \in Question : TRUE) \in Question
    BY CopilotConstants
  <2>2. NoAnswer \in Answer /\ <<>> \in Seq(Answer)
    BY DEF NoAnswer, Answer
  <2> QED
    BY <2>1, <2>2 DEF Init, TypeOK, Status
<1>2. DuringType
  BY DEF Init, DuringType
<1>3. ASSUME NEW q \in Query PROVE PartOf(q)
  BY DEF Init, PartOf, Observed, Served, Kept, WasTrue, Heeds
<1> QED
  BY <1>1, <1>2, <1>3 DEF IInv

-----------------------------------------------------------------------------
(* Runs and edits *)

\* What a question has seen takes in what is unresolved after the change,
\* and only grows.
LEMMA Observing ==
    ASSUME IInv, NEW q \in Query, Observe, UNCHANGED <<pc, asked, context, response, rows>>
    PROVE  during'[q] \in SUBSET SUBSET Exception /\ PartOf(q)'
<1>1. PartOf(q) /\ during[q] \in SUBSET SUBSET Exception /\ TypeOK
  BY DEF IInv, DuringType
<1>2. Unresolved' \in SUBSET Exception
  BY DEF Unresolved
<1>3. /\ during[q] \subseteq during'[q] /\ during'[q] \in SUBSET SUBSET Exception
      /\ Served(q) => Unresolved' \in during'[q]
  BY <1>1, <1>2 DEF Observe, Served, TypeOK
<1>4. Observed(q)' /\ Kept(q)'
  BY <1>1, <1>3 DEF PartOf, Observed, Served, Kept
<1>5. WasTrue(q)'
  BY <1>1, <1>3 DEF PartOf, WasTrue
<1>6. CanBeHeeded(q)' => CanBeHeeded(q)
  BY <1>3 DEF CanBeHeeded, Certain, asked
<1>7. Heeds(q)'
  BY <1>1, <1>6 DEF PartOf, Heeds, asked
<1> QED
  BY <1>3, <1>4, <1>5, <1>7 DEF PartOf

LEMMA ChangeStep ==
    ASSUME IInv, CommitRun \/ Edit
    PROVE  IInv'
<1>1. Observe /\ UNCHANGED <<pc, asked, context, response, rows>>
  BY DEF CommitRun, Edit
<1>2. status' \in [Exception -> Status]
  BY DEF CommitRun, Edit, IInv, TypeOK, Status
<1>3. TypeOK'
  BY <1>1, <1>2 DEF IInv, TypeOK, asked
<1>4. DOMAIN during' = Query /\ during' = [q \in Query |-> during'[q]]
  BY <1>1 DEF Observe
<1>5. \A q \in Query : during'[q] \in SUBSET SUBSET Exception /\ PartOf(q)'
  BY <1>1, <1>3, Observing
<1> QED
  BY <1>3, <1>4, <1>5 DEF IInv, DuringType

-----------------------------------------------------------------------------
(* Steps of one question *)

\* A step of one question leaves the exceptions and the other questions
\* alone: its own part remains to be shown.
LEMMA Bystander ==
    ASSUME IInv, TypeOK', DuringType', NEW q \in Query, UNCHANGED status,
           \A e \in Query \ {q} :
               /\ pc'[e] = pc[e] /\ question'[e] = question[e] /\ context'[e] = context[e]
               /\ response'[e] = response[e] /\ rows'[e] = rows[e] /\ during'[e] = during[e],
           PartOf(q)'
    PROVE  IInv'
<1>1. Unresolved' = Unresolved
  BY DEF Unresolved
<1>2. ASSUME NEW e \in Query \ {q} PROVE PartOf(e)'
  <2>1. PartOf(e)
    BY DEF IInv
  <2>2. Observed(e)' /\ Kept(e)'
    BY <1>1, <2>1 DEF PartOf, Observed, Served, Kept
  <2>3. WasTrue(e)' /\ Heeds(e)'
    BY <2>1 DEF PartOf, WasTrue, Heeds, CanBeHeeded, LinesOf
  <2> QED
    BY <2>2, <2>3 DEF PartOf
<1> QED
  BY <1>2 DEF IInv

\* A question that goes on with what it has.
LEMMA Passing ==
    ASSUME IInv, NEW q \in Query, NEW to \in {"persist", "answered", "crashed"},
           pc' = [pc EXCEPT ![q] = to],
           UNCHANGED <<status, asked, context, response, rows, during>>,
           Served(q),
           to = "persist" => pc[q] = "generate",
           to = "answered" => pc[q] = "return"
    PROVE  IInv'
<1>1. PartOf(q) /\ TypeOK /\ DuringType
  BY DEF IInv
<1>2. pc'[q] = to /\ \A e \in Query \ {q} : pc'[e] = pc[e]
  BY <1>1 DEF TypeOK
<1>3. pc' \in [Query -> {"idle", "retrieve", "structure", "generate", "persist",
                         "return", "answered", "crashed"}]
  BY <1>1 DEF TypeOK
<1>4. TypeOK' /\ DuringType'
  BY <1>1, <1>3 DEF TypeOK, DuringType, asked
<1>5. Observed(q)' /\ Kept(q)'
  BY <1>1, <1>2 DEF PartOf, Observed, Unresolved, Served, Kept
<1>6. WasTrue(q)' /\ Heeds(q)'
  BY <1>1, <1>2 DEF PartOf, WasTrue, Heeds, CanBeHeeded, LinesOf, asked
<1> QED
  BY <1>2, <1>4, <1>5, <1>6, Bystander DEF PartOf, asked

LEMMA AskStep ==
    ASSUME IInv, NEW q \in Query, Ask(q)
    PROVE  IInv'
<1>1. PartOf(q) /\ TypeOK /\ DuringType
  BY DEF IInv
<1>2. PICK text \in Question, provider \in BOOLEAN :
         /\ question' = [question EXCEPT ![q] = text]
         /\ asks' = [asks EXCEPT ![q] = provider]
  BY DEF Ask
<1>3. /\ pc[q] = "idle" /\ pc' = [pc EXCEPT ![q] = "retrieve"]
      /\ during' = [during EXCEPT ![q] = {Unresolved}]
      /\ UNCHANGED <<status, context, response, rows>>
  BY DEF Ask
<1>4. {Unresolved} \in SUBSET SUBSET Exception
  BY UnresolvedIsFinite
<1>5. TypeOK'
  BY <1>1, <1>2, <1>3 DEF TypeOK
<1>6. DuringType'
  BY <1>1, <1>3, <1>4 DEF DuringType
<1>7. pc'[q] = "retrieve" /\ during'[q] = {Unresolved}
  BY <1>1, <1>3 DEF TypeOK, DuringType
<1>8. Observed(q)'
  BY <1>3, <1>7 DEF Observed, Unresolved
<1>9. Kept(q)' /\ WasTrue(q)' /\ Heeds(q)'
  BY <1>1, <1>3, <1>7 DEF PartOf, Kept, WasTrue, Heeds
<1>10. \A e \in Query \ {q} :
          /\ pc'[e] = pc[e] /\ question'[e] = question[e] /\ during'[e] = during[e]
  BY <1>1, <1>2, <1>3 DEF TypeOK, DuringType
<1> QED
  BY <1>3, <1>5, <1>6, <1>8, <1>9, <1>10, Bystander DEF PartOf

LEMMA RetrieveStep ==
    ASSUME IInv, NEW q \in Query, Retrieve(q)
    PROVE  IInv'
<1>1. PartOf(q) /\ TypeOK /\ DuringType
  BY DEF IInv
<1>2. PICK top \in Newest : context' = [context EXCEPT ![q] = Fit(question[q], top)]
  BY DEF Retrieve
<1>3. /\ pc[q] = "retrieve" /\ pc' = [pc EXCEPT ![q] = "structure"]
      /\ UNCHANGED <<status, question, asks, response, rows, during>>
  BY DEF Retrieve, asked
<1>4. /\ Unresolved \in during[q] /\ Fit(question[q], top) \subseteq Unresolved
      /\ CanBeHeeded(q) =>
            Fit(question[q], top) # {} /\ Fit(question[q], top) \subseteq Terms[question[q]]
  BY <1>3, FitIsChosen DEF Served
<1>5. Unresolved \subseteq Exception
  BY UnresolvedIsFinite
<1>6. TypeOK' /\ DuringType'
  <2>1. context' \in [Query -> SUBSET Exception]
    BY <1>1, <1>2, <1>4, <1>5 DEF TypeOK
  <2>2. pc' \in [Query -> {"idle", "retrieve", "structure", "generate", "persist",
                           "return", "answered", "crashed"}]
    BY <1>1, <1>3 DEF TypeOK
  <2> QED
    BY <1>1, <1>3, <2>1, <2>2 DEF TypeOK, DuringType
<1>7. pc'[q] = "structure" /\ context'[q] = Fit(question[q], top)
  BY <1>1, <1>2, <1>3 DEF TypeOK
<1>8. Observed(q)' /\ Kept(q)'
  BY <1>1, <1>3, <1>7 DEF PartOf, Observed, Unresolved, Served, Kept
<1>9. WasTrue(q)' /\ Heeds(q)'
  BY <1>3, <1>4, <1>7 DEF WasTrue, Heeds, CanBeHeeded
<1>10. \A e \in Query \ {q} : pc'[e] = pc[e] /\ context'[e] = context[e]
  BY <1>1, <1>2, <1>3 DEF TypeOK
<1> QED
  BY <1>3, <1>6, <1>8, <1>9, <1>10, Bystander DEF PartOf

LEMMA AnswerStructuredStep ==
    ASSUME IInv, NEW q \in Query, AnswerStructured(q)
    PROVE  IInv'
<1>1. PartOf(q) /\ TypeOK /\ DuringType
  BY DEF IInv
<1>2. PICK top \in Newest :
         \/ top = {} /\ response' = [response EXCEPT ![q] = About({})]
         \/ \E record \in Fit(question[q], top) :
               response' = [response EXCEPT ![q] = About({LineOf[record]})]
  BY DEF AnswerStructured
<1>3. /\ pc[q] = "structure" /\ UNCHANGED <<status, question, asks, context, rows, during>>
      /\ pc' = [pc EXCEPT ![q] =
            IF asks[q] /\ context[q] # {} THEN "generate" ELSE "persist"]
  BY DEF AnswerStructured, asked
<1>4. Served(q) /\ Unresolved \in during[q] /\ (top = {} => Unresolved = {})
  BY <1>3, FitIsChosen DEF Served
<1>5. CanBeHeeded(q) => top # {} /\ Fit(question[q], top) \subseteq Terms[question[q]]
  BY <1>4, FitIsChosen DEF Fit
<1>6. Fit(question[q], top) \subseteq Unresolved /\ Unresolved \subseteq Exception
  BY <1>4, FitIsChosen, UnresolvedIsFinite
<1>7. PICK lines \in SUBSET LinesOf(Fit(question[q], top)) :
         /\ response' = [response EXCEPT ![q] = About(lines)]
         /\ lines = {} => top = {}
  <2>1. CASE top = {} /\ response' = [response EXCEPT ![q] = About({})]
    BY <2>1
  <2>2. ASSUME NEW record \in Fit(question[q], top),
               response' = [response EXCEPT ![q] = About({LineOf[record]})]
        PROVE  \E lines \in SUBSET LinesOf(Fit(question[q], top)) :
                  /\ response' = [response EXCEPT ![q] = About(lines)]
                  /\ lines = {} => top = {}
    <3>1. {LineOf[record]} \in SUBSET LinesOf(Fit(question[q], top))
      BY DEF LinesOf
    <3> QED
      BY <2>2, <3>1
  <2> QED
    BY <1>2, <2>1, <2>2
<1>8. About(lines) \in Answer /\ About(lines).cited = lines
  <2>1. lines \subseteq Line
    BY <1>6 DEF LinesOf, Line
  <2>2. lines \X {"adjoined"} \subseteq Mention
    BY <2>1 DEF Mention
  <2> QED
    BY <2>1, <2>2 DEF About, Answer
<1>9. /\ pc'[q] \in {"generate", "persist"} /\ response'[q] = About(lines)
      /\ \A e \in Query \ {q} : pc'[e] = pc[e] /\ response'[e] = response[e]
  BY <1>1, <1>3, <1>7 DEF TypeOK
<1>10. TypeOK' /\ DuringType'
  <2>1. response' \in [Query -> Answer]
    BY <1>1, <1>7, <1>8 DEF TypeOK
  <2>2. pc' \in [Query -> {"idle", "retrieve", "structure", "generate", "persist",
                           "return", "answered", "crashed"}]
    BY <1>1, <1>3 DEF TypeOK
  <2> QED
    BY <1>1, <1>3, <2>1, <2>2 DEF TypeOK, DuringType
<1>11. Observed(q)' /\ Kept(q)'
  BY <1>1, <1>3, <1>9 DEF PartOf, Observed, Unresolved, Served, Kept
<1>12. WasTrue(q)'
  <2>1. lines \subseteq LinesOf(Unresolved) /\ (lines = {} => Unresolved = {})
    BY <1>4, <1>6, <1>7 DEF LinesOf
  <2>2. \E open \in during[q] : context[q] \subseteq open
    BY <1>1, <1>3 DEF PartOf, WasTrue
  <2> QED
    BY <1>3, <1>4, <1>8, <1>9, <2>1, <2>2 DEF WasTrue
<1>13. Heeds(q)'
  <2>1. CanBeHeeded(q)' => CanBeHeeded(q)
    BY <1>3 DEF CanBeHeeded
  <2>2. CanBeHeeded(q) => lines # {} /\ lines \subseteq LinesOf(Terms[question[q]])
    BY <1>5, <1>7 DEF LinesOf
  <2>3. CanBeHeeded(q) => context[q] # {} /\ context[q] \subseteq Terms[question[q]]
    BY <1>1, <1>3 DEF PartOf, Heeds
  <2> QED
    BY <1>3, <1>8, <1>9, <2>1, <2>2, <2>3 DEF Heeds, LinesOf
<1> QED
  BY <1>3, <1>9, <1>10, <1>11, <1>12, <1>13, Bystander DEF PartOf

\* What is cited is of the context, which was retrieved.
LEMMA GenerateStep ==
    ASSUME IInv, NEW q \in Query, Generate(q)
    PROVE  IInv'
<1>1. PartOf(q) /\ TypeOK /\ DuringType
  BY DEF IInv
<1>2. PICK mentions \in SUBSET Mention :
         response' = [response EXCEPT ![q] =
            IF Strays(q, mentions) # {} \/ Cited(q, mentions) = {} THEN @
            ELSE [mode |-> "gemini", mentions |-> mentions, cited |-> Cited(q, mentions)]]
  BY DEF Generate
<1>3. /\ pc[q] = "generate" /\ pc' = [pc EXCEPT ![q] = "persist"]
      /\ UNCHANGED <<status, question, asks, context, rows, during>>
  BY DEF Generate, asked
<1>4. /\ response[q] \in Answer
      /\ pc'[q] = "persist" /\ \A e \in Query \ {q} : pc'[e] = pc[e]
      /\ \A e \in Query \ {q} : response'[e] = response[e]
  BY <1>1, <1>2, <1>3 DEF TypeOK
<1>5. \/ response'[q] = response[q]
      \/ /\ response'[q] = [mode |-> "gemini", mentions |-> mentions,
                            cited |-> Cited(q, mentions)]
         /\ Cited(q, mentions) # {}
  BY <1>1, <1>2 DEF TypeOK
<1>6. Cited(q, mentions) \subseteq LinesOf(context[q])
  BY DEF Cited, AllowedIds, LinesOf
<1>7. response'[q] \in Answer
  <2>1. Cited(q, mentions) \subseteq Line
    BY <1>1, <1>6 DEF TypeOK, LinesOf, Line
  <2> QED
    BY <1>4, <1>5, <2>1 DEF Answer
<1>8. TypeOK' /\ DuringType'
  <2>1. response' \in [Query -> Answer]
    BY <1>1, <1>2, <1>4, <1>7 DEF TypeOK
  <2>2. pc' \in [Query -> {"idle", "retrieve", "structure", "generate", "persist",
                           "return", "answered", "crashed"}]
    BY <1>1, <1>3 DEF TypeOK
  <2> QED
    BY <1>1, <1>3, <2>1, <2>2 DEF TypeOK, DuringType
<1>9. Observed(q)' /\ Kept(q)'
  BY <1>1, <1>3, <1>4 DEF PartOf, Observed, Unresolved, Served, Kept
<1>10. WasTrue(q)'
  <2>1. PICK open \in during[q] : context[q] \subseteq open
    BY <1>1, <1>3 DEF PartOf, WasTrue
  <2>2. Cited(q, mentions) \subseteq LinesOf(open)
    BY <1>6, <2>1 DEF LinesOf
  <2>3. \E moment \in during[q] :
           /\ response[q].cited \subseteq LinesOf(moment)
           /\ response[q].cited = {} => moment = {}
    BY <1>1, <1>3 DEF PartOf, WasTrue
  <2>4. \E moment \in during[q] :
           /\ response'[q].cited \subseteq LinesOf(moment)
           /\ response'[q].cited = {} => moment = {}
    BY <1>5, <2>2, <2>3
  <2> QED
    BY <1>3, <1>4, <2>4 DEF WasTrue
<1>11. Heeds(q)'
  <2>1. CanBeHeeded(q)' => CanBeHeeded(q)
    BY <1>3 DEF CanBeHeeded
  <2>2. ASSUME CanBeHeeded(q)
        PROVE  response'[q].cited # {} /\ response'[q].cited \subseteq LinesOf(Terms[question[q]])
    <3>1. /\ context[q] \subseteq Terms[question[q]] /\ response[q].cited # {}
          /\ response[q].cited \subseteq LinesOf(Terms[question[q]])
      BY <1>1, <1>3, <2>2 DEF PartOf, Heeds
    <3>2. LinesOf(context[q]) \subseteq LinesOf(Terms[question[q]])
      BY <3>1 DEF LinesOf
    <3> QED
      BY <1>5, <1>6, <3>1, <3>2
  <2> QED
    BY <1>3, <1>4, <2>1, <2>2 DEF Heeds, LinesOf
<1> QED
  BY <1>3, <1>4, <1>8, <1>9, <1>10, <1>11, Bystander DEF PartOf

LEMMA PersistStep ==
    ASSUME IInv, NEW q \in Query, Persist(q)
    PROVE  IInv'
<1>1. PartOf(q) /\ TypeOK /\ DuringType
  BY DEF IInv
<1>2. /\ pc[q] = "persist" /\ pc' = [pc EXCEPT ![q] = "return"]
      /\ rows' = [rows EXCEPT ![q] = Append(rows[q], response[q])]
      /\ UNCHANGED <<status, question, asks, context, response, during>>
  BY DEF Persist, asked
<1>3. rows[q] = <<>> /\ response[q] \in Answer
  BY <1>1, <1>2 DEF PartOf, Kept, TypeOK
<1>4. Append(rows[q], response[q]) = <<response[q]>> /\ <<response[q]>> \in Seq(Answer)
  BY <1>3
<1>5. /\ pc'[q] = "return" /\ rows'[q] = <<response[q]>>
      /\ \A e \in Query \ {q} : pc'[e] = pc[e] /\ rows'[e] = rows[e]
  BY <1>1, <1>2, <1>4 DEF TypeOK
<1>6. TypeOK' /\ DuringType'
  <2>1. rows' \in [Query -> Seq(Answer)]
    BY <1>1, <1>2, <1>4 DEF TypeOK
  <2>2. pc' \in [Query -> {"idle", "retrieve", "structure", "generate", "persist",
                           "return", "answered", "crashed"}]
    BY <1>1, <1>2 DEF TypeOK
  <2> QED
    BY <1>1, <1>2, <2>1, <2>2 DEF TypeOK, DuringType
<1>7. Observed(q)' /\ Kept(q)'
  BY <1>1, <1>2, <1>5 DEF PartOf, Observed, Unresolved, Served, Kept
<1>8. WasTrue(q)' /\ Heeds(q)'
  BY <1>1, <1>2, <1>5 DEF PartOf, WasTrue, Heeds, CanBeHeeded, LinesOf
<1> QED
  BY <1>2, <1>5, <1>6, <1>7, <1>8, Bystander DEF PartOf

LEMMA StepInv == IInv /\ [Next]_vars => IInv'
<1> SUFFICES ASSUME IInv, [Next]_vars PROVE IInv'
  OBVIOUS
<1>1. CASE UNCHANGED vars
  <2>1. TypeOK' /\ DuringType'
    BY <1>1 DEF vars, asked, IInv, TypeOK, DuringType
  <2>2. ASSUME NEW q \in Query PROVE PartOf(q)'
    <3>1. Observed(q)' /\ Kept(q)'
      BY <1>1 DEF vars, asked, IInv, PartOf, Observed, Served, Unresolved, Kept
    <3>2. WasTrue(q)' /\ Heeds(q)'
      BY <1>1 DEF vars, asked, IInv, PartOf, WasTrue, Heeds, CanBeHeeded, LinesOf
    <3> QED
      BY <3>1, <3>2 DEF PartOf
  <2> QED
    BY <2>1, <2>2 DEF IInv
<1>2. CASE CommitRun \/ Edit
  BY <1>2, ChangeStep
<1>3. ASSUME NEW q \in Query, Ask(q) \/ Serve(q) \/ Crash(q)
      PROVE  IInv'
  <2>1. CASE Ask(q)
    BY <2>1, AskStep
  <2>2. CASE Retrieve(q)
    BY <2>2, RetrieveStep
  <2>3. CASE AnswerStructured(q)
    BY <2>3, AnswerStructuredStep
  <2>4. CASE Generate(q)
    BY <2>4, GenerateStep
  <2>5. CASE Persist(q)
    BY <2>5, PersistStep
  <2>6. CASE ProviderFails(q)
    BY <2>6, Passing DEF ProviderFails, Served
  <2>7. CASE Return(q)
    BY <2>7, Passing DEF Return, Served
  <2>8. CASE Crash(q)
    <3>1. Served(q)
      BY <2>8 DEF Crash, Served, IInv, TypeOK
    <3> QED
      BY <2>8, <3>1, Passing DEF Crash
  <2> QED
    BY <1>3, <2>1, <2>2, <2>3, <2>4, <2>5, <2>6, <2>7, <2>8 DEF Serve
<1> QED
  BY <1>1, <1>2, <1>3 DEF Next

-----------------------------------------------------------------------------
(* Theorems *)

\* The inductive invariant of the copilot.
THEOREM Invariance == Spec => []IInv
  BY InitInv, StepInv, PTL DEF Spec

\* The tables and the requests hold what they should, for any number of
\* questions, exceptions and terms.
THEOREM TypeCorrect == Spec => []TypeOK
<1>1. IInv => TypeOK
  BY DEF IInv
<1> QED
  BY <1>1, Invariance, PTL

\* What is answered was so at one moment while it was asked for, whatever
\* runs and users did between the two retrievals.
THEOREM AnswersTrue == Spec => []AnswersWereTrue
<1>1. IInv => AnswersWereTrue
  BY DEF IInv, PartOf, WasTrue, AnswersWereTrue
<1> QED
  BY <1>1, Invariance, PTL

\* The terms of a question that can be heeded are heeded, for any limit and
\* however many exceptions are open.
THEOREM TermsHeeded == Spec => []TermsAreHeeded
<1>1. IInv => TermsAreHeeded
  BY DEF IInv, PartOf, Heeds, CanBeHeeded, TermsAreHeeded, LinesOf
<1> QED
  BY <1>1, Invariance, PTL

\* An answer that was returned is kept once and as it was.
THEOREM AnswersKept == Spec => []EveryAnswerIsKept
<1>1. IInv => EveryAnswerIsKept
  <2> SUFFICES ASSUME IInv, NEW q \in Query
               PROVE  /\ pc[q] = "answered" => rows[q] = <<response[q]>>
                      /\ rows[q] # <<>> => /\ rows[q] = <<response[q]>>
                                          /\ pc[q] \in {"return", "answered", "crashed"}
    BY DEF EveryAnswerIsKept
  <2> QED
    BY DEF IInv, PartOf, Kept, TypeOK
<1> QED
  BY <1>1, Invariance, PTL

=============================================================================
