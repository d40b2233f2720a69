------------------------------ MODULE Copilot ------------------------------
(***************************************************************************)
(* Questions to the copilot (api/copilot.py, POST /copilot/query), while   *)
(* runs raise exceptions and users edit them.  One answer takes two        *)
(* retrievals, one for the provider's context and one for the structured   *)
(* answer it falls back to; a provider's answer is returned only if it     *)
(* passes the citation rule.  Each statement sees what is committed.       *)
(*                                                                         *)
(* Reason texts and lines of exceptions never change (module Mutations),   *)
(* and the line of an exception is stored: it is a foreign key, so that    *)
(* the row that "could not be verified" (copilot.py:62) does not occur.    *)
(***************************************************************************)
EXTENDS Naturals, Sequences, FiniteSets

CONSTANTS
    Query,       \* the questions that are ever asked
    Exception,
    LineOf,      \* line_id of each exception
    OpenedAt,    \* opened_at: one time for all exceptions of a run
    Question,
    Biggest,     \* the questions with "biggest" or "largest", or no text
    Terms,       \* the exceptions whose reason has a term of the question
    AmountOf,    \* the amount of each line, which no step reads
    Limit        \* 20

ASSUME CopilotConstants ==
    /\ OpenedAt \in [Exception -> Nat]
    /\ Biggest \subseteq Question
    /\ Terms \in [Question -> SUBSET Exception]
    /\ Limit \in Nat \ {0}
    /\ IsFiniteSet(Exception) /\ Question # {}

Line == {LineOf[e] : e \in Exception}

VARIABLES
    status,      \* committed exceptions: "absent" until their run commits
    pc, question,
    asks,        \* the provider is to be asked: mode gemini, and a key
    context,     \* the exceptions of the first retrieval
    response,    \* the answer of answer_structured, then the provider's
    rows,        \* committed copilot_queries of each request, in order
    during       \* history: each set of exceptions that were unresolved
                 \* together at some moment while the query was served

asked == <<question, asks>>
vars == <<status, pc, asked, context, response, rows, during>>

\* "open" is any status but resolved: new, investigating or written_off.
Status == {"absent", "open", "resolved"}

Unresolved == {e \in Exception : status[e] = "open"}

\* An answer: its mode, the lines it refers to, with the way each is written,
\* and the lines it cites.  A "token" stands between spaces; punctuation
\* adjoins a mention that is "adjoined".
Mention == Line \X {"token", "adjoined"}

NoAnswer == [mode |-> "none", mentions |-> {}, cited |-> {}]

Answer == [mode : {"none", "structured", "gemini"},
           mentions : SUBSET Mention, cited : SUBSET Line]

Init ==
    /\ status = [e \in Exception |-> "absent"]
    /\ pc = [q \in Query |-> "idle"]
    /\ question = [q \in Query |-> CHOOSE any \in Question : TRUE]
    /\ asks = [q \in Query |-> FALSE]
    /\ context = [q \in Query |-> {}]
    /\ response = [q \in Query |-> NoAnswer]
    /\ rows = [q \in Query |-> <<>>]
    /\ during = [q \in Query |-> {}]

-----------------------------------------------------------------------------
(* Runs and edits *)

Observe ==
    during' = [q \in Query |->
        IF pc[q] \in {"idle", "answered", "crashed"} THEN during[q]
        ELSE during[q] \cup {Unresolved'}]

\* A run commits with all its exceptions.
CommitRun ==
    /\ \E e \in Exception :
          /\ status[e] = "absent"
          /\ status' = [f \in Exception |->
                IF OpenedAt[f] = OpenedAt[e] THEN "open" ELSE status[f]]
    /\ Observe
    /\ UNCHANGED <<pc, asked, context, response, rows>>

\* update_exception, to any status: a resolved exception can be reopened.
Edit ==
    /\ \E e \in Exception, to \in Status \ {"absent"} :
          /\ status[e] \notin {"absent", to}
          /\ status' = [status EXCEPT ![e] = to]
    /\ Observe
    /\ UNCHANGED <<pc, asked, context, response, rows>>

-----------------------------------------------------------------------------
(* POST /copilot/query *)

Ask(q) ==
    /\ pc[q] = "idle"
    /\ \E text \in Question : question' = [question EXCEPT ![q] = text]
    /\ \E provider \in BOOLEAN : asks' = [asks EXCEPT ![q] = provider]
    /\ during' = [during EXCEPT ![q] = {Unresolved}]
    /\ pc' = [pc EXCEPT ![q] = "retrieve"]
    /\ UNCHANGED <<status, context, response, rows>>

\* The newest unresolved exceptions, at most Limit; those of one time come in
\* any order.
Newest ==
    {top \in SUBSET Unresolved :
        /\ Cardinality(top) =
              IF Cardinality(Unresolved) < Limit THEN Cardinality(Unresolved) ELSE Limit
        /\ \A e \in top, f \in Unresolved \ top : OpenedAt[e] >= OpenedAt[f]}

\* Fault: one exception that does not fit brings back everything.
FitAllOrNothing(text, top) ==
    IF text \in Biggest \/ ~(top \subseteq Terms[text]) THEN top ELSE top \cap Terms[text]

\* What fits the terms, or everything if nothing does; a question for the
\* biggest has no terms.
Fit(text, top) ==
    IF text \in Biggest \/ top \cap Terms[text] = {} THEN top ELSE top \cap Terms[text]

Retrieve(q) ==
    /\ pc[q] = "retrieve"
    /\ \E top \in Newest :
          context' = [context EXCEPT ![q] = Fit(question[q], top)]
    /\ pc' = [pc EXCEPT ![q] = "structure"]
    /\ UNCHANGED <<status, asked, response, rows, during>>

\* The answer about one exception, and about none.
About(lines) ==
    [mode |-> "structured", mentions |-> lines \X {"adjoined"}, cited |-> lines]

\* answer_structured retrieves again, and tells of the newest.  The provider
\* is only asked with a context.
AnswerStructured(q) ==
    /\ pc[q] = "structure"
    /\ \E top \in Newest :
          \/ top = {} /\ response' = [response EXCEPT ![q] = About({})]
          \/ \E record \in Fit(question[q], top) :
                /\ \A e \in Fit(question[q], top) : OpenedAt[record] >= OpenedAt[e]
                /\ response' = [response EXCEPT ![q] = About({LineOf[record]})]
    /\ pc' = [pc EXCEPT ![q] =
          IF asks[q] /\ context[q] # {} THEN "generate" ELSE "persist"]
    /\ UNCHANGED <<status, asked, context, rows, during>>

\* The ids of the context, each shown to the provider in brackets.
AllowedIds(q) == {LineOf[e] : e \in context[q]}

Cited(q, mentions) == {line \in AllowedIds(q) : \E m \in mentions : m[1] = line}

\* The tokens that begin and end with a bracket and are no allowed id.
Strays(q, mentions) ==
    {m \in mentions : m[2] = "token" /\ m[1] \notin AllowedIds(q)}

\* Fault: the citation of the structured answer is kept beside the
\* provider's.
GenerateMixed(q) ==
    /\ pc[q] = "generate"
    /\ \E mentions \in SUBSET Mention :
          response' = [response EXCEPT ![q] =
             IF Strays(q, mentions) # {} \/ Cited(q, mentions) = {} THEN @
             ELSE [mode |-> "gemini", mentions |-> mentions,
                   cited |-> @.cited \cup Cited(q, mentions)]]
    /\ pc' = [pc EXCEPT ![q] = "persist"]
    /\ UNCHANGED <<status, asked, context, rows, during>>

\* The provider answers with any mentions; an answer with strays, or without
\* citations, gives way to the structured one.
Generate(q) ==
    /\ pc[q] = "generate"
    /\ \E mentions \in SUBSET Mention :
          response' = [response EXCEPT ![q] =
             IF Strays(q, mentions) # {} \/ Cited(q, mentions) = {} THEN @
             ELSE [mode |-> "gemini", mentions |-> mentions,
                   cited |-> Cited(q, mentions)]]
    /\ pc' = [pc EXCEPT ![q] = "persist"]
    /\ UNCHANGED <<status, asked, context, rows, during>>

\* No answer within its time, or one that is not of the expected form.
ProviderFails(q) ==
    /\ pc[q] = "generate"
    /\ pc' = [pc EXCEPT ![q] = "persist"]
    /\ UNCHANGED <<status, asked, context, response, rows, during>>

\* Fault: answer_structured is given the user, and keeps an answer too.
PersistTwice(q) ==
    /\ pc[q] = "persist"
    /\ rows' = [rows EXCEPT ![q] = Append(Append(@, response[q]), response[q])]
    /\ pc' = [pc EXCEPT ![q] = "return"]
    /\ UNCHANGED <<status, asked, context, response, during>>

Persist(q) ==
    /\ pc[q] = "persist"
    /\ rows' = [rows EXCEPT ![q] = Append(@, response[q])]
    /\ pc' = [pc EXCEPT ![q] = "return"]
    /\ UNCHANGED <<status, asked, context, response, during>>

Return(q) ==
    /\ pc[q] = "return"
    /\ pc' = [pc EXCEPT ![q] = "answered"]
    /\ UNCHANGED <<status, asked, context, response, rows, during>>

\* The process dies, or its connection: what is not committed is rolled back.
Crash(q) ==
    /\ pc[q] \notin {"idle", "answered", "crashed"}
    /\ pc' = [pc EXCEPT ![q] = "crashed"]
    /\ UNCHANGED <<status, asked, context, response, rows, during>>

Serve(q) ==
    \/ Retrieve(q) \/ AnswerStructured(q) \/ Generate(q) \/ ProviderFails(q)
    \/ Persist(q) \/ Return(q)

Next ==
    \/ CommitRun \/ Edit
    \/ \E q \in Query : Ask(q) \/ Serve(q) \/ Crash(q)

Spec == Init /\ [][Next]_vars

-----------------------------------------------------------------------------
(* Properties *)

\* The variables hold what the tables and the requests hold.
TypeOK ==
    /\ status \in [Exception -> Status]
    /\ pc \in [Query -> {"idle", "retrieve", "structure", "generate", "persist",
                         "return", "answered", "crashed"}]
    /\ question \in [Query -> Question] /\ asks \in [Query -> BOOLEAN]
    /\ context \in [Query -> SUBSET Exception]
    /\ response \in [Query -> Answer]
    /\ rows \in [Query -> Seq(Answer)]

LinesOf(exceptions) == {LineOf[e] : e \in exceptions}

\* An answer may be out of date when it arrives, and its two retrievals may
\* disagree, but it is not made of both: there was one moment, while it was
\* asked for, at which every line it cites had an unresolved exception, or,
\* if it says that there are none, at which there were none.
AnswersWereTrue ==
    \A q \in Query : pc[q] = "answered" =>
        \E open \in during[q] :
            /\ response[q].cited \subseteq LinesOf(open)
            /\ response[q].cited = {} => open = {}

\* What any retrieval takes of the open exceptions: those that at most Limit
\* are no older than.
Certain(open) ==
    {e \in open : Cardinality({f \in open : OpenedAt[f] >= OpenedAt[e]}) <= Limit}

\* If at each moment of its request some exception that fits the question is
\* among those any retrieval takes, however many others are open, only
\* exceptions that fit are cited, by either way of answering.
TermsAreHeeded ==
    \A q \in Query :
        (/\ pc[q] = "answered" /\ question[q] \notin Biggest
         /\ \A open \in during[q] : Certain(open) \cap Terms[question[q]] # {})
            => /\ response[q].cited # {}
               /\ response[q].cited \subseteq LinesOf(Terms[question[q]])

\* The open exceptions that a question asks for: one of the largest amount,
\* or those its terms fit.
Wanted(text, open) ==
    IF text \in Biggest
    THEN {e \in open : \A f \in open : AmountOf[LineOf[f]] <= AmountOf[LineOf[e]]}
    ELSE open \cap Terms[text]

\* "api: parse for record IDs / intent -> build SQL retrieval" of "any linked
\* exceptions" (architecture.md:157-158), "A question about a known exception
\* returns an answer whose citation deep-links correctly" (testing.md:32),
\* "The largest open exception is [BK-9005] at $14,052.68" (api_spec.md:107):
\* a question that asks for an exception all the time is answered with one
\* that it asked for at some moment, whatever others are open.
AskedIsFound ==
    \A q \in Query :
        (/\ pc[q] = "answered"
         /\ \E e \in Exception : \A open \in during[q] : e \in Wanted(question[q], open))
            => \E open \in during[q] :
                  response[q].cited \cap LinesOf(Wanted(question[q], open)) # {}

\* "INSERT copilot_queries (for audit)" (architecture.md:162): an answer that
\* was returned is kept once, as it was returned, whichever of the five ways
\* through answer_with_provider it took, and only a request that died can
\* leave one that nobody got.
EveryAnswerIsKept ==
    \A q \in Query :
        /\ pc[q] = "answered" => rows[q] = <<response[q]>>
        /\ rows[q] # <<>> =>
              /\ rows[q] = <<response[q]>>
              /\ pc[q] \in {"return", "answered", "crashed"}

\* "the ID must be verified to exist in the retrieved context before the
\* answer is returned" (project.spec.md FR-15): an answer of the provider
\* mentions no line outside of its context.
MentionsAreVerified ==
    \A q \in Query :
        response[q].mode = "gemini" =>
            {m[1] : m \in response[q].mentions} \subseteq AllowedIds(q)

=============================================================================
