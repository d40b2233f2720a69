----------------------------- MODULE RunService -----------------------------
(***************************************************************************)
(* run_reconciliation (api/reconciliation/service.py) under its callers:   *)
(* POST /runs (api/main.py create_run, with explicit ids or none), the     *)
(* Celery tasks reconcile.run and reconcile.all (api/tasks.py).  Callers   *)
(* run concurrently against one PostgreSQL database at READ COMMITTED.     *)
(*                                                                         *)
(* A call's uncommitted rows are private (`pending'); committing           *)
(* publishes them in `runs', and closing the session without a commit      *)
(* drops them.  The primary key of reconciliation_runs makes an INSERT     *)
(* wait for another open transaction that inserted the same key, and fail  *)
(* once that key is committed.  Ledger lines are only ever added, and      *)
(* never change (module Ingestion).                                        *)
(***************************************************************************)
EXTENDS Engine

CONSTANTS
    Call,          \* the requests and tasks that are ever served
    Ledger,        \* the record each line holds once it is stored
    BookLine,      \* the lines whose source is "bank" or "gl"
    GatewayLine,   \* the lines whose source is "razorpay"; there are other
                   \* sources too, of invoices and settlements among others
    Request,       \* <<left_ids, right_ids>> that callers pass explicitly
    NoRows         \* a session that has written nothing

ASSUME LedgerIsOfLines ==
    /\ DOMAIN Ledger = Line
    /\ \A line \in Line : Ledger[line] \in CanonicalLedgerRecord /\ Ledger[line].id = line
    /\ BookLine \subseteq Line /\ GatewayLine \subseteq Line
    /\ BookLine \cap GatewayLine = {}

ASSUME LedgerIsFinite == IsFiniteSet(Line)

ASSUME RequestsAreIdLists == Request \subseteq Seq(Line) \X Seq(Line)

VARIABLES
    stored,     \* committed ledger_lines
    runs,       \* committed reconciliation_runs, each with its result rows
    pc,         \* where each call is
    via,        \* how it got here
    ids,        \* its <<left_ids, right_ids>>
    session,    \* its session: no transaction yet, one begun by an earlier
                \* read, or one that _transaction_scope owns
    pending,    \* the rows its open transaction has written
    answer,     \* what it returned
    onRecord    \* history: the lines stored when the call began

vars == <<stored, runs, pc, via, ids, session, pending, answer, onRecord>>
dbVars == <<stored, runs>>

Via == {"api", "api-all", "task", "all"}

\* Fault: the run id is of the left ids only.
KeyOfLeft(request) == [left |-> ToSet(request[1]), right |-> {}]

\* run_id is a uuid5 of the two SETS of ids: order and repetition are lost.
RunKey == [left : SUBSET Line, right : SUBSET Line]

KeyOf(request) == [left |-> ToSet(request[1]), right |-> ToSet(request[2])]

Key(c) == KeyOf(ids[c])

RecordsOf(lines) == [p \in DOMAIN lines |-> Ledger[lines[p]]]

\* The id lists a call can come to hold: those it was given, or the rows of
\* a SELECT in whatever order the database returned them.
Selected(lines) == {<<>>} \cup UNION {SetToSeqs(S) : S \in SUBSET lines}

AskedFor == Request \cup (Selected(BookLine) \X Selected(GatewayLine))

\* What the engine answers, in the order of the lists.
Answers ==
    [request \in AskedFor |->
        Reconcile(RecordsOf(request[1]), RecordsOf(request[2]))]

\* The same function: comparing it once makes TLC keep its values.
ResultOf == CHOOSE result \in {Answers} : result = Answers

\* The run inserted for a request, and the finished run with all its rows.
\* `made' is history: the id lists of the call that computed the run.
RunningRow(request) ==
    [run |-> KeyOf(request), status |-> "running",
     matches |-> <<>>, exceptions |-> <<>>, made |-> request]

DoneRow(request) ==
    [run |-> KeyOf(request), status |-> "done",
     matches |-> ResultOf[request].matches,
     exceptions |-> ResultOf[request].exceptions, made |-> request]

ASSUME NoRowsIsNoRow ==
    \A request \in AskedFor : NoRows \notin {RunningRow(request), DoneRow(request)}

NoAnswer == [outcome |-> "none"]
Failure == [outcome |-> "error"]

Summary(key, lefts, result) ==
    [outcome |-> "ok", run |-> key, lefts |-> lefts,
     matched |-> Len(result.matches), excepted |-> Len(result.exceptions)]

\* _settlement_lag averages the days between matched records into a
\* Numeric(5,2): an average that rounds to 1000 days or more does not fit.
LagTooLong(request) ==
    LET made == ResultOf[request].matches
        lag(m) == DateDistance(Ledger[m.left].day, Ledger[m.right].day)
        total == FoldLeft(LAMBDA sum, m : sum + lag(m), 0, made)
    IN  made # <<>> /\ total * 200 >= 199999 * Len(made)

Init ==
    /\ stored \in SUBSET Line
    /\ runs = [key \in {} |-> NoRows]
    /\ pc = [c \in Call |-> "idle"]
    /\ via = [c \in Call |-> "api"]
    /\ ids = [c \in Call |-> <<<<>>, <<>>>>]
    /\ session = [c \in Call |-> "fresh"]
    /\ pending = [c \in Call |-> NoRows]
    /\ answer = [c \in Call |-> NoAnswer]
    /\ onRecord = [c \in Call |-> {}]

-----------------------------------------------------------------------------
(* Callers *)

\* An ingestion commits a line (module Ingestion has the details).
IngestLine ==
    /\ \E line \in Line \ stored : stored' = stored \cup {line}
    /\ UNCHANGED <<runs, pc, via, ids, session, pending, answer, onRecord>>

\* Explicit ids.  The route has read the user in the same session, which
\* begins its transaction; reconcile_task's session is new.  A POST /runs
\* with two empty lists is a call for everything.
CallExplicit(c) ==
    /\ pc[c] = "idle"
    /\ \E request \in Request, how \in {"api", "task"} :
          /\ how = "api" => request # <<<<>>, <<>>>>
          /\ via' = [via EXCEPT ![c] = how]
          /\ ids' = [ids EXCEPT ![c] = request]
          /\ session' = [session EXCEPT ![c] =
                IF how = "api" THEN "autobegun" ELSE "fresh"]
    /\ pc' = [pc EXCEPT ![c] = "get-run"]
    /\ UNCHANGED <<dbVars, pending, answer, onRecord>>

CallAll(c) ==
    /\ pc[c] = "idle"
    /\ \E how \in {"api-all", "all"} :
          /\ via' = [via EXCEPT ![c] = how]
          /\ session' = [session EXCEPT ![c] =
                IF how = "api-all" THEN "autobegun" ELSE "fresh"]
    /\ pc' = [pc EXCEPT ![c] = "select-left"]
    /\ onRecord' = [onRecord EXCEPT ![c] = stored]
    /\ UNCHANGED <<dbVars, ids, pending, answer>>

\* The two SELECTs see what is committed when each runs, in any order of
\* rows; the first statement of a session begins its transaction.  A line
\* whose source is none of the three is selected by neither.
SelectLeft(c) ==
    /\ pc[c] = "select-left"
    /\ \E lines \in SetToSeqs(stored \cap BookLine) :
          ids' = [ids EXCEPT ![c] = <<lines, <<>>>>]
    /\ session' = [session EXCEPT ![c] = "autobegun"]
    /\ pc' = [pc EXCEPT ![c] = "select-right"]
    /\ UNCHANGED <<dbVars, via, pending, answer, onRecord>>

SelectRight(c) ==
    /\ pc[c] = "select-right"
    /\ \E lines \in SetToSeqs(stored \cap GatewayLine) :
          ids' = [ids EXCEPT ![c] = <<@[1], lines>>]
    /\ pc' = [pc EXCEPT ![c] = "get-run"]
    /\ UNCHANGED <<dbVars, via, session, pending, answer, onRecord>>

-----------------------------------------------------------------------------
(* run_reconciliation *)

\* Fault: a finished run is computed again.
GetRunAgain(c) ==
    /\ pc[c] = "get-run"
    /\ session' = [session EXCEPT ![c] = IF @ = "fresh" THEN "owned" ELSE @]
    /\ pc' = [pc EXCEPT ![c] =
          IF Key(c) \in DOMAIN runs THEN "reconcile" ELSE "insert-run"]
    /\ UNCHANGED <<dbVars, via, ids, pending, answer, onRecord>>

\* Entering the scope, and session.get: a run that is done answers the call
\* from its stored rows.
GetRun(c) ==
    /\ pc[c] = "get-run"
    /\ session' = [session EXCEPT ![c] = IF @ = "fresh" THEN "owned" ELSE @]
    /\ LET done == Key(c) \in DOMAIN runs /\ runs[Key(c)].status = "done"
       IN  /\ pc' = [pc EXCEPT ![c] = IF done THEN "leave-scope"
                        ELSE IF Key(c) \in DOMAIN runs THEN "reconcile"
                        ELSE "insert-run"]
           /\ answer' = [answer EXCEPT ![c] =
                 IF done THEN Summary(Key(c), Len(ids[c][1]), runs[Key(c)]) ELSE @]
    /\ UNCHANGED <<dbVars, via, ids, pending, onRecord>>

\* Some other open transaction has inserted this primary key.
KeyIsHeld(c) ==
    \E d \in Call \ {c} : pending[d] # NoRows /\ pending[d].run = Key(c)

\* Fault: the "running" row is committed before the engine runs.
InsertRunCommitted(c) ==
    /\ pc[c] = "insert-run"
    /\ Key(c) \notin DOMAIN runs
    /\ pending' = [pending EXCEPT ![c] = RunningRow(ids[c])]
    /\ runs' = (Key(c) :> RunningRow(ids[c])) @@ runs
    /\ pc' = [pc EXCEPT ![c] = "reconcile"]
    /\ UNCHANGED <<stored, via, ids, session, answer, onRecord>>

\* Fault: the key is not unique, and a run can be stored twice.
InsertRunAgain(c) ==
    /\ pc[c] = "insert-run"
    /\ pending' = [pending EXCEPT ![c] = RunningRow(ids[c])]
    /\ pc' = [pc EXCEPT ![c] = "reconcile"]
    /\ UNCHANGED <<dbVars, via, ids, session, answer, onRecord>>

\* The flushed INSERT of the run: it waits while the key is held.
InsertRun(c) ==
    /\ pc[c] = "insert-run"
    /\ ~KeyIsHeld(c)
    /\ Key(c) \notin DOMAIN runs
    /\ pending' = [pending EXCEPT ![c] = RunningRow(ids[c])]
    /\ pc' = [pc EXCEPT ![c] = "reconcile"]
    /\ UNCHANGED <<dbVars, via, ids, session, answer, onRecord>>

\* An exception leaves the session: it rolls back, and the call fails.
Fail(c) ==
    /\ pc' = [pc EXCEPT ![c] = "ended"]
    /\ answer' = [answer EXCEPT ![c] = Failure]
    /\ pending' = [pending EXCEPT ![c] = NoRows]
    /\ session' = [session EXCEPT ![c] = "fresh"]
    /\ UNCHANGED <<dbVars, via, ids, onRecord>>

\* Fault: a call that meets a committed key keeps waiting for it to go.
InsertWaits(c) ==
    /\ pc[c] = "insert-run"
    /\ KeyIsHeld(c)
    /\ Key(c) \in DOMAIN runs
    /\ Fail(c)

\* The key was committed between the look-up and the INSERT.
InsertConflicts(c) ==
    /\ pc[c] = "insert-run"
    /\ Key(c) \in DOMAIN runs
    /\ Fail(c)

Loadable(c) == ToSet(ids[c][1]) \cup ToSet(ids[c][2]) \subseteq stored

\* _load_rows does not find a requested id.
RowsMissing(c) ==
    /\ pc[c] = "reconcile"
    /\ ~Loadable(c)
    /\ Fail(c)

LagDoesNotFit(c) ==
    /\ pc[c] = "reconcile"
    /\ Loadable(c)
    /\ LagTooLong(ids[c])
    /\ Fail(c)

\* The engine's result rows and the finished run are flushed.
ReconcileRows(c) ==
    /\ pc[c] = "reconcile"
    /\ Loadable(c)
    /\ ~LagTooLong(ids[c])
    /\ pending' = [pending EXCEPT ![c] = DoneRow(ids[c])]
    /\ answer' = [answer EXCEPT ![c] =
          Summary(Key(c), Len(ids[c][1]), ResultOf[ids[c]])]
    /\ pc' = [pc EXCEPT ![c] = "leave-scope"]
    /\ UNCHANGED <<dbVars, via, ids, session, onRecord>>

Publish(c) ==
    IF pending[c] = NoRows THEN runs
    ELSE [key \in DOMAIN runs \cup {pending[c].run} |->
             IF key = pending[c].run THEN pending[c] ELSE runs[key]]

\* Fault: the scope flushes and never commits.
LeaveScopeUncommitted(c) ==
    /\ pc[c] = "leave-scope"
    /\ pc' = [pc EXCEPT ![c] = "return"]
    /\ UNCHANGED <<dbVars, via, ids, session, pending, answer, onRecord>>

\* _transaction_scope commits only the transaction it began itself.
LeaveScope(c) ==
    /\ pc[c] = "leave-scope"
    /\ IF session[c] = "owned"
       THEN /\ runs' = Publish(c)
            /\ pending' = [pending EXCEPT ![c] = NoRows]
       ELSE UNCHANGED <<runs, pending>>
    /\ pc' = [pc EXCEPT ![c] = "return"]
    /\ UNCHANGED <<stored, via, ids, session, answer, onRecord>>

\* create_run commits; the tasks leave `async with SessionLocal()', which
\* closes the session and rolls back what it has not committed.
Return(c) ==
    /\ pc[c] = "return"
    /\ runs' = IF via[c] \in {"api", "api-all"} THEN Publish(c) ELSE runs
    /\ pending' = [pending EXCEPT ![c] = NoRows]
    /\ session' = [session EXCEPT ![c] = "fresh"]
    /\ pc' = [pc EXCEPT ![c] = "ended"]
    /\ UNCHANGED <<stored, via, ids, answer, onRecord>>

\* The process dies, or its connection: PostgreSQL rolls back.
Crash(c) ==
    /\ pc[c] \notin {"idle", "ended"}
    /\ Fail(c)

Serve(c) ==
    \/ SelectLeft(c) \/ SelectRight(c)
    \/ GetRun(c) \/ InsertRun(c) \/ InsertConflicts(c)
    \/ RowsMissing(c) \/ LagDoesNotFit(c) \/ ReconcileRows(c)
    \/ LeaveScope(c) \/ Return(c)

Next ==
    \/ IngestLine
    \/ \E c \in Call : CallExplicit(c) \/ CallAll(c) \/ Serve(c) \/ Crash(c)

Spec == Init /\ [][Next]_vars

\* While some call that is being served can go on, one of them does; nothing
\* forces calls, lines or crashes.
FairSpec == Spec /\ WF_vars(\E c \in Call : Serve(c))

-----------------------------------------------------------------------------
(* Properties *)

\* The variables hold what the database, the sessions and the calls hold.
TypeOK ==
    /\ stored \subseteq Line
    /\ DOMAIN runs \subseteq RunKey
    /\ \A key \in DOMAIN runs : runs[key].made \in AskedFor
    /\ pc \in [Call -> {"idle", "select-left", "select-right", "get-run",
                          "insert-run", "reconcile", "leave-scope", "return",
                          "ended"}]
    /\ via \in [Call -> Via]
    /\ ids \in [Call -> AskedFor]
    /\ session \in [Call -> {"fresh", "autobegun", "owned"}]
    /\ DOMAIN pending = Call
    /\ \A c \in Call :
          pending[c] \in {NoRows, RunningRow(ids[c]), DoneRow(ids[c])}
    /\ DOMAIN answer = Call
    /\ \A c \in Call : answer[c].outcome \in {"none", "ok", "error"}
    /\ onRecord \in [Call -> SUBSET Line]

RunsStored(lines) ==
    \A key \in DOMAIN runs : key.left \cup key.right \subseteq lines

\* Whatever calls race, fail or crash, a committed run is finished, is filed
\* under the ids it was computed from, all of them stored lines, and holds
\* exactly one engine result: no half-written run, no second set of rows.
RunsAreWhole ==
    /\ \A key \in DOMAIN runs :
          /\ runs[key] = DoneRow(runs[key].made)
          /\ runs[key].run = key
    /\ RunsStored(stored)

\* "Every reconciliation run is versioned and retained; nothing overwrites
\* history" (project.spec.md FR-8): no step of a run changes or removes a
\* committed one.  (What users edit in its rows afterwards is the subject of
\* module Mutations.)
HistoryIsKept ==
    [][\A key \in DOMAIN runs :
          key \in DOMAIN runs' /\ runs'[key] = runs[key]]_runs

Persists(c) == via[c] # "all"

\* A call that returned a summary, other than reconcile_all_task, tells of a
\* run that is stored, and its counts are those of the stored rows, also
\* when it lost a race or asked in another order.
AnswersAreOnFile ==
    \A c \in Call :
        (pc[c] = "ended" /\ answer[c].outcome = "ok" /\ Persists(c)) =>
            /\ answer[c].run \in DOMAIN runs
            /\ answer[c].matched = Len(runs[answer[c].run].matches)
            /\ answer[c].excepted = Len(runs[answer[c].run].exceptions)

\* What a call that has ended was told, apart from the length of its own
\* list; what reconcile_all_task returns is not told of the archive.
Told(c) ==
    IF pc[c] # "ended" THEN NoAnswer
    ELSE IF answer[c].outcome # "ok" THEN Failure
    ELSE IF ~Persists(c) THEN NoAnswer
    ELSE [outcome |-> "ok", run |-> answer[c].run,
          matched |-> answer[c].matched, excepted |-> answer[c].excepted]

Promise == INSTANCE Archive WITH
    Caller <- Call,
    Run <- {DoneRow(request) : request \in AskedFor},
    archive <- runs,
    asked <- [c \in Call |-> Key(c)],
    told <- [c \in Call |-> Told(c)]

\* The service implements the archive: whichever calls race for a key, fail
\* or crash, each is answered as if finding or filing its run and telling of
\* it were one step.
ImplementsArchive == Promise!ArchiveSpec

\* What service.py:41 says of every run: "Run and persist".
ReturnedRunIsPersisted ==
    \A c \in Call :
        (pc[c] = "ended" /\ answer[c].outcome = "ok")
            => answer[c].run \in DOMAIN runs

ForEverything(c) == answer[c].outcome = "ok" /\ via[c] \in {"api-all", "all"}

\* A call for everything covers each bank, general-ledger and gateway line
\* that was stored when it was made, each on its side, although its two
\* SELECTs see different moments of the ledger; it covers no line of another
\* source.
AllMeansAll ==
    \A c \in Call : ForEverything(c) =>
        LET run == answer[c].run
        IN  /\ onRecord[c] \cap BookLine \subseteq run.left
            /\ run.left \subseteq BookLine
            /\ onRecord[c] \cap GatewayLine \subseteq run.right
            /\ run.right \subseteq GatewayLine

\* Every call ends, answered or failed, and waiting for a key is never for
\* ever: again and again no call is left.
EveryCallEnds == []<>(\A c \in Call : pc[c] \in {"idle", "ended"})

=============================================================================
