----------------------------- MODULE Ingestion -----------------------------
(***************************************************************************)
(* How ledger lines come to be stored (api/ingestion/service.py) and how   *)
(* the reconciliation of everything is scheduled for them: the Razorpay    *)
(* webhook (api/webhooks.py), the routes that call the provider            *)
(* (api/razorpay.py and its client) and POST /ledger/upload                *)
(* (api/uploads.py), running concurrently against one database at READ     *)
(* COMMITTED, and the Celery queue they feed (api/worker.py, api/tasks.py).*)
(*                                                                         *)
(* The canonical UUID is the primary key of ledger_lines, derived from the *)
(* provider's or the file's own identifier, so that one line can be        *)
(* delivered many times, with differing contents.  New rows are INSERTed   *)
(* one after another when the transaction is flushed; an INSERT waits for  *)
(* another open transaction that inserted its key.                         *)
(***************************************************************************)
EXTENDS Integers, Sequences, FiniteSets

CONSTANTS
    Delivery,   \* the requests that are ever served
    Line,       \* primary keys of ledger_lines
    Body,       \* contents a line can be delivered with
    Batch       \* what one payload normalizes to: sequences of records

Record == [id : Line, body : Body]

ASSUME BatchesAreOfRecords == Batch \subseteq Seq(Record)

VARIABLES
    ledger,     \* committed ledger_lines: key -> [body, by]; `by' is history
    pc, via, session,
    batch,      \* the normalized records of the delivery
    accepted,   \* summary.records: the body each key is reported with
    open,       \* the keys it has inserted and not committed
    outcome,    \* how it ended
    calls,      \* history: its provider calls, <<operation, what came of it>>
    activity,   \* its committed rows of razorpay_activity
    queue,      \* reconcile.all messages in the broker
    tasks,      \* reconcile.all tasks taken by a worker, ledger not yet read
    seen,       \* history: lines that some task has read
    lost        \* history: a taken task died before it read the ledger

rowVars == <<ledger, accepted, open>>
providerVars == <<calls, activity>>
queueVars == <<queue, tasks, seen, lost>>
vars == <<rowVars, pc, via, session, batch, outcome, providerVars, queueVars>>

Empty == [line \in {} |-> "none"]

Init ==
    /\ ledger = Empty
    /\ pc = [d \in Delivery |-> "idle"]
    /\ via = [d \in Delivery |-> "webhook"]
    /\ session = [d \in Delivery |-> "fresh"]
    /\ batch = [d \in Delivery |-> <<>>]
    /\ accepted = [d \in Delivery |-> Empty]
    /\ open = [d \in Delivery |-> {}]
    /\ outcome = [d \in Delivery |-> "none"]
    /\ calls = [d \in Delivery |-> <<>>] /\ activity = [d \in Delivery |-> <<>>]
    /\ queue = 0 /\ tasks = 0 /\ seen = {} /\ lost = FALSE

-----------------------------------------------------------------------------
(* Arrivals *)

\* The provider operations of each kind of request, in their order.
Operations ==
    [webhook |-> <<>>, upload |-> <<>>, list |-> <<"list">>,
     pull |-> <<"settlements.pull">>,
     payment |-> <<"create_order", "create_payment", "settlements.pull">>]

Via == {"webhook", "upload", "list", "pull", "payment"}

Call == {"list", "settlements.pull", "create_order", "create_payment"}
            \X {"ok", "error", "raised"}

\* The webhook's session is new.  The other routes have read the user in
\* theirs, which begins its transaction.
Arrive(d) ==
    /\ pc[d] = "idle"
    /\ \E how \in Via, records \in Batch :
          /\ via' = [via EXCEPT ![d] = how]
          /\ batch' = [batch EXCEPT ![d] = IF how = "list" THEN <<>> ELSE records]
          /\ session' = [session EXCEPT ![d] =
                IF how = "webhook" THEN "fresh" ELSE "autobegun"]
          /\ pc' = [pc EXCEPT ![d] = IF Operations[how] = <<>> THEN "begin" ELSE "call"]
    /\ UNCHANGED <<rowVars, outcome, providerVars, queueVars>>

\* The request ends without a commit: its transaction is rolled back.
End(d, how) ==
    /\ pc' = [pc EXCEPT ![d] = "ended"]
    /\ outcome' = [outcome EXCEPT ![d] = how]
    /\ open' = [open EXCEPT ![d] = {}]
    /\ UNCHANGED <<ledger, accepted, via, session, batch>>

\* A test payment swallows every error after its order, and answers with the
\* order.
Raise(d, how) ==
    End(d, IF via[d] = "payment" /\ Len(calls[d]) > 1 THEN "order" ELSE how)

-----------------------------------------------------------------------------
(* provider_call, around the client *)

Exchange == {"object", "other JSON", "no JSON", "status", "unreachable",
             "unconfigured", "cut off"}

\* The client answers with a JSON object or raises an integration error; a
\* body that is cut off raises past it (http.client.IncompleteRead).
ClientResult(exchange) ==
    IF exchange = "object" THEN "ok"
    ELSE IF exchange = "cut off" THEN "raised"
    ELSE "error"

CallProvider(d) ==
    /\ pc[d] = "call"
    /\ \E exchange \in Exchange :
          calls' = [calls EXCEPT ![d] =
             Append(@, <<Operations[via[d]][Len(@) + 1], ClientResult(exchange)>>)]
    /\ pc' = [pc EXCEPT ![d] = "record"]
    /\ UNCHANGED <<rowVars, via, session, batch, outcome, activity, queueVars>>

LastCall(d) == calls[d][Len(calls[d])]

\* Fault: an answer is used without being recorded.
RecordNothing(d) ==
    /\ pc[d] = "record"
    /\ LastCall(d)[2] = "ok"
    /\ session' = [session EXCEPT ![d] = "fresh"]
    /\ pc' = [pc EXCEPT ![d] =
          IF LastCall(d)[1] = "settlements.pull" THEN "begin"
          ELSE IF LastCall(d)[1] = "list" THEN "answer"
          ELSE "call"]
    /\ UNCHANGED <<rowVars, via, batch, outcome, providerVars, queueVars>>

\* record_activity commits the answer before anything is made of it.
RecordAnswer(d) ==
    /\ pc[d] = "record"
    /\ LastCall(d)[2] = "ok"
    /\ activity' = [activity EXCEPT ![d] = Append(@, LastCall(d))]
    /\ session' = [session EXCEPT ![d] = "fresh"]
    /\ pc' = [pc EXCEPT ![d] =
          IF LastCall(d)[1] = "settlements.pull" THEN "begin"
          ELSE IF LastCall(d)[1] = "list" THEN "answer"
          ELSE "call"]
    /\ UNCHANGED <<rowVars, via, batch, outcome, calls, queueVars>>

RecordError(d) ==
    /\ pc[d] = "record"
    /\ LastCall(d)[2] = "error"
    /\ activity' = [activity EXCEPT ![d] = Append(@, LastCall(d))]
    /\ Raise(d, "error")
    /\ UNCHANGED <<calls, queueVars>>

RaiseUnrecorded(d) ==
    /\ pc[d] = "record"
    /\ LastCall(d)[2] = "raised"
    /\ Raise(d, "error")
    /\ UNCHANGED <<providerVars, queueVars>>

AnswerList(d) ==
    /\ pc[d] = "answer"
    /\ End(d, "ok")
    /\ UNCHANGED <<providerVars, queueVars>>

\* An order without an id is answered as it is.
AnswerOrder(d) ==
    /\ pc[d] = "call"
    /\ via[d] = "payment" /\ Len(calls[d]) = 1
    /\ End(d, "order")
    /\ UNCHANGED <<providerVars, queueVars>>

-----------------------------------------------------------------------------
(* ingest_payload, ingest_payloads, persist_canonical_records *)

\* process_razorpay_webhook: no signature, another one, or a body that is not
\* JSON.
RefuseWebhook(d) ==
    /\ pc[d] = "begin" /\ via[d] = "webhook"
    /\ End(d, "refused")
    /\ UNCHANGED <<providerVars, queueVars>>

\* RazorpayAdapter.normalize raises on one entity: nothing of the payload is
\* ingested.
RefusePayload(d) ==
    /\ pc[d] = "begin" /\ via[d] # "upload"
    /\ Raise(d, "refused")
    /\ UNCHANGED <<providerVars, queueVars>>

\* parse_mapping or parse_csv: a source, mapping, column or row it cannot use.
RefuseUpload(d) ==
    /\ pc[d] = "begin" /\ via[d] = "upload"
    /\ End(d, "refused")
    /\ UNCHANGED <<providerVars, queueVars>>

\* session.begin() refuses a session whose transaction has begun.
BeginFails(d) ==
    /\ pc[d] = "begin"
    /\ session[d] = "autobegun"
    /\ Raise(d, "error")
    /\ UNCHANGED <<providerVars, queueVars>>

KeysOf(records) == {records[p].id : p \in DOMAIN records}

\* Fault: the payload's version of a known line is reported.
SelectExistingTrusting(d) ==
    /\ pc[d] = "begin"
    /\ session[d] = "fresh"
    /\ accepted' = [accepted EXCEPT ![d] =
          [line \in KeysOf(batch[d]) \cap DOMAIN ledger |->
              batch[d][CHOOSE p \in DOMAIN batch[d] : batch[d][p].id = line].body]]
    /\ session' = [session EXCEPT ![d] = "owned"]
    /\ pc' = [pc EXCEPT ![d] = "insert"]
    /\ UNCHANGED <<ledger, open, via, batch, outcome, providerVars, queueVars>>

\* One SELECT finds the keys that are committed: they are reported as they
\* are stored.
SelectExisting(d) ==
    /\ pc[d] = "begin"
    /\ session[d] = "fresh"
    /\ accepted' = [accepted EXCEPT ![d] =
          [line \in KeysOf(batch[d]) \cap DOMAIN ledger |-> ledger[line].body]]
    /\ session' = [session EXCEPT ![d] = "owned"]
    /\ pc' = [pc EXCEPT ![d] = "insert"]
    /\ UNCHANGED <<ledger, open, via, batch, outcome, providerVars, queueVars>>

\* Records of keys that are neither stored nor new rows already (seen_ids).
Remaining(d) == {p \in DOMAIN batch[d] : batch[d][p].id \notin DOMAIN accepted[d]}

\* The row the open transaction inserts next.
IsNext(d, p) ==
    /\ pc[d] = "insert"
    /\ p \in Remaining(d)
    /\ \A q \in Remaining(d) : p <= q

\* The open transactions whose row the next INSERT of d has to wait for.
WaitsFor(d) ==
    {e \in Delivery \ {d} :
        \E p \in DOMAIN batch[d] : IsNext(d, p) /\ batch[d][p].id \in open[e]}

\* Fault: a merge instead of an INSERT.
UpsertRow(d) ==
    /\ WaitsFor(d) = {}
    /\ \E p \in DOMAIN batch[d] :
          /\ IsNext(d, p)
          /\ open' = [open EXCEPT ![d] = @ \cup {batch[d][p].id}]
          /\ accepted' = [accepted EXCEPT ![d] =
                [line \in DOMAIN @ \cup {batch[d][p].id} |->
                    IF line = batch[d][p].id THEN batch[d][p].body ELSE @[line]]]
    /\ UNCHANGED <<ledger, pc, via, session, batch, outcome, providerVars, queueVars>>

InsertRow(d) ==
    /\ WaitsFor(d) = {}
    /\ \E p \in DOMAIN batch[d] :
          /\ IsNext(d, p)
          /\ batch[d][p].id \notin DOMAIN ledger
          /\ open' = [open EXCEPT ![d] = @ \cup {batch[d][p].id}]
          /\ accepted' = [accepted EXCEPT ![d] =
                [line \in DOMAIN @ \cup {batch[d][p].id} |->
                    IF line = batch[d][p].id THEN batch[d][p].body ELSE @[line]]]
    /\ UNCHANGED <<ledger, pc, via, session, batch, outcome, providerVars, queueVars>>

\* Fault: a row that has been committed is waited for.
InsertWaits(d) ==
    /\ \E p \in DOMAIN batch[d] : IsNext(d, p) /\ batch[d][p].id \in DOMAIN ledger
    /\ WaitsFor(d) # {}
    /\ Raise(d, "error")
    /\ UNCHANGED <<providerVars, queueVars>>

\* The key was committed after the SELECT: the whole batch fails.
InsertConflicts(d) ==
    /\ \E p \in DOMAIN batch[d] : IsNext(d, p) /\ batch[d][p].id \in DOMAIN ledger
    /\ Raise(d, "error")
    /\ UNCHANGED <<providerVars, queueVars>>

\* PostgreSQL's deadlock detector fails one of the statements that wait for
\* each other.
DeadlockVictim(d) ==
    /\ WaitsFor(d) # {}
    /\ \E group \in SUBSET Delivery :
          /\ d \in group
          /\ \A x \in group :
                WaitsFor(x) \cap group # {} /\ \E y \in group : x \in WaitsFor(y)
    /\ Raise(d, "error")
    /\ UNCHANGED <<providerVars, queueVars>>

\* Fault: a commit among the rows of a batch.
CommitRows(d) ==
    /\ pc[d] = "insert"
    /\ ledger' = [line \in DOMAIN ledger \cup open[d] |->
          IF line \in open[d] THEN [body |-> accepted[d][line], by |-> d]
          ELSE ledger[line]]
    /\ open' = [open EXCEPT ![d] = {}]
    /\ session' = [session EXCEPT ![d] = "fresh"]
    /\ pc' = [pc EXCEPT ![d] = "enqueue"]
    /\ UNCHANGED <<accepted, via, batch, outcome, providerVars, queueVars>>

Commit(d) ==
    /\ pc[d] = "insert"
    /\ Remaining(d) = {}
    /\ ledger' = [line \in DOMAIN ledger \cup open[d] |->
          IF line \in open[d] THEN [body |-> accepted[d][line], by |-> d]
          ELSE ledger[line]]
    /\ open' = [open EXCEPT ![d] = {}]
    /\ session' = [session EXCEPT ![d] = "fresh"]
    /\ pc' = [pc EXCEPT ![d] = "enqueue"]
    /\ UNCHANGED <<accepted, via, batch, outcome, providerVars, queueVars>>

-----------------------------------------------------------------------------
(* reconcile_all_task.delay() and the worker *)

Enqueue(d) ==
    /\ pc[d] = "enqueue"
    /\ queue' = queue + 1
    /\ End(d, "ok")
    /\ UNCHANGED <<providerVars, tasks, seen, lost>>

\* Fault: the broker's error is swallowed.
EnqueueSwallowed(d) ==
    /\ pc[d] = "enqueue"
    /\ End(d, "ok")
    /\ UNCHANGED <<providerVars, queueVars>>

\* The broker cannot be reached: the request fails after its commit.
EnqueueFails(d) ==
    /\ pc[d] = "enqueue"
    /\ Raise(d, "error")
    /\ UNCHANGED <<providerVars, queueVars>>

\* The API process dies, or its connection to the database.
Crash(d) ==
    /\ pc[d] \notin {"idle", "ended"}
    /\ End(d, "crashed")
    /\ UNCHANGED <<providerVars, queueVars>>

requestVars == <<rowVars, pc, via, session, batch, outcome, providerVars>>

\* Celery acknowledges a message when a worker takes it, before it runs.
TakeTask ==
    /\ queue > 0
    /\ queue' = queue - 1
    /\ tasks' = tasks + 1
    /\ UNCHANGED <<requestVars, seen, lost>>

\* The SELECT of the gateway lines in reconcile_all_task; module RunService
\* has what the task does with them.
ReadLedger ==
    /\ tasks > 0
    /\ tasks' = tasks - 1
    /\ seen' = seen \cup DOMAIN ledger
    /\ UNCHANGED <<requestVars, queue, lost>>

WorkerDies ==
    /\ tasks > 0
    /\ tasks' = tasks - 1
    /\ lost' = TRUE
    /\ UNCHANGED <<requestVars, queue, seen>>

Serve(d) ==
    \/ CallProvider(d) \/ RecordAnswer(d) \/ RecordError(d) \/ RaiseUnrecorded(d)
    \/ AnswerList(d) \/ AnswerOrder(d)
    \/ RefuseWebhook(d) \/ RefusePayload(d) \/ RefuseUpload(d)
    \/ BeginFails(d) \/ SelectExisting(d)
    \/ InsertRow(d) \/ InsertConflicts(d) \/ DeadlockVictim(d) \/ Commit(d)
    \/ Enqueue(d) \/ EnqueueFails(d)

Work == TakeTask \/ ReadLedger \/ WorkerDies

Next ==
    \/ \E d \in Delivery : Arrive(d) \/ Serve(d) \/ Crash(d)
    \/ Work

Spec == Init /\ [][Next]_vars

\* While some request that is being served can go on, one of them does, and
\* the worker goes on beside them; nothing forces deliveries or crashes.
FairSpec == Spec /\ WF_vars(Work) /\ WF_vars(\E d \in Delivery : Serve(d))

-----------------------------------------------------------------------------
(* Properties *)

\* The variables hold what the database, the requests and the queue hold.
TypeOK ==
    /\ DOMAIN ledger \subseteq Line
    /\ \A line \in DOMAIN ledger : ledger[line] \in [body : Body, by : Delivery]
    /\ pc \in [Delivery -> {"idle", "call", "record", "answer", "begin", "insert",
                             "enqueue", "ended"}]
    /\ via \in [Delivery -> Via]
    /\ session \in [Delivery -> {"fresh", "autobegun", "owned"}]
    /\ batch \in [Delivery -> Batch \cup {<<>>}]
    /\ DOMAIN accepted = Delivery
    /\ open \in [Delivery -> SUBSET Line]
    /\ outcome \in [Delivery -> {"none", "ok", "order", "refused", "error", "crashed"}]
    /\ calls \in [Delivery -> Seq(Call)] /\ activity \in [Delivery -> Seq(Call)]
    /\ queue \in Nat /\ tasks \in Nat
    /\ seen \subseteq DOMAIN ledger /\ lost \in BOOLEAN

\* "Existing rows are never updated by ingestion" (ingestion/service.py:50):
\* whatever deliveries race with whatever contents, the first committed row
\* of a key stays as it is.  Module RunService relies on it.
FirstWriteWins ==
    [][\A line \in DOMAIN ledger :
          line \in DOMAIN ledger' /\ ledger'[line] = ledger[line]]_ledger

\* "In one caller-visible transaction" (ingestion/service.py:26 and :37): if
\* one row of a batch is stored, every line of the batch is, also when it
\* loses a race for one key, a deadlock or its process.
BatchesAreAtomic ==
    \A line \in DOMAIN ledger :
        LET records == batch[ledger[line].by]
        IN  /\ line \in KeysOf(records)
            /\ KeysOf(records) \subseteq DOMAIN ledger

Committed(d) == pc[d] = "enqueue" \/ outcome[d] = "ok"

\* The records a committed ingestion reports are its lines, each as it is in
\* the ledger, also where the payload said something else of a line stored
\* before.
AcceptedIsStored ==
    \A d \in Delivery : Committed(d) =>
        /\ DOMAIN accepted[d] = KeysOf(batch[d])
        /\ \A line \in DOMAIN accepted[d] :
              line \in DOMAIN ledger /\ ledger[line].body = accepted[d][line]

\* razorpay_activity tells of every provider call in its order, except that
\* the last one of a request can be missing: one that is being recorded, of
\* a process that died, or whose answer was cut off.  Lines that a pull
\* stored are there only with the provider's answer on record.
ActivityIsComplete ==
    \A d \in Delivery :
        LET missing == Len(calls[d]) - Len(activity[d])
        IN  /\ missing \in {0, 1}
            /\ \A k \in DOMAIN activity[d] : activity[d][k] = calls[d][k]
            /\ missing = 1 =>
                  \/ pc[d] = "record" \/ outcome[d] = "crashed"
                  \/ LastCall(d)[2] = "raised"
            /\ (\E line \in DOMAIN ledger : ledger[line].by = d)
                  /\ via[d] \in {"pull", "payment"}
                     => missing = 0 /\ LastCall(d) = <<"settlements.pull", "ok">>

\* A delivery that was answered as done has its lines read by a task, or one
\* is still to read them, or a worker died with one: no line is enqueued for
\* before it can be seen.  A test payment that is answered with its order
\* promises no task.
AnsweredIsScheduled ==
    \A d \in Delivery :
        outcome[d] = "ok" =>
            KeysOf(batch[d]) \subseteq seen \/ queue + tasks > 0 \/ lost

\* "Both paths write to `ledger_lines`" (architecture.md:46): an
\* upload that was neither refused nor interrupted has stored its lines.
UploadsAreStored ==
    \A d \in Delivery :
        (via[d] = "upload" /\ pc[d] = "ended" /\ outcome[d] \notin {"refused", "crashed"})
            => KeysOf(batch[d]) \subseteq DOMAIN ledger

\* Every request ends, although batches that list the same keys in different
\* orders wait for each other: again and again none is left.
EveryDeliveryEnds == []<>(\A d \in Delivery : pc[d] \in {"idle", "ended"})

\* What an answered delivery stored is read by a task in the end, unless a
\* worker dies with its task.  What becomes of the task's run is the subject
\* of ReturnedRunIsPersisted (module RunService).
AnsweredIsSeen ==
    \A d \in Delivery :
        outcome[d] = "ok" ~> (KeysOf(batch[d]) \subseteq seen \/ lost)

=============================================================================
