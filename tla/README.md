# Reconcile.io in TLA+

Reconcile.io matches the lines of a company's bank and general ledger against the payments,
settlements and refunds of its payment gateway (Razorpay), and reports what it could not match. This
directory models the parts of it that decide and the parts that store: the matching engine and its
benchmarks, the runs, ingestion with its calls of the provider, the changes users make by hand, tax
classification, the copilot, the first user and the settings, and the button that starts a run. TLC
checks the models on small instances; TLAPS proves the main safety properties for every value of the
constants.

Line numbers are of the files of the repository; `PROJECT.json` has, for each
definition, the lines it stands for.

## The system

| Component | Code | State | Operations |
|---|---|---|---|
| Matching rules | `packages/engine/reconciliation/scoring.py`, `matcher.py` | none | tolerance, window, similarity, confidence, candidates, reason codes |
| Engine | `matcher.py` `reconcile` | used right ids, matches, exceptions (local) | one pass over the left records |
| Run service | `api/reconciliation/service.py` | `reconciliation_runs`, `matches`, `exceptions` | `run_reconciliation`, idempotent by the set of ids |
| Its callers | `api/main.py` `create_run`, `api/tasks.py` | a session each | POST /runs, `reconcile.run`, `reconcile.all` |
| Ingestion | `api/ingestion/service.py`, `api/webhooks.py`, `api/uploads.py`, the Razorpay adapter | `ledger_lines` | webhook, pull, CSV upload |
| Provider calls | `api/razorpay.py`, `api/integrations/razorpay/client.py` | `razorpay_activity` | list, pull, test payment: each exchange on record |
| Worker | `api/worker.py`, Celery, Redis | the queue | takes `reconcile.all` and `reconcile.run` |
| Manual mutations | `api/mutations.py` | `matches.status`, `exceptions`, `audit_log` | override a match, update an exception |
| Settings | `api/settings.py` | `application_settings` | read, change |
| Tax | `api/tax.py` | `tax_classifications`, `tax_training_examples`, `audit_log` | classify on GET, correct |
| Forecast | `api/forecast.py` | `forecast_snapshots` | project cash over 13 weeks |
| Copilot | `api/copilot.py` | `copilot_queries` | retrieve exceptions twice, ask the language model, check its citations, keep the answer |
| Benchmarks | `api/accuracy.py`, `packages/engine/bench.py`, `packages/engine/synthetic.py` | `accuracy_benchmarks` | labels pair by pair; a generated workload as one run |
| Auth | `api/auth.py`, `bootstrap` in `api/main.py` | `users` | bootstrap, login, the dependencies that let requests in |
| Web | `apps/web` | the run button's polling state | pages over the API |
| Exports, migrations, configuration, schemas | `api/exports.py`, `infra/migrations`, `api/config.py`, `api/schemas.py`, `api/models.py` | none of their own | |

How they interact. Ingestion is the only writer of `ledger_lines`; a webhook or
a pull that committed puts a `reconcile.all` message on the queue, a worker
takes it, SELECTs the ids and calls the run service, which loads the rows, calls
the engine and stores what it decided. POST /runs does the same inside the
request. Users then change matches and exceptions of stored runs, and ask the
copilot about the exceptions. Settings are read by nobody else. All of these
are separate database transactions at READ COMMITTED; nothing else is shared.

What is hard about it:

* **The engine is order-dependent.** Each match uses up a right record, so a
  decision depends on all earlier ones; repeated ids, references in another
  currency and amounts or dates at the edge of a tolerance meet in one loop.
* **The run id is not.** It is derived from the two *sets* of ids, so callers
  with other lists are answered with a run that was computed for somebody else.
* **Who commits depends on the caller.** `_transaction_scope` owns the
  transaction only if the session had none, and a session gets one from any
  earlier read, such as that of the authenticated user.
* **Primary keys do the coordination.** Runs and lines have derived keys; races
  end in waiting, a unique violation or a deadlock, and a failing flush takes the
  whole batch or run with it.
* **Every boundary between two commits is a place to stop**: activity, lines,
  queue message, run. The provider acts before its answer is recorded.
* **What was read is used later.** An answer of the copilot takes two retrievals and a
  language model in between; a setting is read, and written as new or as a change.
* **Edits read, change in memory and write back** only the columns that changed
  from what was read.

For each component the properties that make it correct are the section "What
is checked"; `PROJECT.json` lists the hazards at their lines, with the properties
that guard against each, or why there is none yet.

## The modules

```
Matcher ── Reconciliation ────┬── Results ── MCReconciliation
   │          └ INSTANCE      │      └ ReconciliationProofs
   │            Assignment    │
   └── Engine ── Benchmark ───┘
          └── RunService ── MCRunService
                 ├ INSTANCE Archive
                 └ RunServiceProofs

Ingestion ── MCIngestion          Mutations ── MCMutations
   └ IngestionProofs                 └ MutationsProofs
Tax ── MCTax                      Copilot ── MCCopilot
   └ TaxProofs                       └ CopilotProofs
RunButton ── MCRunButton          Administration ── MCAdministration
   └ RunButtonProofs                 └ AdministrationProofs
```

**`Matcher`** is `scoring.py` and the per-record rules of `matcher.py`.
An amount is a number of minor units (the column is Numeric(14,2)), a similarity
or confidence a number of thousandths (the code quantizes both), the tolerance a
number of basis points, a date a day number. A description is its set of tokens and whether
it holds one of the "in transit" phrases. Rounding is modelled as it is:
half up, after the same operations. `TierOf` says at which tier a pair
qualifies; `FindCandidates` returns *positions*, because a right record listed
twice is two candidates to the code.

**`Reconciliation`** is the loop of `reconcile` with one action per branch of its body: `Ambiguous`
(several free candidates), `MatchSole` (one), `AlreadyConsumed` (none free, but some used),
`Unmatched` (classified). The two result lists carry the position of the left record as history.
**`Engine`** is the loop as a function, by recursion over the left records, for the modules that
call it. **`Benchmark`** is what
measures it: the generated workload with the expectations that are authored beside it (`Dataset`),
the confusion counts (`Metrics`), and the judgement of one labelled pair alone (`MatchesAlone`).
**`Results`** has what the callers rely on: that loop and function agree, that the order of the right
records does not matter, what a benchmark of pairs says of a run.
**`Assignment`** is what the docstring of `reconcile` promises, with no scan order, no tiers and no
scores: a claim is paired with a compatible holding nobody holds, or set aside because it has none,
or because it is contested.

**`RunService`** is `run_reconciliation` under its callers. A call goes through
`pc` values `select-left`, `select-right` (only calls for everything), `get-run`,
`insert-run`, `reconcile`, `leave-scope`, `return`, `ended`: one for each
point at which another transaction can come between. What a call has
written and not committed is in `pending`, what is committed in `runs`.
`session` tells whether its transaction was begun by an earlier read
(`autobegun`) or by `_transaction_scope` (`owned`), which decides who commits.
`Return` commits for POST /runs and rolls back for the tasks, as closing a
session does. The id lists come from the caller or from a SELECT in any order: of the lines whose
source is bank or gl (`BookLine`) on the left, razorpay (`GatewayLine`) on the right; lines of other
sources are in neither.
The run id is the pair of sets of ids (uuid5 is taken to be injective). `Answers` is the engine's
result for each request that can be made, and `ResultOf` the same function (comparing it once makes
TLC keep its values).
**`Archive`** is what the service promises, with no sessions, transactions or phases: a run is filed
under its name, whole, once and for ever, and a caller is told what is on file under the name it
asks for, or that it failed.

**`Ingestion`** is every request by which lines can arrive. `Arrive` gives it its kind and the batch
its payload normalizes to. The kinds that ask the provider go through their `Operations`:
`CallProvider` is one exchange, with what the client makes of each way it can go, and `RecordAnswer`
and `RecordError` commit its row of `razorpay_activity`; `RaiseUnrecorded` is the one error that is
neither caught nor recorded. `SelectExisting` splits the batch into known and new lines, `InsertRow`
inserts one row (and waits for another open transaction with that key), `InsertConflicts` and
`DeadlockVictim` fail the batch, `Commit` publishes it, `Enqueue` puts a message on the queue.
`RefuseWebhook`, `RefusePayload` and `RefuseUpload` are the validations. `Raise` is the way every
later error ends: a test payment swallows it and answers with its order. The worker takes a message
(which acknowledges it), and reads the ledger or dies.

**`Mutations`** is the two edits. `Get` reads the row, `UpdateRow` is the flush
(it waits for another uncommitted UPDATE of the row, unless nothing changed),
`Commit` publishes the changed columns together with the audit row.

**`Tax`** is GET and PATCH /tax/classifications. A listing SELECTs the lines
(`SelectLines`), then what is classified (`SelectExisting`), inserts the rest row by
row (`InsertRow`, which waits for, or fails on, another listing's row of that
key), commits, and SELECTs its answer. A correction is an edit like those of
`Mutations`, with a training example. `began` is history.

**`Copilot`** is POST /copilot/query under runs that commit exceptions (`CommitRun`) and users who
edit them (`Edit`). `Retrieve` and `AnswerStructured` are the two retrievals, `Generate` and
`ProviderFails` what comes of the language model, `Persist` the query that is kept. An answer is
what it mentions, in which form, and what it cites. A question is the exceptions whose reason has
one of its terms (`Terms`), or it asks for the biggest and has none (`Biggest`). `during` is history:
the sets of exceptions that were unresolved together at some moment while the question was served.

**`Administration`** is bootstrap and the settings. `current_user` and `require_write_role`
are the place of that name, with `Admit` and `Refuse`. A change of a setting reads the row
(`ReadSetting`), flushes it (`Write`, `InsertConflicts`, `NotSerializable`) and commits.
`settings` keeps every value a key was committed with, the last is the row; `began` is history.

**`RunButton`** is the button of the overview page. A click is a `chain` of
callbacks: `HandleRun` POSTs, `CommitRun` is the API's part, `Created` or
`NotCreated` the client's, then `Poll`, `Done`, `PollFails` or `GiveUp` (their comments
name what they stand for). A chain remembers the component instance that started
it, because nothing cancels it when the page is left; `Mounted` is what React
makes of a setState of an old instance. `SignOut` and a 401 ask for a page load,
which happens later (`Unload`).

Definitions under a comment that begins with "Fault" are not part of the model: each is a
plausible mistake in the definition that follows, and a property is expected to notice it
when it takes that definition's place.

## What is checked

| Run | Instance | States | Shows |
|---|---|---|---|
| `reconciliation` | every pair of up to 3 left and 2 right records, and up to 2 left and 3 right, with repetition, from 7 + 7 records; and the generated workload of 1, 14 and 33 records | 143 059 | the meaning of every decision; the function; the refinement; what the benchmarks measure |
| `run_service` | 2 calls of any kind, 4 lines being ingested (the first is stored from the start), 5 requests | 390 812 | stored runs are whole and stay, answers agree with them, calls for everything cover what was stored, every call ends; the refinement of `Archive` |
| `run_service_persist` | as `run_service` | violated | see below |
| `ingestion` | 2 requests of any of 5 kinds, 2 lines, 2 contents, 4 batches, one of them empty | 137 311 | first write wins, whole batches, provider calls on record, scheduling, every request ends |
| `ingestion_upload` | as `ingestion` | violated | see below |
| `mutations` | 3 edits of 1 match and 1 exception, 5 patches | 199 797 | audit log and rows agree, every edit ends |
| `tax` | 3 requests, 2 GL lines, 2 corrections | 595 871 | listings are complete, corrections stand, every request ends |
| `run_button` | 3 clicks, 2 visits, 2 runs, 2 polls | 243 985 | the button follows its own run, and ends |
| `copilot` | 1 question of 3, 3 exceptions of 2 runs and 2 lines, a retrieval takes 2 | 818 441 | answers were true, heed the question and are kept |
| `copilot_citations`, `copilot_asked` | as `copilot` | violated | see below |
| `administration` | 3 requests, 2 emails, 2 roles, 2 tax values of which one is the default, 1 set of tolerances | 444 924 | late bootstraps fail, answers were stored, every request ends |

The type invariants hold for every instance, by a theorem each; no run repeats them.

**Engine.** `EveryLeftDecidedOnce` is the accounting: every left record is decided once, in order
(that no right record is matched twice, `RightUsedOnce`, is proved). `NothingForced` gives "never
fabricates a match" (matcher.py:40) its meaning: a match qualifies at its tier, and each rival at
that tier or a better one had been taken. `ContestsAreReal` and `ReasonsAreTrue` say what a reader
may conclude from an exception. `OnlyTierThreeIsReviewed` says the confidence bands of the tiers do
not cross and only tier 3 falls below acceptance. `LoopComputesReconcile` ties the loop to the function.
`RightOrderIsIrrelevant` is what lets the callers SELECT the right ids with no ORDER BY; the order
of the *left* ids does matter, and no property says otherwise. `GeneratedAsExpected`: on the
generated workload the matcher, given all scenarios in one run, does what the generator's authored
labels say, and what they leave out are its exceptions; 14 records have every scenario and some of
them twice, 33 have days that meet again. `AloneIsNoStricter` is what the
benchmark of golden labels may conclude: a pair that a run matches is matched alone, and a pair that
is matched alone is matched by a run if nobody else is a partner of either (ids being distinct, as
in the ledger). `ImplementsAssignment`
is the refinement.

The catalogue of records is chosen so that each rule has both its sides: an amount at
and just over the tolerance, a date at and just over the window, a similarity at and
under the floor, equal, missing and foreign references, two currencies, amount zero,
a payment in transit. Three left records are the fewest with which a contest depends on a
match that is not the previous one; two right ones the fewest that make an ambiguity.

**Run service.** `RunsAreWhole`: a committed run is finished, filed under the ids it was
computed from, and holds exactly one engine result, whatever calls race, fail
or crash. `HistoryIsKept` is FR-8, for the steps of runs (what users edit in their rows is in
`Mutations`). `AnswersAreOnFile`: the counts a caller was
given are those of the stored rows, also when it was answered with a run
another call computed. `AllMeansAll`: a call for everything covers each bank, general-ledger and
gateway line that was stored when it was made, each on its side, although its two SELECTs see
different moments; lines of other sources, of which one of the four is, it does not cover.
`ImplementsArchive` is the
refinement: `runs` is the archive, the key of a call is what it asks for, and what an ended call was
told is its answer, or the failure. An answer of `reconcile_all_task` counts as nothing told, since
its run is not on file (the first of the violations below).
The four lines of `run_service` are two of a bank, one of the gateway and an invoice's. They are
chosen so that the order of the ids decides both the result and whether there is one: one of two
possible matches has a settlement lag that does not fit its column. The ledger starts with the first
of them, which keeps the instance small; the others come at any moment. Two calls are enough for
every conflict the key can have (a third would only wait as the second does).

**Ingestion.** `FirstWriteWins` ("Existing rows are never updated by ingestion",
ingestion/service.py:50), `BatchesAreAtomic` ("one caller-visible transaction", :26 and :37),
`AcceptedIsStored` (the records that are reported are the rows, not the payload),
`ActivityIsComplete` (the activity log lacks at most the last provider call of a request, and only
one that is being recorded, was cut off, or whose process died; lines of a pull are stored only with
its answer on record), `AnsweredIsScheduled` (no message is enqueued before the lines it is for can
be seen), `AnsweredIsSeen` (what was answered is read by a task in the end; not that it is
reconciled, as the task's run is rolled back, see `run_service_persist`). A test payment that loses
its pull or its task is answered with its order like any other (main.py:125): the model has that, and
neither property is about it, since nothing promises that payment a task. Two requests give each
wait, conflict and deadlock; a third would only wait beside them. The batches list two keys in both
orders, which makes deadlocks, and one key twice.

**Mutations.** `EveryEditIsAudited`: successes and audit rows are one for one.
`LastChangeStands`: a row is what the audited edits made it, field by field, in
the order of their commits, so an edit of one field never undoes another's.
`PreviousWasTrue`: the previous values in an audit row were the row's at some
earlier moment. They need not be the values right before it: two edits that
overlap record the same ones. An edit that sets a field to the value it read
writes nothing, so it can be answered "new" while the row says "resolved".
`ClosedIsDated`: a closed exception has a `resolved_at`; one that was reopened
keeps it.

**Tax.** `AnswersAreCurrent` is FR-9 for a reader: a listing has each GL line that was
stored when it was asked for, and every correction made by then. `LearnedIsCorrected`:
corrected rows and training examples go together, so a listing that decided to insert
before a correction cannot put the line back into the review queue: its INSERT
fails on the key. The price is that a listing can fail because another one
succeeded. The label of a row is that of *an* example, not always of the last: a
correction to the label it had read writes no column. Two requests make a
deadlock; a listing that is overtaken by a listing and a correction takes three.

**Run button.** `BusyHasOneChain`: the button on the page is busy exactly while one
chain of its own instance goes on. `ShownIsOwnRun`: what it calls complete is the
run of its last click, though chains of an earlier visit may still answer.
`EveryClickEnds` rests on `MAX_POLLS`: failed polls set the next timer like any other.
Two polls have a first, a last and one too many, as 120 have. What
the button says when it gives up ("The run did not complete within the expected
time", run-reconciliation.tsx:58) is never so: a run is committed done before
its id is returned, and only failing polls lead there.

**Copilot.** `AnswersWereTrue`: there was one moment, while the question was served, at which all
that the answer cites was unresolved, or nothing was if it says so. The answer may be out of date,
but although the exceptions are retrieved twice, with others' commits in between, it is not made of
both retrievals. `TermsAreHeeded`: if at each moment some exception that fits the question is among
those which any retrieval takes (`Certain`: at most `Limit` are no older), only exceptions that fit are
cited, by either way of answering and however many others are open. What the docs promise beyond
that, of older exceptions and of the biggest, does not hold (see the violations).
`EveryAnswerIsKept`: an answer that is returned is kept once and as it was, whichever of the five ways
it took. One question is enough: questions share no state but the exceptions, which others change at
any moment. Three exceptions with a limit of two are the fewest that crowd one out; two of one run
tie in `opened_at`, two of one line can be confused.

**Administration.** `LateBootstrapsFail` is the promise of bootstrap: once a user is committed
nobody creates another, no two bootstraps create one of the same email, and a user that was
created is the one that is stored. Bootstraps that overlap can create one each, of different emails. `AnswersWereStored`: an answer about a setting was its value at
some moment while the request was served, although a change reads before it writes and may write
nothing, and a request that failed has written nothing. `EveryRequestEnds`: first writers of a key,
and of an email, wait for each other and end. Three requests are two that race and one that comes
later or between them.

### Four violations

* **`run_service_persist`.** `reconcile_all_task` SELECTs the ids (tasks.py:25-26)
  before it calls `run_reconciliation`; the session is then in a transaction,
  `_transaction_scope` does not commit, and neither does the task. Its run is
  rolled back when the session closes, and its id is returned. `service.py:41`
  says "Run and persist". It is the task that every webhook and pull schedules.
* **`ingestion_upload`.** POST /ledger/upload has read its user through the session
  (auth.py:67), so `session.begin()` in `ingest_payloads` (ingestion/service.py:39)
  raises: every upload fails. `architecture.md:46` says both the connector and the CSV upload
  "write to `ledger_lines`".
* **`copilot_citations`.** A mention is checked only if it is a token that begins and ends with a
  bracket (copilot.py:85): one that adjoins a full stop is not looked at, and if another citation is
  right the answer is returned. `project.spec.md:53` says "the ID must be verified to exist in the
  retrieved context before the answer is returned".
* **`copilot_asked`.** The newest twenty exceptions are taken before the question is looked at
  (copilot.py:41), and "biggest" only drops its terms (copilot.py:43): amounts are never read. So a
  question for the biggest is answered with the newest, and an exception that is open all the time,
  and that the question is about, is not found when twenty are newer. `api_spec.md:103-107` answers
  "what's the biggest open exception?" with the largest amount, `architecture.md:157-158` has "parse
  for record IDs / intent → build SQL retrieval", `testing.md:32` "A question about a known exception
  returns an answer whose citation deep-links correctly".

In the models, though no run is about them, as each shows in a step or two:

* a change of the matching rules hands Decimals (main.py:229, schemas.py:190-191) to a JSONB column,
  whose serializer does not take them: the flush raises (`NotSerializable`), and no change of the
  tolerances is ever stored, against `api_spec.md:81`;
* two bootstraps that overlap both find no user (main.py:68), and with different emails both commit,
  though `PRODUCTION_LOGIN_FIX.md:4` says the endpoint "only creates a user when the database is empty";
* a call for everything SELECTs the sources bank, gl and razorpay (main.py:303-304, tasks.py:25-26),
  so that lines of invoices and settlements are in no automatic run. That is what `AllMeansAll` says;
  `tests/test_postgres_integration.py:204-208` ingests such lines (:175) and expects an automatic run
  to have processed as many records as there are lines.

Not a matter of the models, but seen on the way:

* the parameter `body: bytes` of the webhook route (main.py:79) is not declared as a request
  body, and FastAPI reads a plain parameter of that type from the query string;
* the audit row of an upload takes a key made of the file (uploads.py:53), so that a second upload
  of one file would fail after its lines were committed; no upload gets that far;
* POST /accuracy/benchmark commits its row and then validates it with a schema that does not
  read attributes (main.py:173, schemas.py:221), so it fails after the commit.

### Fairness

In `RunService`, `Ingestion`, `Tax` and `Administration`: while some request that is being served
can go on, one of them does (`WF_vars(\E r : Serve(r))`), and in `Ingestion` the worker goes on
beside them (`Work`). A process that is running executes its next statement, and a statement that
PostgreSQL lets wait is resumed when what it waits for has ended; nothing more is needed, since each
request takes finitely many steps. The liveness property has the form "again and again every request
that arrived has ended". `Mutations` and `RunButton` have fairness for each edit and each chain, as
a process or a timer of its own. Nothing is assumed about arrivals, ingestion of further lines, or
crashes. `Serve` includes the failures, so fairness never chooses success. `EveryDeliveryEnds` rests
on the database's deadlock detector (so does `EveryRequestEnds` of `Tax`), `AnsweredIsSeen` on the
worker not dying with a task (`lost`): Celery acknowledges early here, and nothing enqueues again.
`EveryClickEnds` assumes that timers fire and that the browser answers or fails each fetch in the
end (the code sets no timeout of its own); users need not click, leave, return or log in.

## What is proved

The theorems of `ReconciliationProofs`, `RunServiceProofs`, `IngestionProofs`, `MutationsProofs`,
`TaxProofs`, `RunButtonProofs`, `CopilotProofs` and `AdministrationProofs`; `PROJECT.json` lists the main ones.
They state every invariant that a run checks, but `GeneratedAsExpected`.

**Engine**, for every input sequence and every configuration. The type invariant is
inductive. The safety properties are not: the inductive invariant `Safety` joins them
with `Taken`, that the used ids are exactly those of the matches so far, which
makes "not available" mean "in an earlier match". Each property has a lemma that a
step of the loop preserves it, over two descriptions of a step: `RaisingBranches` (a branch
appends one exception and changes nothing else) and `MatchStep`.
`ReviewIsTierThree` needs arithmetic about the scores (`TierTwoBand`, `TierThreeBand`):
it holds for every tolerance and window when the acceptance
threshold is at most 0.900 and the similarity floor at least 0.500, which the defaults
meet with equality. `LoopImplementsAssignment` maps matches, exceptions and
compatible ids to the abstract assignment.

What is about the whole input needs induction over it. The library's induction theorems take an
operator, so `Induction` is stated for a *set* of numbers and proved from well-founded recursion
(`LeastNatural`); `DecidedUnfolds` is the recursive equation of the function in `Engine`. With the
invariant `Computed` (after each iteration the loop's lists are the function's), this gives
`LoopIsFunction`. `OrderIsIrrelevant` covers any number of right records, repeated ids included: a
permutation of the positions takes candidates to candidates (`CandidatesReordered`), a sole one to
the sole one, and a reason code only asks what exists (`ClassifyReordered`). `BenchmarkIsNoStricter`
needs no induction: a match was a candidate of its left record, and a candidate in a run is one
alone (`AloneIsCompatible`); for the converse it is `NothingForced` and `ContestsAreReal` that leave
a left record with one partner, whom no other wants, no way but to be matched.

`EveryCallAccounts` is what those who store a result count on, of the function itself and for inputs
of any length: one decision for each left record and about no other id, no right id matched twice,
each match of two records that qualify. It goes by `Induction` along `DecidedUnfolds`.

**Run service**, for every ledger and any number of calls. `IInv` is a
conjunction over the calls of what is true of each at its `pc`. Its heart is
`PendingIsNew` and `OneWriterPerKey`: rows are pending only for a key that is not
committed, and for each key by one call, so that publishing them can neither
replace a run nor lose one. `AnswerIsEarned` connects answers to the pending or
committed rows, `AllIsCovered` follows the ids a call for everything has collected: each SELECT takes the lines
of its sources, which `Covers` says of the whole. A step
of one call preserves its own part; that of the others is preserved by `Bystander`, since
`runs` only ever grows. From it follow `RunsWhole`, `HistoryKept`,
`AnswersOnFile` and `AllCovered`.

`ServiceImplementsArchive` maps each step to a step of `Archive` or to none. `LeaveScope` of a call
that owns its transaction, and `Return` of one whose caller commits, publish its rows, which is
`File` (`PublishFiles`): that the name is not on file yet is `PendingIsNew`. `Return` is `Tell`, in
the same step where it also publishes (`ReturnTells`): that the answer is what is on file is
`AnswerIsEarned`. Conflicts, missing rows, a lag that does not fit and crashes are `Fail`. Every
other step of a call is `Ask`, which changes the name that is asked for, while ids are being
collected, or nothing.

`StoredRunsAreTheEngines` ties the two components: the rows of every committed run are `Reconcile`
of two lists of ledger records, and the ids of those lists are the key. With `EveryCallAccounts`,
which holds of every such call, a stored run has one row for each line it covers (or for each time
the line was listed), no gateway line matched twice, and nothing that was not asked about. (The two
theorems are in two modules because both components name some of their things alike.)

**Ingestion**, for any set of requests, lines, contents and batches. `BatchesAreAtomic` and
`AcceptedIsStored` rest on the keys: the rows of an open transaction are keys that are not committed
and that no other open transaction has, so that its commit adds rows and replaces none, and what it
reports is either stored or among them. `ActivityIsComplete` follows from the agreement of `calls`,
`activity` and the place of each request: they differ only by the call that is being recorded, or
that was never recorded because the request ended. `AnsweredIsScheduled` needs that `seen` only has
stored lines and that the worker's counters lose nothing without `lost`.

**Tax**, for any ledger and any number of requests. `LearnedIsCorrected` is not inductive:
that a listing's commit replaces no corrected row follows from `OneWriterPerKey`, that no row
it has inserted has the key of a committed one or of another listing's, and that a
correction which writes no status finds its row corrected follows from `Memory`, that a
row which was read as corrected stays so. `Coherent` (a label that was corrected is of a corrected
row) covers the correction that writes no label: there is an earlier example with that label.
`Bystander` says that a step of one request, as rows only come and only become
corrected, keeps this of the others.

`ListingsAreCurrent` has an invariant of its own, `Histories`, on top of that one: at each place of a
listing, the lines stored when it began are classified, among its own uncommitted rows, or among
those it is still to insert (`Current`), and corrections made by then are seen as corrected.

**Mutations**, for any edits, rows and patches. The four properties hold together or not at all:
`LastChangeStands` and `PreviousWasTrue` are both about `IsAfter`, a row's state after the first n
commits of the log, and carry over a commit of another field because an UPDATE names only what
changed. Between reading and committing, what an edit has read is the row after some number of
commits (`Carries`), its own commit adds what it writes (`InFlight`), and an edit that has not ended
is not in the log (`Unended`). That a row
was changed after it was read is allowed by all of this, as the code allows it.

**Nobody is stuck** (all but the copilot and the button, whose requests do not wait for each other).
Requests wait for each other's keys and rows, so that liveness rests on one of them being able to go on. That is proved, for any
number of them, any batches and any order of keys: unless nobody is being served, the guard of some
step of some request is true. The guards are written out (`CanServe`), as ENABLED is out of the
prover's reach; those of each module are read off the disjuncts of its `Serve`. In the run service a
call waits only for the key of a call that has inserted it, and that one waits for nobody; so it is
with a row that is edited, an email and a setting. In
ingestion and tax it can be that everyone waits; then some of them wait for each other (`Knot`: a
smallest group each of which waits for a member, found by well-foundedness of inclusion of finite
sets), and `DeadlockVictim` may fail one. That finitely many requests are open at a time is an
invariant there, not an assumption.

**Every step counts** (all but the copilot, whose questions go through a few phases in one order).
The other half of what liveness rests on is that nobody goes on for ever. For each component a
number of steps that are left (`StepsLeft`, `CallbacksLeft`) is defined from where a request is, and
the theorem, an action property, says that each of its own steps lowers it, and that no step of
anybody else changes it: nothing in this code reads again, tries again or starts over, whatever it
loses. So a call takes at most seven steps, an edit three, a request on users or settings four, a
listing as many as there are lines and four, a click 2 * `MAX_POLLS` + 4. Two of these need an
argument. An ingestion is as long as its batch, and the rows that are left (`Remaining`) are counted
by position, as one INSERT can settle several records of one key (`RowCounts`). A failed poll sets a
new timer, and what it uses up is the poll count: that no other click resets the count of a chain that
goes on is `OneChainEach` (`CountsApart`), and that a timer never fires past the poll that gives up,
whose guard is an equality, is `ChainsGoOn`.

With both halves, what is left of liveness to a fair scheduler is that it chooses somebody.

**Run button**, for any number of clicks, visits and polls. The button shows only the chains
of its own instance, but the invariant must speak of the others: `OneChainEach`, that an
instance has one chain also after it was unmounted, and `NoneAhead`, that no chain is of an instance
to come. So opening the page finds no chain of its own, and a stale one never gets another.

**Copilot**, for any number of questions, exceptions and terms. `Observed` says that what is unresolved now has
been seen while a question is served, so that what either retrieval finds is of one moment (`WasTrue`),
and `Heeds` that both find an exception that fits, if every moment has one that is certain to be
taken. That it is taken is the one lemma about numbers, `NewestIsComplete`: with one of those left
out, the retrieval would have room for it, and so would have everything. `Kept`
has the stored query for each place.

**Administration**, for any requests, emails, roles and values. The database only grows: users stay,
and the values of a key are a history. So what a request found when it arrived is still there
(`BeganEarlier`), what it read was written since (`Setting`), and a step of one request takes
nothing of that from the others (`Bystander`). The one conjunct about two requests is `OneHolder`:
no two of them are about to commit, or have committed, a user of one email, so that a commit replaces
no user.

Assumptions: there is a poll and a visit, the lines are finitely many, the reference constant for
"none" is no reference, the configuration is natural numbers (tolerance positive), inputs are
sequences of records, the ledger is finite and each line's record has its id, requests are lists of
ids, batches are sequences of records, reported matches and exceptions are rows of their tables (a
new exception has no `resolved_at`), patches assign what the schema admits, NULL is no edit, the
exceptions are finitely many, bank and gateway lines are different lines, there is a question and a
retrieval takes at least one exception. TLC evaluates all of them.

Only model-checked: liveness, since fairness and ENABLED are out of the prover's reach (the six
properties "every ... ends" and `AnsweredIsSeen`; that nobody is stuck and that every step counts is
their safety part), and `GeneratedAsExpected`, which is about three given workloads and computes
them.

A note for those who go on: nothing that a proof expands is written with a `CASE` expression. The
prover's SMT translation of an equality between two such expressions of three arms or more lets
through ones that are false; with `IF` and implications it does not.

## What is not modelled

* **Forecast.** No route persists a projection (only the seed script stores one), so that requests
  change no state; the projection is one formula over what `RunService` stores.
* **Exports, web pages** other than the run button: they read rows and lay them out.
* **Migrations, configuration, schemas and tables**: declarations. The constraints that matter
  (primary and foreign keys, column widths, what a session has begun) are in the modules that meet
  them.
* **Login**: changes no state; password hashing and token formats are left out. A token is of a
  committed user or refused.
* The fixture of thirty cases in `synthetic.py` (test data); the rates, the layout and the row of a
  benchmark; the rates and breakdowns of a run's summary, and its count of matches that need a review,
  which is of the statuses that `override_match` changes; filters and pages of listings.
* Wording, logging, response formats. PostgreSQL is modelled by what the code relies
  on: READ COMMITTED, unique keys with waiting, row locks, deadlock detection and rollback. uuid5 is
  taken to be injective. The engine's constants are the defaults of
  `MatcherConfig`: no caller passes another configuration, and the stored settings are
  read by no run.
* **Ingestion and the run service in one module.** They meet in two places only: the committed
  lines, which `RunService` lets grow at any moment (`FirstWriteWins` is what it relies on), and the
  task, which `Ingestion` follows until it SELECTs and `RunService` from there on (a call via
  `all`). Since no `reconcile.all` task ever stores its run, there is nothing a composed module could promise beyond
  the two.

## Plan

Done: every module above; a theorem for each invariant and each safety action property that a run
checks, but `GeneratedAsExpected`; both refinements; deadlock freedom wherever requests wait for each
other; a measure that every step decreases wherever the number of steps is not plain.

What would be next:

1. The forecast as a pure function of what `RunService` stores, should a route ever persist one.
2. A composition of `Ingestion` and `RunService`, should `reconcile.all` ever store its run: then
   that an accepted line of a bank, ledger or gateway is in the end part of a stored run is worth stating.
3. The liveness properties themselves, with a prover that has ENABLED: from `SomeoneGoesOn`, the
   measures and weak fairness.
