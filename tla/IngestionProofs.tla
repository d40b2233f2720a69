-------------------------- MODULE IngestionProofs --------------------------
(***************************************************************************)
(* Theorems about ingestion, for any number of requests, any ledger and    *)
(* any batches.  What makes a batch atomic and its rows final although the *)
(* SELECT of the known keys is out of date when the rows are inserted: the *)
(* rows an open transaction has inserted are of keys nobody has committed, *)
(* and of keys no other open transaction has inserted.                     *)
(***************************************************************************)
EXTENDS Ingestion, FiniteSetTheorems, TLAPS

\* Where a request is tells what it has asked of the provider and what of
\* that is on record.
Pulled(d) ==
    via[d] \in {"pull", "payment"} =>
        /\ Len(activity[d]) = Len(calls[d])
        /\ LastCall(d) = <<"settlements.pull", "ok">>

Provider(d) ==
    /\ Len(calls[d]) <= Len(Operations[via[d]])
    /\ \A k \in 1..Len(calls[d]) : calls[d][k][1] = Operations[via[d]][k]
    /\ \A k \in 1..Len(activity[d]) : activity[d][k] = calls[d][k]
    /\ pc[d] \notin {"record", "ended"} => Len(activity[d]) = Len(calls[d])
    /\ pc[d] = "record" => Len(activity[d]) + 1 = Len(calls[d])
    /\ pc[d] = "ended" =>
          \/ Len(activity[d]) = Len(calls[d])
          \/ /\ Len(activity[d]) + 1 = Len(calls[d])
             /\ outcome[d] = "crashed" \/ LastCall(d)[2] = "raised"
    /\ pc[d] = "idle" => Len(calls[d]) = 0
    /\ pc[d] = "call" => Len(calls[d]) < Len(Operations[via[d]])
    /\ pc[d] = "answer" => via[d] = "list"
    /\ pc[d] \in {"begin", "insert", "enqueue"} => Pulled(d)

\* What a request has reported and inserted, against the ledger.
Rows(d) ==
    /\ pc[d] = "ended" <=> outcome[d] # "none"
    /\ via[d] = "list" => batch[d] = <<>>
    /\ pc[d] \in {"idle", "call", "record", "answer", "begin"} => DOMAIN accepted[d] = {}
    /\ pc[d] # "insert" => open[d] = {}
    /\ open[d] \cap DOMAIN ledger = {}
    /\ open[d] \subseteq DOMAIN accepted[d]
    /\ DOMAIN accepted[d] \subseteq KeysOf(batch[d])
    /\ \A line \in DOMAIN accepted[d] : accepted[d][line] \in Body
    /\ pc[d] = "insert" \/ Committed(d) =>
          \A line \in DOMAIN accepted[d] \ open[d] :
              line \in DOMAIN ledger /\ ledger[line].body = accepted[d][line]
    /\ Committed(d) => DOMAIN accepted[d] = KeysOf(batch[d])

\* The unique key: what is not committed is of one transaction.
OneWriterPerKey == \A d, e \in Delivery : d # e => open[d] \cap open[e] = {}

\* A row tells of a request that committed its whole batch.
Whole(line) ==
    LET d == ledger[line].by
    IN  /\ pc[d] \in {"enqueue", "ended"}
        /\ line \in KeysOf(batch[d])
        /\ KeysOf(batch[d]) \subseteq DOMAIN ledger
        /\ Pulled(d)

IInv ==
    /\ TypeOK
    /\ \A d \in Delivery : Provider(d) /\ Rows(d)
    /\ OneWriterPerKey
    /\ \A line \in DOMAIN ledger : Whole(line)
    /\ AnsweredIsScheduled

LEMMA OperationsOf ==
    /\ Operations["webhook"] = <<>> /\ Operations["upload"] = <<>>
    /\ Operations["list"] = <<"list">>
    /\ Operations["pull"] = <<"settlements.pull">>
    /\ Operations["payment"] = <<"create_order", "create_payment", "settlements.pull">>
BY DEF Operations

LEMMA BatchType ==
    ASSUME TypeOK, NEW d \in Delivery
    PROVE  batch[d] \in Seq(Record)
<1>1. batch[d] \in Batch \cup {<<>>}
  BY DEF TypeOK
<1>2. <<>> \in Seq(Record)
  OBVIOUS
<1> QED
  BY <1>1, <1>2, BatchesAreOfRecords

LEMMA InitInv == Init => IInv
<1> SUFFICES ASSUME Init PROVE IInv
  OBVIOUS
<1>1. TypeOK
  <2>1. <<>> \in Seq(Call)
    OBVIOUS
  <2>2. calls \in [Delivery -> Seq(Call)] /\ activity \in [Delivery -> Seq(Call)]
    BY <2>1 DEF Init
  <2> QED
    BY <2>2 DEF Init, TypeOK, Empty, Via
<1>2. ASSUME NEW d \in Delivery PROVE Provider(d)
  BY OperationsOf DEF Init, Provider
<1>3. ASSUME NEW d \in Delivery PROVE Rows(d)
  BY DEF Init, Rows, Empty, Committed
<1>4. OneWriterPerKey /\ AnsweredIsScheduled
  BY DEF Init, OneWriterPerKey, AnsweredIsScheduled
<1>5. \A line \in DOMAIN ledger : Whole(line)
  BY DEF Init, Empty
<1> QED
  BY <1>1, <1>2, <1>3, <1>4, <1>5 DEF IInv

-----------------------------------------------------------------------------
(* Steps of one request *)

OthersStay(d) ==
    \A e \in Delivery \ {d} :
        /\ pc'[e] = pc[e] /\ via'[e] = via[e] /\ batch'[e] = batch[e]
        /\ accepted'[e] = accepted[e] /\ open'[e] = open[e]
        /\ outcome'[e] = outcome[e]
        /\ calls'[e] = calls[e] /\ activity'[e] = activity[e]

LEMMA Bystander ==
    ASSUME IInv, NEW d \in Delivery, OthersStay(d), NEW e \in Delivery \ {d}
    PROVE  /\ Provider(e)'
           /\ ledger' = ledger => Rows(e)'
           /\ Pulled(e) => Pulled(e)'
           /\ KeysOf(batch'[e]) = KeysOf(batch[e])
<1>1. /\ pc'[e] = pc[e] /\ via'[e] = via[e] /\ batch'[e] = batch[e]
      /\ accepted'[e] = accepted[e] /\ open'[e] = open[e]
      /\ outcome'[e] = outcome[e]
      /\ calls'[e] = calls[e] /\ activity'[e] = activity[e]
  BY DEF OthersStay
<1>2. Provider(e) /\ Rows(e)
  BY DEF IInv
<1>3. Pulled(e)' <=> Pulled(e)
  BY <1>1 DEF Pulled, LastCall
<1>4. Provider(e)'
  BY <1>1, <1>2, <1>3 DEF Provider, LastCall
<1>5. ASSUME ledger' = ledger PROVE Rows(e)'
  BY <1>1, <1>2, <1>5 DEF Rows, Committed
<1> QED
  BY <1>1, <1>3, <1>4, <1>5

\* What is left to show of a request's step that writes no ledger line.
LEMMA QuietKeeps ==
    ASSUME IInv, NEW d \in Delivery, OthersStay(d), ledger' = ledger,
           TypeOK', Provider(d)', Rows(d)', open'[d] \subseteq open[d],
           pc[d] \in {"enqueue", "ended"} =>
               /\ pc'[d] \in {"enqueue", "ended"}
               /\ batch'[d] = batch[d] /\ via'[d] = via[d]
               /\ calls'[d] = calls[d] /\ activity'[d] = activity[d],
           AnsweredIsScheduled'
    PROVE  IInv'
<1>1. \A e \in Delivery : Provider(e)' /\ Rows(e)'
  BY Bystander
<1>2. OneWriterPerKey'
  BY DEF IInv, OneWriterPerKey, OthersStay
<1>3. ASSUME NEW line \in DOMAIN ledger PROVE Whole(line)'
  <2>1. Whole(line) /\ ledger[line].by \in Delivery
    BY DEF IInv, TypeOK
  <2>2. CASE ledger[line].by = d
    BY <2>1, <2>2 DEF Whole, Pulled, LastCall
  <2>3. CASE ledger[line].by # d
    BY <2>1, <2>3, Bystander DEF Whole, OthersStay
  <2> QED
    BY <2>2, <2>3
<1> QED
  BY <1>1, <1>2, <1>3 DEF IInv

LEMMA ScheduleKeeps ==
    ASSUME IInv, NEW d \in Delivery, OthersStay(d), UNCHANGED queueVars,
           outcome'[d] = "ok" =>
               KeysOf(batch'[d]) \subseteq seen \/ queue + tasks > 0 \/ lost
    PROVE  AnsweredIsScheduled'
<1>1. ASSUME NEW e \in Delivery \ {d}, outcome'[e] = "ok"
      PROVE  KeysOf(batch'[e]) \subseteq seen \/ queue + tasks > 0 \/ lost
  BY <1>1, Bystander DEF IInv, AnsweredIsScheduled, OthersStay
<1> QED
  BY <1>1 DEF AnsweredIsScheduled, queueVars

\* A request that ends without a commit: its rows are gone, and of its calls
\* at most the last one is not on record.
LEMMA EndStep ==
    ASSUME IInv, NEW d \in Delivery, NEW how \in {"order", "refused", "error", "crashed"},
           pc[d] \notin {"idle", "ended"}, End(d, how),
           UNCHANGED <<providerVars, queueVars>>,
           pc[d] = "record" => how = "crashed" \/ LastCall(d)[2] = "raised"
    PROVE  IInv'
<1>1. Provider(d) /\ Rows(d) /\ TypeOK
  BY DEF IInv
<1>2. /\ pc' = [pc EXCEPT ![d] = "ended"] /\ outcome' = [outcome EXCEPT ![d] = how]
      /\ open' = [open EXCEPT ![d] = {}]
      /\ UNCHANGED <<ledger, accepted, via, session, batch, calls, activity,
                     queue, tasks, seen, lost>>
  BY DEF End, providerVars, queueVars
<1>3. TypeOK'
  BY <1>1, <1>2 DEF TypeOK
<1>4. OthersStay(d)
  BY <1>1, <1>2 DEF TypeOK, OthersStay
<1>5. pc'[d] = "ended" /\ outcome'[d] = how /\ open'[d] = {}
  BY <1>1, <1>2 DEF TypeOK
<1>6. Provider(d)'
  BY <1>1, <1>2, <1>5 DEF Provider, LastCall, Pulled
<1>7. Rows(d)'
  BY <1>1, <1>2, <1>5 DEF Rows, Committed
<1>8. AnsweredIsScheduled'
  BY <1>2, <1>4, <1>5, ScheduleKeeps DEF queueVars
<1> QED
  BY <1>2, <1>3, <1>4, <1>5, <1>6, <1>7, <1>8, QuietKeeps

LEMMA RaiseStep ==
    ASSUME IInv, NEW d \in Delivery, NEW how \in {"refused", "error"},
           pc[d] \notin {"idle", "ended"}, Raise(d, how),
           UNCHANGED <<providerVars, queueVars>>,
           pc[d] = "record" => LastCall(d)[2] = "raised"
    PROVE  IInv'
<1>1. PICK end \in {"order", how} : End(d, end)
  BY DEF Raise
<1> QED
  BY <1>1, EndStep

LEMMA ArriveStep ==
    ASSUME IInv, NEW d \in Delivery, Arrive(d)
    PROVE  IInv'
<1>1. Provider(d) /\ Rows(d) /\ TypeOK
  BY DEF IInv
<1>2. PICK how \in Via, records \in Batch :
         /\ via' = [via EXCEPT ![d] = how]
         /\ batch' = [batch EXCEPT ![d] = IF how = "list" THEN <<>> ELSE records]
         /\ session' = [session EXCEPT ![d] =
               IF how = "webhook" THEN "fresh" ELSE "autobegun"]
         /\ pc' = [pc EXCEPT ![d] = IF Operations[how] = <<>> THEN "begin" ELSE "call"]
  BY DEF Arrive
<1>3. pc[d] = "idle" /\ UNCHANGED <<ledger, accepted, open, outcome, calls, activity,
                                    queue, tasks, seen, lost>>
  BY DEF Arrive, rowVars, providerVars, queueVars
<1>4. TypeOK'
  BY <1>1, <1>2, <1>3 DEF TypeOK
<1>5. OthersStay(d)
  BY <1>1, <1>2, <1>3 DEF TypeOK, OthersStay
<1>6. /\ pc'[d] = (IF Operations[how] = <<>> THEN "begin" ELSE "call")
      /\ via'[d] = how
      /\ how = "list" => batch'[d] = <<>>
  BY <1>1, <1>2 DEF TypeOK
<1>7. Provider(d)'
  <2>1. Len(calls[d]) = 0 /\ Len(activity[d]) = 0
    BY <1>1, <1>3 DEF Provider
  <2>2. /\ pc'[d] = "begin" => how \in {"webhook", "upload"}
        /\ pc'[d] = "call" => 0 < Len(Operations[how])
        /\ 0 <= Len(Operations[how]) /\ pc'[d] \in {"begin", "call"}
    <3>1. CASE how \in {"webhook", "upload"}
      BY <1>6, <3>1, OperationsOf
    <3>2. CASE how = "list"
      BY <1>6, <3>2, OperationsOf
    <3>3. CASE how = "pull"
      BY <1>6, <3>3, OperationsOf
    <3>4. CASE how = "payment"
      BY <1>6, <3>4, OperationsOf
    <3> QED
      BY <3>1, <3>2, <3>3, <3>4 DEF Via
  <2> QED
    BY <1>3, <1>6, <2>1, <2>2 DEF Provider, Pulled
<1>8. Rows(d)'
  <2>1. DOMAIN accepted[d] = {} /\ open[d] = {} /\ outcome[d] = "none"
    BY <1>1, <1>3 DEF Rows
  <2> QED
    BY <1>3, <1>6, <2>1 DEF Rows, Committed
<1>9. AnsweredIsScheduled'
  <2>1. outcome'[d] # "ok"
    BY <1>1, <1>3 DEF Rows
  <2> QED
    BY <1>3, <1>5, <2>1, ScheduleKeeps DEF queueVars
<1> QED
  BY <1>3, <1>4, <1>5, <1>7, <1>8, <1>9, QuietKeeps

LEMMA CallProviderStep ==
    ASSUME IInv, NEW d \in Delivery, CallProvider(d)
    PROVE  IInv'
<1>1. Provider(d) /\ Rows(d) /\ TypeOK
  BY DEF IInv
<1>2. PICK exchange \in Exchange :
         calls' = [calls EXCEPT ![d] =
             Append(@, <<Operations[via[d]][Len(@) + 1], ClientResult(exchange)>>)]
  BY DEF CallProvider
<1>3. /\ pc[d] = "call" /\ pc' = [pc EXCEPT ![d] = "record"]
      /\ UNCHANGED <<ledger, accepted, open, via, session, batch, outcome, activity,
                     queue, tasks, seen, lost>>
  BY DEF CallProvider, rowVars, queueVars
<1> DEFINE call == <<Operations[via[d]][Len(calls[d]) + 1], ClientResult(exchange)>>
<1>4. call \in Call
  <2>1. via[d] \in Via /\ Len(calls[d]) \in Nat /\ Len(calls[d]) < Len(Operations[via[d]])
    BY <1>1, <1>3 DEF TypeOK, Provider
  <2>2. Operations[via[d]][Len(calls[d]) + 1]
           \in {"list", "settlements.pull", "create_order", "create_payment"}
    BY SMTT(40), <2>1, OperationsOf DEF Via
  <2>3. ClientResult(exchange) \in {"ok", "error", "raised"}
    BY DEF ClientResult
  <2> QED
    BY <2>2, <2>3 DEF Call
<1>5. calls[d] \in Seq(Call) /\ calls'[d] = Append(calls[d], call)
  BY <1>1, <1>2 DEF TypeOK
<1>6. TypeOK'
  <2>1. Append(calls[d], call) \in Seq(Call)
    BY <1>4, <1>5
  <2>2. calls' \in [Delivery -> Seq(Call)]
    BY <1>1, <1>2, <2>1 DEF TypeOK
  <2> QED
    BY <1>1, <1>3, <2>2 DEF TypeOK
<1>7. OthersStay(d)
  BY <1>1, <1>2, <1>3 DEF TypeOK, OthersStay
<1>8. pc'[d] = "record"
  BY <1>1, <1>3 DEF TypeOK
<1>9. Provider(d)'
  <2>1. /\ Len(calls'[d]) = Len(calls[d]) + 1 /\ Len(calls[d]) \in Nat
        /\ \A k \in 1..Len(calls[d]) : calls'[d][k] = calls[d][k]
        /\ calls'[d][Len(calls[d]) + 1] = call
    BY <1>4, <1>5
  <2>2. Len(calls'[d]) <= Len(Operations[via[d]])
    <3>1. Len(Operations[via[d]]) \in Nat
      BY <1>1, OperationsOf DEF TypeOK, Via
    <3> QED
      BY <1>1, <1>3, <2>1, <3>1 DEF Provider
  <2>3. \A k \in 1..Len(calls'[d]) : calls'[d][k][1] = Operations[via[d]][k]
    <3>1. call[1] = Operations[via[d]][Len(calls[d]) + 1]
      OBVIOUS
    <3>2. \A k \in 1..Len(calls[d]) : calls[d][k][1] = Operations[via[d]][k]
      BY <1>1 DEF Provider
    <3> HIDE DEF call
    <3>3. ASSUME NEW k \in 1..Len(calls'[d])
          PROVE  calls'[d][k][1] = Operations[via[d]][k]
      <4>1. k \in 1..Len(calls[d]) \/ k = Len(calls[d]) + 1
        BY <2>1
      <4> QED
        BY <2>1, <3>1, <3>2, <4>1
    <3> QED
      BY <3>3
  <2>4. /\ \A k \in 1..Len(activity[d]) : activity[d][k] = calls'[d][k]
        /\ Len(activity[d]) + 1 = Len(calls'[d])
    BY <1>1, <1>3, <2>1 DEF Provider
  <2> QED
    BY <1>3, <1>8, <2>2, <2>3, <2>4 DEF Provider
<1>10. Rows(d)'
  BY <1>1, <1>3, <1>8 DEF Rows, Committed
<1>11. AnsweredIsScheduled'
  <2>1. outcome'[d] # "ok"
    BY <1>1, <1>3 DEF Rows
  <2> QED
    BY <1>3, <1>7, <2>1, ScheduleKeeps DEF queueVars
<1> QED
  BY <1>3, <1>6, <1>7, <1>9, <1>10, <1>11, QuietKeeps

\* record_activity after a call that was answered, or one that failed.
LEMMA Recorded ==
    ASSUME IInv, NEW d \in Delivery, pc[d] = "record",
           activity' = [activity EXCEPT ![d] = Append(@, LastCall(d))],
           UNCHANGED <<via, calls>>
    PROVE  /\ activity' \in [Delivery -> Seq(Call)]
           /\ Len(activity'[d]) = Len(calls[d])
           /\ \A k \in 1..Len(activity'[d]) : activity'[d][k] = calls[d][k]
<1>1. Provider(d) /\ TypeOK
  BY DEF IInv
<1>2. /\ calls[d] \in Seq(Call) /\ activity[d] \in Seq(Call)
      /\ Len(activity[d]) \in Nat /\ Len(calls[d]) = Len(activity[d]) + 1
  BY <1>1 DEF TypeOK, Provider
<1>3. LastCall(d) \in Call
  BY <1>2 DEF LastCall
<1>4. Append(activity[d], LastCall(d)) \in Seq(Call)
  BY <1>2, <1>3
<1>5. activity' \in [Delivery -> Seq(Call)] /\ activity'[d] = Append(activity[d], LastCall(d))
  BY <1>1, <1>4 DEF TypeOK
<1>6. \A k \in 1..Len(activity[d]) : activity'[d][k] = calls[d][k]
  BY <1>1, <1>2, <1>3, <1>5 DEF Provider
<1>7. activity'[d][Len(activity[d]) + 1] = calls[d][Len(calls[d])]
  BY <1>2, <1>3, <1>5 DEF LastCall
<1> QED
  BY <1>2, <1>3, <1>5, <1>6, <1>7

LEMMA RecordAnswerStep ==
    ASSUME IInv, NEW d \in Delivery, RecordAnswer(d)
    PROVE  IInv'
<1>1. Provider(d) /\ Rows(d) /\ TypeOK
  BY DEF IInv
<1> DEFINE place == IF LastCall(d)[1] = "settlements.pull" THEN "begin"
                    ELSE IF LastCall(d)[1] = "list" THEN "answer" ELSE "call"
<1>2. /\ pc[d] = "record" /\ LastCall(d)[2] = "ok"
      /\ activity' = [activity EXCEPT ![d] = Append(@, LastCall(d))]
      /\ session' = [session EXCEPT ![d] = "fresh"]
      /\ pc' = [pc EXCEPT ![d] = place]
      /\ UNCHANGED <<ledger, accepted, open, via, batch, outcome, calls,
                     queue, tasks, seen, lost>>
  BY DEF RecordAnswer, rowVars, queueVars
<1>3. /\ activity' \in [Delivery -> Seq(Call)]
      /\ Len(activity'[d]) = Len(calls[d])
      /\ \A k \in 1..Len(activity'[d]) : activity'[d][k] = calls[d][k]
  BY <1>2, Recorded
<1>4. TypeOK'
  BY <1>1, <1>2, <1>3 DEF TypeOK
<1>5. OthersStay(d)
  BY <1>1, <1>2 DEF TypeOK, OthersStay
<1>6. pc'[d] = place /\ place \in {"begin", "answer", "call"}
  BY <1>1, <1>2 DEF TypeOK
<1>7. LastCall(d)[1] = Operations[via[d]][Len(calls[d])]
      /\ Len(calls[d]) \in 1..Len(Operations[via[d]])
  <2>1. Len(calls[d]) \in Nat /\ Len(activity[d]) \in Nat
    BY <1>1 DEF TypeOK
  <2>2. Len(Operations[via[d]]) \in Nat
    BY <1>1, OperationsOf DEF TypeOK, Via
  <2> QED
    BY SMTT(40), <1>1, <1>2, <2>1, <2>2 DEF Provider, LastCall
<1>8. /\ place = "answer" => via[d] = "list"
      /\ place = "call" => Len(calls[d]) < Len(Operations[via[d]])
  <2>1. CASE via[d] \in {"webhook", "upload"}
    BY <1>7, <2>1, OperationsOf
  <2>2. CASE via[d] = "list"
    BY <1>7, <2>2, OperationsOf
  <2>3. CASE via[d] = "pull"
    BY <1>7, <2>3, OperationsOf
  <2>4. CASE via[d] = "payment"
    BY <1>7, <2>4, OperationsOf
  <2> QED
    BY <1>1, <2>1, <2>2, <2>3, <2>4 DEF TypeOK, Via
<1>9. place = "begin" => LastCall(d) = <<"settlements.pull", "ok">>
  <2>1. LastCall(d) \in Call
    BY <1>1, <1>7 DEF TypeOK, LastCall
  <2> QED
    BY <1>2, <2>1 DEF Call
<1>10. Provider(d)'
  <2>1. LastCall(d)' = LastCall(d)
    BY <1>2 DEF LastCall
  <2>2. Pulled(d)' \/ place # "begin"
    BY <1>3, <1>2, <1>9, <2>1 DEF Pulled
  <2> QED
    BY <1>1, <1>2, <1>3, <1>6, <1>8, <2>2 DEF Provider
<1>11. Rows(d)'
  BY <1>1, <1>2, <1>6 DEF Rows, Committed
<1>12. AnsweredIsScheduled'
  <2>1. outcome'[d] # "ok"
    BY <1>1, <1>2 DEF Rows
  <2> QED
    BY <1>2, <1>5, <2>1, ScheduleKeeps DEF queueVars
<1> QED
  BY <1>2, <1>4, <1>5, <1>10, <1>11, <1>12, QuietKeeps

LEMMA RecordErrorStep ==
    ASSUME IInv, NEW d \in Delivery, RecordError(d)
    PROVE  IInv'
<1>1. Provider(d) /\ Rows(d) /\ TypeOK
  BY DEF IInv
<1>2. PICK how \in {"order", "error"} : End(d, how)
  BY DEF RecordError, Raise
<1>3. /\ pc[d] = "record"
      /\ activity' = [activity EXCEPT ![d] = Append(@, LastCall(d))]
      /\ pc' = [pc EXCEPT ![d] = "ended"] /\ outcome' = [outcome EXCEPT ![d] = how]
      /\ open' = [open EXCEPT ![d] = {}]
      /\ UNCHANGED <<ledger, accepted, via, session, batch, calls,
                     queue, tasks, seen, lost>>
  BY <1>2 DEF RecordError, End, queueVars
<1>4. /\ activity' \in [Delivery -> Seq(Call)]
      /\ Len(activity'[d]) = Len(calls[d])
      /\ \A k \in 1..Len(activity'[d]) : activity'[d][k] = calls[d][k]
  BY <1>3, Recorded
<1>5. TypeOK'
  BY <1>1, <1>3, <1>4 DEF TypeOK
<1>6. OthersStay(d)
  BY <1>1, <1>3 DEF TypeOK, OthersStay
<1>7. pc'[d] = "ended" /\ outcome'[d] = how /\ open'[d] = {}
  BY <1>1, <1>3 DEF TypeOK
<1>8. Provider(d)'
  BY <1>1, <1>3, <1>4, <1>7 DEF Provider
<1>9. Rows(d)'
  BY <1>1, <1>3, <1>7 DEF Rows, Committed
<1>10. AnsweredIsScheduled'
  BY <1>3, <1>6, <1>7, ScheduleKeeps DEF queueVars
<1> QED
  BY <1>3, <1>5, <1>6, <1>7, <1>8, <1>9, <1>10, QuietKeeps

\* A request that is answered as done: a list, or a batch that was committed
\* and enqueued for.
LEMMA AnswerStep ==
    ASSUME IInv, NEW d \in Delivery, AnswerList(d) \/ Enqueue(d)
    PROVE  IInv'
<1>1. Provider(d) /\ Rows(d) /\ TypeOK
  BY DEF IInv
<1>2. /\ pc[d] \in {"answer", "enqueue"}
      /\ pc' = [pc EXCEPT ![d] = "ended"] /\ outcome' = [outcome EXCEPT ![d] = "ok"]
      /\ open' = [open EXCEPT ![d] = {}]
      /\ UNCHANGED <<ledger, accepted, via, session, batch, calls, activity,
                     tasks, seen, lost>>
      /\ queue' \in {queue, queue + 1}
      /\ pc[d] = "enqueue" => queue' = queue + 1
  BY DEF AnswerList, Enqueue, End, providerVars, queueVars
<1>3. queue \in Nat /\ tasks \in Nat
  BY <1>1 DEF TypeOK
<1>4. TypeOK'
  <2>1. queue' \in Nat
    BY <1>2, <1>3
  <2> QED
    BY <1>1, <1>2, <2>1 DEF TypeOK
<1>5. OthersStay(d)
  BY <1>1, <1>2 DEF TypeOK, OthersStay
<1>6. pc'[d] = "ended" /\ outcome'[d] = "ok" /\ open'[d] = {}
  BY <1>1, <1>2 DEF TypeOK
<1>7. Provider(d)'
  BY <1>1, <1>2, <1>6 DEF Provider, LastCall
<1>8. pc[d] = "answer" => KeysOf(batch[d]) = {}
  <2>1. pc[d] = "answer" => batch[d] = <<>>
    BY <1>1 DEF Provider, Rows
  <2> QED
    BY <2>1 DEF KeysOf
<1>9. Rows(d)'
  <2>1. KeysOf(batch'[d]) = KeysOf(batch[d]) /\ open[d] = {}
    BY <1>1, <1>2 DEF Rows
  <2> QED
    BY <1>1, <1>2, <1>6, <1>8, <2>1 DEF Rows, Committed
<1>10. AnsweredIsScheduled'
  <2> DEFINE Waiting == queue' + tasks > 0
  <2>1. pc[d] = "enqueue" \/ queue + tasks > 0 => Waiting
    <3>1. CASE queue' = queue + 1
      BY <1>3, <3>1
    <3>2. CASE queue' = queue /\ pc[d] # "enqueue"
      BY <1>3, <3>2
    <3> QED
      BY <1>2, <3>1, <3>2
  <2> HIDE DEF Waiting
  <2>2. ASSUME NEW e \in Delivery, outcome'[e] = "ok"
        PROVE  KeysOf(batch[e]) \subseteq seen \/ Waiting \/ lost
    <3>1. CASE e = d
      BY <1>2, <1>8, <2>1, <3>1
    <3>2. CASE e # d
      <4>1. outcome[e] = "ok"
        BY <1>5, <2>2, <3>2 DEF OthersStay
      <4>2. KeysOf(batch[e]) \subseteq seen \/ queue + tasks > 0 \/ lost
        BY <4>1 DEF IInv, AnsweredIsScheduled
      <4> QED
        BY <2>1, <4>2
    <3> QED
      BY <3>1, <3>2
  <2> QED
    BY <1>2, <2>2 DEF AnsweredIsScheduled, Waiting
<1> QED
  BY <1>2, <1>4, <1>5, <1>6, <1>7, <1>9, <1>10, QuietKeeps

LEMMA SelectExistingStep ==
    ASSUME IInv, NEW d \in Delivery, SelectExisting(d)
    PROVE  IInv'
<1>1. Provider(d) /\ Rows(d) /\ TypeOK
  BY DEF IInv
<1> DEFINE found == KeysOf(batch[d]) \cap DOMAIN ledger
<1>2. /\ pc[d] = "begin" /\ pc' = [pc EXCEPT ![d] = "insert"]
      /\ accepted' = [accepted EXCEPT ![d] = [line \in found |-> ledger[line].body]]
      /\ session' = [session EXCEPT ![d] = "owned"]
      /\ UNCHANGED <<ledger, open, via, batch, outcome, calls, activity,
                     queue, tasks, seen, lost>>
  BY DEF SelectExisting, providerVars, queueVars
<1>3. TypeOK'
  BY <1>1, <1>2 DEF TypeOK
<1>4. OthersStay(d)
  BY <1>1, <1>2 DEF TypeOK, OthersStay
<1>5. pc'[d] = "insert" /\ accepted'[d] = [line \in found |-> ledger[line].body]
  BY <1>1, <1>2 DEF TypeOK
<1>6. Provider(d)'
  BY <1>1, <1>2, <1>5 DEF Provider, LastCall, Pulled
<1>7. Rows(d)'
  <2>1. open[d] = {} /\ outcome[d] = "none" /\ (via[d] = "list" => batch[d] = <<>>)
    BY <1>1, <1>2 DEF Rows
  <2>2. \A line \in found : ledger[line].body \in Body
    BY <1>1 DEF TypeOK
  <2> QED
    BY <1>2, <1>5, <2>1, <2>2 DEF Rows, Committed
<1>8. AnsweredIsScheduled'
  <2>1. outcome'[d] # "ok"
    BY <1>1, <1>2 DEF Rows
  <2> QED
    BY <1>2, <1>4, <2>1, ScheduleKeeps DEF queueVars
<1> QED
  BY <1>2, <1>3, <1>4, <1>6, <1>7, <1>8, QuietKeeps

LEMMA InsertRowStep ==
    ASSUME IInv, NEW d \in Delivery, InsertRow(d)
    PROVE  IInv'
<1>1. Provider(d) /\ Rows(d) /\ TypeOK
  BY DEF IInv
<1>2. PICK p \in DOMAIN batch[d] :
         /\ IsNext(d, p) /\ batch[d][p].id \notin DOMAIN ledger
         /\ open' = [open EXCEPT ![d] = @ \cup {batch[d][p].id}]
         /\ accepted' = [accepted EXCEPT ![d] =
               [line \in DOMAIN @ \cup {batch[d][p].id} |->
                   IF line = batch[d][p].id THEN batch[d][p].body ELSE @[line]]]
  BY DEF InsertRow
<1> DEFINE key == batch[d][p].id
           body == batch[d][p].body
<1>3. key \in Line /\ body \in Body /\ key \in KeysOf(batch[d])
  <2>1. batch[d] \in Seq(Record)
    BY <1>1, BatchType
  <2>2. batch[d][p] \in Record
    BY <2>1
  <2> QED
    BY <2>2 DEF Record, KeysOf
<1>4. /\ pc[d] = "insert" /\ key \notin DOMAIN accepted[d]
      /\ UNCHANGED <<ledger, pc, via, session, batch, outcome, calls, activity,
                     queue, tasks, seen, lost>>
  BY <1>2 DEF IsNext, Remaining, InsertRow, providerVars, queueVars
<1>5. \A e \in Delivery \ {d} : key \notin open[e]
  BY <1>2 DEF InsertRow, WaitsFor
<1>6. /\ open'[d] = open[d] \cup {key}
      /\ DOMAIN accepted'[d] = DOMAIN accepted[d] \cup {key}
      /\ accepted'[d][key] = body
      /\ \A line \in DOMAIN accepted[d] : accepted'[d][line] = accepted[d][line]
  BY <1>1, <1>2, <1>4 DEF TypeOK
<1> HIDE DEF key, body
<1>7. OthersStay(d)
  BY <1>1, <1>2, <1>4 DEF TypeOK, OthersStay
<1>8. TypeOK'
  <2>1. open' \in [Delivery -> SUBSET Line] /\ DOMAIN accepted' = Delivery
    BY <1>1, <1>2, <1>3 DEF TypeOK, key
  <2> QED
    BY <1>1, <1>4, <2>1 DEF TypeOK
<1>9. Provider(d)'
  BY <1>1, <1>4 DEF Provider, LastCall, Pulled
<1>10. Rows(d)'
  <2>1. outcome[d] = "none" /\ key \notin DOMAIN ledger
    BY <1>1, <1>2, <1>4 DEF Rows, key
  <2>2. \A line \in DOMAIN accepted'[d] : accepted'[d][line] \in Body
    BY <1>1, <1>3, <1>6 DEF Rows
  <2>3. \A line \in DOMAIN accepted'[d] \ open'[d] :
            line \in DOMAIN ledger /\ ledger[line].body = accepted'[d][line]
    BY <1>1, <1>4, <1>6 DEF Rows
  <2> QED
    BY <1>1, <1>3, <1>4, <1>6, <2>1, <2>2, <2>3 DEF Rows, Committed
<1>11. \A e \in Delivery : Provider(e)' /\ Rows(e)'
  BY <1>4, <1>7, <1>9, <1>10, Bystander
<1>12. OneWriterPerKey'
  BY <1>5, <1>6, <1>7 DEF IInv, OneWriterPerKey, OthersStay
<1>13. \A line \in DOMAIN ledger : Whole(line)'
  BY <1>4 DEF IInv, Whole, Pulled, LastCall
<1>14. AnsweredIsScheduled'
  BY <1>4 DEF IInv, AnsweredIsScheduled
<1> QED
  BY <1>4, <1>8, <1>11, <1>12, <1>13, <1>14 DEF IInv

\* What a commit does to the ledger: it adds rows, and keeps those there are.
LEMMA CommitAdds ==
    ASSUME IInv, NEW d \in Delivery, Commit(d)
    PROVE  /\ DOMAIN ledger' = DOMAIN ledger \cup open[d]
           /\ \A line \in DOMAIN ledger : ledger'[line] = ledger[line]
           /\ \A line \in open[d] : ledger'[line] = [body |-> accepted[d][line], by |-> d]
<1>1. open[d] \cap DOMAIN ledger = {}
  BY DEF IInv, Rows
<1> QED
  BY <1>1 DEF Commit

LEMMA CommitStep ==
    ASSUME IInv, NEW d \in Delivery, Commit(d)
    PROVE  IInv'
<1>1. Provider(d) /\ Rows(d) /\ TypeOK
  BY DEF IInv
<1>2. /\ pc[d] = "insert" /\ Remaining(d) = {}
      /\ open' = [open EXCEPT ![d] = {}]
      /\ session' = [session EXCEPT ![d] = "fresh"]
      /\ pc' = [pc EXCEPT ![d] = "enqueue"]
      /\ UNCHANGED <<accepted, via, batch, outcome, calls, activity,
                     queue, tasks, seen, lost>>
  BY DEF Commit, providerVars, queueVars
<1>3. /\ DOMAIN ledger' = DOMAIN ledger \cup open[d]
      /\ \A line \in DOMAIN ledger : ledger'[line] = ledger[line]
      /\ \A line \in open[d] :
            /\ ledger'[line] = [body |-> accepted[d][line], by |-> d]
            /\ ledger'[line].body = accepted[d][line] /\ ledger'[line].by = d
  BY CommitAdds
<1>4. OthersStay(d)
  BY <1>1, <1>2 DEF TypeOK, OthersStay
<1>5. pc'[d] = "enqueue" /\ open'[d] = {}
  BY <1>1, <1>2 DEF TypeOK
<1>6. TypeOK'
  <2>1. \A line \in DOMAIN ledger' : ledger'[line] \in [body : Body, by : Delivery]
    <3>1. ASSUME NEW line \in open[d]
          PROVE  ledger'[line] \in [body : Body, by : Delivery]
      <4>1. accepted[d][line] \in Body
        BY <1>1 DEF Rows
      <4>2. [body |-> accepted[d][line], by |-> d] \in [body : Body, by : Delivery]
        BY <4>1
      <4>3. ledger'[line] = [body |-> accepted[d][line], by |-> d]
        BY <1>3
      <4> QED
        BY <4>2, <4>3
    <3>2. ASSUME NEW line \in DOMAIN ledger
          PROVE  ledger'[line] \in [body : Body, by : Delivery]
      BY <1>1, <1>3 DEF TypeOK
    <3> QED
      BY <1>3, <3>1, <3>2
  <2>2. DOMAIN ledger' \subseteq Line
    BY <1>1, <1>3 DEF TypeOK
  <2> QED
    BY <1>1, <1>2, <1>3, <2>1, <2>2 DEF TypeOK
<1>7. KeysOf(batch[d]) = DOMAIN accepted[d]
  BY <1>1, <1>2 DEF Rows, Remaining, KeysOf
<1>8. \A line \in DOMAIN accepted[d] :
         line \in DOMAIN ledger' /\ ledger'[line].body = accepted[d][line]
  <2>1. ASSUME NEW line \in DOMAIN accepted[d] \ open[d]
        PROVE  line \in DOMAIN ledger' /\ ledger'[line].body = accepted[d][line]
    <3>1. line \in DOMAIN ledger /\ ledger[line].body = accepted[d][line]
      BY <1>1, <1>2 DEF Rows
    <3> QED
      BY <1>3, <3>1
  <2> QED
    BY <1>3, <2>1
<1>9. Provider(d)'
  BY <1>1, <1>2, <1>5 DEF Provider, LastCall, Pulled
<1>10. Rows(d)'
  BY <1>1, <1>2, <1>5, <1>7, <1>8 DEF Rows, Committed
<1>11. ASSUME NEW e \in Delivery \ {d} PROVE Rows(e)'
  <2>1. open[e] \cap open[d] = {} /\ Rows(e)
    BY DEF IInv, OneWriterPerKey
  <2>2. /\ pc'[e] = pc[e] /\ open'[e] = open[e] /\ via'[e] = via[e] /\ batch'[e] = batch[e]
        /\ accepted'[e] = accepted[e] /\ outcome'[e] = outcome[e]
    BY <1>4 DEF OthersStay
  <2> QED
    BY <1>3, <2>1, <2>2 DEF Rows, Committed
<1>12. \A e \in Delivery : Provider(e)' /\ Rows(e)'
  BY <1>4, <1>9, <1>10, <1>11, Bystander
<1>13. OneWriterPerKey'
  BY <1>4, <1>5 DEF IInv, OneWriterPerKey, OthersStay
<1>14. ASSUME NEW line \in DOMAIN ledger' PROVE Whole(line)'
  <2>1. CASE line \in DOMAIN ledger
    <3>1. Whole(line) /\ ledger'[line] = ledger[line] /\ ledger[line].by \in Delivery
      BY <1>1, <1>3, <2>1 DEF IInv, TypeOK
    <3>2. ledger[line].by # d
      BY <1>2, <3>1 DEF Whole
    <3>3. pc'[ledger[line].by] = pc[ledger[line].by]
      BY <1>4, <3>1, <3>2 DEF OthersStay
    <3>4. Pulled(ledger[line].by)'
      BY <1>4, <3>1, <3>2, Bystander DEF Whole
    <3> QED
      BY <1>2, <1>3, <3>1, <3>3, <3>4 DEF Whole
  <2>2. CASE line \in open[d]
    <3>1. ledger'[line].by = d
      BY <1>3, <2>2
    <3>2. line \in KeysOf(batch[d]) /\ KeysOf(batch[d]) \subseteq DOMAIN ledger'
      BY <1>1, <1>7, <1>8, <2>2 DEF Rows
    <3>3. Pulled(d)'
      BY <1>1, <1>2, <1>5 DEF Provider, Pulled, LastCall
    <3> QED
      BY <1>2, <1>5, <3>1, <3>2, <3>3 DEF Whole
  <2> QED
    BY <1>3, <2>1, <2>2
<1>15. AnsweredIsScheduled'
  BY <1>2 DEF IInv, AnsweredIsScheduled
<1> QED
  BY <1>6, <1>12, <1>13, <1>14, <1>15 DEF IInv

-----------------------------------------------------------------------------
(* The queue, and the theorems *)

LEMMA RequestsStay ==
    ASSUME IInv, UNCHANGED requestVars
    PROVE  /\ \A d \in Delivery : Provider(d)' /\ Rows(d)'
           /\ OneWriterPerKey'
           /\ \A line \in DOMAIN ledger' : Whole(line)'
<1> USE DEF requestVars, rowVars, providerVars
<1>1. ASSUME NEW d \in Delivery PROVE Provider(d)' /\ Rows(d)'
  <2>1. Provider(d) /\ Rows(d)
    BY DEF IInv
  <2> QED
    BY <2>1 DEF Provider, Rows, Committed, Pulled, LastCall
<1>2. OneWriterPerKey'
  BY DEF IInv, OneWriterPerKey
<1>3. \A line \in DOMAIN ledger' : Whole(line)'
  BY DEF IInv, Whole, Pulled, LastCall
<1> QED
  BY <1>1, <1>2, <1>3

LEMMA WorkStep ==
    ASSUME IInv, Work
    PROVE  IInv'
<1>1. TypeOK
  BY DEF IInv
<1>2. UNCHANGED requestVars
  BY DEF Work, TakeTask, ReadLedger, WorkerDies
<1>3. /\ queue' \in Nat /\ tasks' \in Nat /\ lost' \in BOOLEAN
      /\ seen' \subseteq DOMAIN ledger
  <2>1. queue \in Nat /\ tasks \in Nat /\ lost \in BOOLEAN /\ seen \subseteq DOMAIN ledger
    BY <1>1 DEF TypeOK
  <2>2. CASE TakeTask
    BY <2>1, <2>2 DEF TakeTask
  <2>3. CASE ReadLedger
    BY <2>1, <2>3 DEF ReadLedger
  <2>4. CASE WorkerDies
    BY <2>1, <2>4 DEF WorkerDies
  <2> QED
    BY <2>2, <2>3, <2>4 DEF Work
<1>4. TypeOK'
  BY <1>1, <1>2, <1>3 DEF TypeOK, requestVars, rowVars, providerVars
<1>5. ASSUME NEW d \in Delivery, outcome[d] = "ok"
      PROVE  KeysOf(batch[d]) \subseteq seen' \/ queue' + tasks' > 0 \/ lost'
  <2>1. KeysOf(batch[d]) \subseteq seen \/ queue + tasks > 0 \/ lost
    BY <1>5 DEF IInv, AnsweredIsScheduled
  <2>2. KeysOf(batch[d]) \subseteq DOMAIN ledger
    BY <1>5 DEF IInv, Rows, Committed
  <2>3. CASE TakeTask
    BY <1>1, <2>1, <2>3 DEF TakeTask, TypeOK
  <2>4. CASE ReadLedger
    BY <2>2, <2>4 DEF ReadLedger
  <2>5. CASE WorkerDies
    BY <2>5 DEF WorkerDies
  <2> QED
    BY <2>3, <2>4, <2>5 DEF Work
<1>6. AnsweredIsScheduled'
  BY <1>2, <1>5 DEF AnsweredIsScheduled, requestVars
<1> QED
  BY <1>2, <1>4, <1>6, RequestsStay DEF IInv

LEMMA Ends ==
    ASSUME IInv, NEW d \in Delivery,
           \/ RaiseUnrecorded(d) \/ AnswerOrder(d)
           \/ RefuseWebhook(d) \/ RefusePayload(d) \/ RefuseUpload(d) \/ BeginFails(d)
           \/ InsertConflicts(d) \/ DeadlockVictim(d) \/ EnqueueFails(d) \/ Crash(d)
    PROVE  IInv'
<1>1. CASE RaiseUnrecorded(d)
  BY <1>1, RaiseStep DEF RaiseUnrecorded
<1>2. CASE AnswerOrder(d)
  BY <1>2, EndStep DEF AnswerOrder
<1>3. CASE RefuseWebhook(d) \/ RefuseUpload(d)
  BY <1>3, EndStep DEF RefuseWebhook, RefuseUpload
<1>4. CASE RefusePayload(d) \/ BeginFails(d)
  BY <1>4, RaiseStep DEF RefusePayload, BeginFails
<1>5. CASE InsertConflicts(d)
  BY <1>5, RaiseStep DEF InsertConflicts, IsNext
<1>6. CASE DeadlockVictim(d)
  <2>1. PICK group \in SUBSET Delivery :
           d \in group /\ \A x \in group : WaitsFor(x) \cap group # {}
    BY <1>6 DEF DeadlockVictim
  <2>2. pc[d] = "insert"
    BY <2>1 DEF WaitsFor, IsNext
  <2> QED
    BY <1>6, <2>2, RaiseStep DEF DeadlockVictim
<1>7. CASE EnqueueFails(d)
  BY <1>7, RaiseStep DEF EnqueueFails
<1>8. CASE Crash(d)
  BY <1>8, EndStep DEF Crash
<1> QED
  BY <1>1, <1>2, <1>3, <1>4, <1>5, <1>6, <1>7, <1>8

LEMMA StepInv == IInv /\ [Next]_vars => IInv'
<1> SUFFICES ASSUME IInv, [Next]_vars PROVE IInv'
  OBVIOUS
<1>1. CASE UNCHANGED vars
  <2>1. UNCHANGED requestVars
    BY <1>1 DEF vars, requestVars
  <2>2. TypeOK' /\ AnsweredIsScheduled'
    BY <1>1 DEF IInv, TypeOK, AnsweredIsScheduled, vars, rowVars, providerVars, queueVars
  <2> QED
    BY <2>1, <2>2, RequestsStay DEF IInv
<1>2. CASE Work
  BY <1>2, WorkStep
<1>3. ASSUME NEW d \in Delivery, Arrive(d) \/ Serve(d) \/ Crash(d) PROVE IInv'
  BY <1>3, ArriveStep, CallProviderStep, RecordAnswerStep, RecordErrorStep, AnswerStep,
     SelectExistingStep, InsertRowStep, CommitStep, Ends DEF Serve
<1> QED
  BY <1>1, <1>2, <1>3 DEF Next

\* The inductive invariant: keys that are not committed have one writer and
\* no row, and a request's calls, records and rows agree with where it is.
THEOREM Invariance == Spec => []IInv
  BY InitInv, StepInv, PTL DEF Spec

\* The database, the requests and the queue hold what they should.
THEOREM TypeCorrect == Spec => []TypeOK
  BY Invariance, PTL DEF IInv

\* One stored row of a batch means that every line of it is stored.
THEOREM BatchesWhole == Spec => []BatchesAreAtomic
<1>1. IInv => BatchesAreAtomic
  BY DEF IInv, BatchesAreAtomic, Whole
<1> QED
  BY <1>1, Invariance, PTL

\* What an ingestion reports is what the ledger has, for as long as it runs.
THEOREM AcceptedStored == Spec => []AcceptedIsStored
<1>1. IInv => AcceptedIsStored
  <2> SUFFICES ASSUME IInv, NEW d \in Delivery, Committed(d)
               PROVE  /\ DOMAIN accepted[d] = KeysOf(batch[d])
                      /\ \A line \in DOMAIN accepted[d] :
                            line \in DOMAIN ledger /\ ledger[line].body = accepted[d][line]
    BY DEF AcceptedIsStored
  <2>1. Rows(d)
    BY DEF IInv
  <2>2. open[d] = {}
    BY <2>1 DEF Rows, Committed
  <2> QED
    BY <2>1, <2>2 DEF Rows
<1> QED
  BY <1>1, Invariance, PTL

\* The activity log has every provider call but, at most, the last of a
\* request that died or was cut off.
THEOREM ActivityComplete == Spec => []ActivityIsComplete
<1>1. IInv => ActivityIsComplete
  <2> SUFFICES ASSUME IInv, NEW d \in Delivery
               PROVE  LET missing == Len(calls[d]) - Len(activity[d])
                      IN  /\ missing \in {0, 1}
                          /\ \A k \in DOMAIN activity[d] : activity[d][k] = calls[d][k]
                          /\ missing = 1 =>
                                \/ pc[d] = "record" \/ outcome[d] = "crashed"
                                \/ LastCall(d)[2] = "raised"
                          /\ (\E line \in DOMAIN ledger : ledger[line].by = d)
                                /\ via[d] \in {"pull", "payment"}
                                   => missing = 0 /\ LastCall(d) = <<"settlements.pull", "ok">>
    BY DEF ActivityIsComplete
  <2>1. Provider(d)
    BY DEF IInv
  <2>2. Len(calls[d]) \in Nat /\ Len(activity[d]) \in Nat
        /\ DOMAIN activity[d] = 1..Len(activity[d])
    BY DEF IInv, TypeOK
  <2>3. (\E line \in DOMAIN ledger : ledger[line].by = d) => Pulled(d)
    BY DEF IInv, Whole
  <2> QED
    BY <2>1, <2>2, <2>3 DEF Provider, Pulled
<1> QED
  BY <1>1, Invariance, PTL

\* What was answered as done has been read, or a task is still to come.
THEOREM AnsweredScheduled == Spec => []AnsweredIsScheduled
  BY Invariance, PTL DEF IInv

\* No step changes or removes a ledger line.
THEOREM FirstWins == Spec => FirstWriteWins
<1>1. IInv /\ [Next]_vars =>
         [\A line \in DOMAIN ledger :
             line \in DOMAIN ledger' /\ ledger'[line] = ledger[line]]_ledger
  <2> SUFFICES ASSUME IInv, [Next]_vars, ledger' # ledger
               PROVE  \A line \in DOMAIN ledger :
                         line \in DOMAIN ledger' /\ ledger'[line] = ledger[line]
    OBVIOUS
  <2>1. PICK d \in Delivery : Commit(d)
    BY ZenonT(60) DEF vars, Next, Serve, Work, Arrive, End, Raise, CallProvider, RecordAnswer,
           RecordError, RaiseUnrecorded, AnswerList, AnswerOrder, RefuseWebhook,
           RefusePayload, RefuseUpload, BeginFails, SelectExisting, InsertRow,
           InsertConflicts, DeadlockVictim, Enqueue, EnqueueFails, Crash, TakeTask,
           ReadLedger, WorkerDies, requestVars, rowVars
  <2> QED
    BY <2>1, CommitAdds
<1> QED
  BY <1>1, Invariance, PTL DEF Spec, FirstWriteWins

-----------------------------------------------------------------------------
(* Nobody is stuck *)

\* Where everyone waits for another, some wait for each other.
LEMMA Knot ==
    ASSUME NEW Waiting, IsFiniteSet(Waiting), Waiting # {}, NEW waits,
           \A x \in Waiting : waits[x] \cap Waiting # {}
    PROVE  \E group \in SUBSET Waiting :
              /\ group # {}
              /\ \A x \in group :
                    waits[x] \cap group # {} /\ \E y \in group : x \in waits[y]
<1> DEFINE Closed ==
             {group \in SUBSET Waiting :
                 group # {} /\ \A x \in group : waits[x] \cap group # {}}
<1>1. Closed \subseteq FiniteSubsetsOf(Waiting) /\ Waiting \in Closed
  BY FS_FiniteSubsetsOfFinite
<1>2. PICK group \in Closed :
         \A less \in Closed : ~(<<less, group>> \in StrictSubsetOrdering(Waiting))
  <2> HIDE DEF Closed
  <2> QED
    BY <1>1, FS_StrictSubsetOrderingWellFounded, WFMin
<1>3. PICK followed : followed = {x \in group : \E y \in group : x \in waits[y]}
  OBVIOUS
<1>4. followed \in Closed
  <2>1. \A x \in group : waits[x] \cap followed # {}
    BY <1>3
  <2> QED
    BY <1>3, <2>1
<1>5. followed = group
  <2>1. ~(<<followed, group>> \in StrictSubsetOrdering(Waiting))
    BY <1>2, <1>4
  <2> QED
    BY <1>3, <2>1 DEF StrictSubsetOrdering
<1>6. \A x \in group : \E y \in group : x \in waits[y]
  BY <1>3, <1>5
<1>7. group \in SUBSET Waiting /\ group # {} /\ \A x \in group : waits[x] \cap group # {}
  BY <1>2
<1> QED
  BY <1>6, <1>7

\* A set of positions has a first one.
LEMMA FirstPosition ==
    ASSUME NEW positions \in SUBSET Nat, positions # {}
    PROVE  \E p \in positions : \A q \in positions : p <= q
<1>1. PICK Less : /\ IsWellFoundedOn(Less, Nat)
                  /\ \A x, y \in Nat : <<y, x>> \in Less <=> y < x
  <2>1. \A x, y \in Nat : <<y, x>> \in OpToRel(<, Nat) <=> y < x
    BY DEF OpToRel
  <2> QED
    BY <2>1, NatLessThanWellFounded, Zenon
<1>2. PICK p \in positions : \A q \in positions : ~(<<q, p>> \in Less)
  BY <1>1, WFMin
<1>3. \A q \in positions : ~(q < p)
  BY <1>1, <1>2
<1> QED
  BY <1>3

Served == {d \in Delivery : pc[d] \notin {"idle", "ended"}}

\* The guards of the steps of Serve; where there are several at one place,
\* those of which one always holds there.
CanServe(d) ==
    \/ pc[d] \in {"call", "record", "answer", "begin", "enqueue"}
    \/ pc[d] = "insert" /\ Remaining(d) = {}
    \/ WaitsFor(d) = {} /\ \E p \in DOMAIN batch[d] :
                              IsNext(d, p) /\ batch[d][p].id \notin DOMAIN ledger
    \/ \E p \in DOMAIN batch[d] : IsNext(d, p) /\ batch[d][p].id \in DOMAIN ledger
    \/ /\ WaitsFor(d) # {}
       /\ \E group \in SUBSET Delivery :
             /\ d \in group
             /\ \A x \in group :
                   WaitsFor(x) \cap group # {} /\ \E y \in group : x \in WaitsFor(y)

\* However batches wait for each other's rows, one of the requests that are
\* being served can go on.
SomeoneGoesOn == Served # {} => \E d \in Served : CanServe(d)

FewAreServed == IsFiniteSet(Served)

LEMMA OthersWhere ==
    ASSUME NEW d \in Delivery, Arrive(d) \/ Serve(d) \/ Crash(d)
    PROVE  \A e \in Delivery \ {d} : pc'[e] = pc[e]
<1>1. CASE \E how : End(d, how)
  BY <1>1 DEF End
<1>2. CASE \E place : pc' = [pc EXCEPT ![d] = place]
  BY <1>2
<1>3. CASE pc' = pc
  BY <1>3
<1>4. Arrive(d) \/ CallProvider(d) \/ RecordAnswer(d) \/ SelectExisting(d) \/ Commit(d)
        => \E place : pc' = [pc EXCEPT ![d] = place]
  BY DEF Arrive, CallProvider, RecordAnswer, SelectExisting, Commit
<1>5. RecordError(d) \/ RaiseUnrecorded(d) \/ AnswerList(d) \/ AnswerOrder(d)
        \/ RefuseWebhook(d) \/ RefusePayload(d) \/ RefuseUpload(d) \/ BeginFails(d)
        \/ InsertConflicts(d) \/ DeadlockVictim(d) \/ Enqueue(d) \/ EnqueueFails(d)
        \/ Crash(d)
        => \E how : End(d, how)
  BY DEF Raise, RecordError, RaiseUnrecorded, AnswerList, AnswerOrder, RefuseWebhook,
         RefusePayload, RefuseUpload, BeginFails, InsertConflicts, DeadlockVictim,
         Enqueue, EnqueueFails, Crash
<1>6. InsertRow(d) => pc' = pc
  BY DEF InsertRow
<1> QED
  BY <1>1, <1>2, <1>3, <1>4, <1>5, <1>6 DEF Serve

LEMMA FewAreServedStep == FewAreServed /\ [Next]_vars => FewAreServed'
<1> SUFFICES ASSUME FewAreServed, [Next]_vars PROVE FewAreServed'
  OBVIOUS
<1>1. ASSUME NEW d \in Delivery, Arrive(d) \/ Serve(d) \/ Crash(d) PROVE FewAreServed'
  <2>1. Served' \subseteq Served \cup {d}
    BY <1>1, OthersWhere DEF Served
  <2>2. IsFiniteSet(Served \cup {d})
    BY FS_AddElement DEF FewAreServed
  <2> QED
    BY <2>1, <2>2, FS_Subset DEF FewAreServed
<1>2. CASE Work \/ UNCHANGED vars
  <2>1. pc' = pc
    BY <1>2 DEF Work, TakeTask, ReadLedger, WorkerDies, requestVars, vars
  <2> QED
    BY <2>1 DEF FewAreServed, Served
<1> QED
  BY <1>1, <1>2 DEF Next

LEMMA GoingOn ==
    ASSUME IInv, FewAreServed
    PROVE  SomeoneGoesOn
<1> SUFFICES ASSUME Served # {}, \A d \in Served : ~CanServe(d) PROVE FALSE
  BY DEF SomeoneGoesOn
<1>1. ASSUME NEW d \in Served PROVE pc[d] = "insert" /\ Remaining(d) # {}
  <2>1. pc[d] = "insert"
    BY DEF Served, CanServe, IInv, TypeOK
  <2> QED
    BY <2>1 DEF CanServe
<1>2. ASSUME NEW d \in Served PROVE \E p \in DOMAIN batch[d] : IsNext(d, p)
  <2>1. DOMAIN batch[d] \subseteq Nat
    BY BatchType DEF IInv, Served
  <2>2. Remaining(d) \in SUBSET Nat /\ Remaining(d) \subseteq DOMAIN batch[d]
    BY <2>1 DEF Remaining
  <2>3. PICK p \in Remaining(d) : \A q \in Remaining(d) : p <= q
    BY <1>1, <2>2, FirstPosition
  <2> QED
    BY <1>1, <2>2, <2>3 DEF IsNext
<1>3. ASSUME NEW d \in Served PROVE WaitsFor(d) # {}
  BY <1>2 DEF CanServe
\* Those that are waited for have inserted something, and are being served.
<1>4. ASSUME NEW d \in Served PROVE WaitsFor(d) \subseteq Served
  <2> SUFFICES ASSUME NEW e \in WaitsFor(d) PROVE e \in Served
    OBVIOUS
  <2>1. e \in Delivery /\ open[e] # {}
    BY DEF WaitsFor
  <2>2. Rows(e)
    BY <2>1 DEF IInv
  <2>3. pc[e] = "insert"
    BY <2>1, <2>2 DEF Rows
  <2> QED
    BY <2>1, <2>3 DEF Served
<1>5. PICK waits : waits = [d \in Served |-> WaitsFor(d)]
  OBVIOUS
<1>6. \A d \in Served : waits[d] = WaitsFor(d) /\ waits[d] \cap Served # {}
  BY <1>3, <1>4, <1>5
<1>7. PICK group \in SUBSET Served :
         /\ group # {}
         /\ \A x \in group : waits[x] \cap group # {} /\ \E y \in group : x \in waits[y]
  BY SMTT(40), <1>6, Knot DEF FewAreServed
<1>8. \A x \in group :
         WaitsFor(x) \cap group # {} /\ \E y \in group : x \in WaitsFor(y)
  BY <1>6, <1>7
<1>9. PICK d \in group : TRUE
  BY <1>7
<1>10. CanServe(d)
  <2>1. group \in SUBSET Delivery /\ d \in Served
    BY <1>7 DEF Served
  <2> QED
    BY <1>3, <1>8, <2>1 DEF CanServe
<1> QED
  BY <1>7, <1>10

\* No request waits for ever for want of one that can go on: the database
\* breaks every knot of batches, and what waits for nobody goes on.
THEOREM NobodyIsStuck == Spec => []SomeoneGoesOn
<1>1. Init => FewAreServed
  <2> SUFFICES ASSUME Init PROVE FewAreServed
    OBVIOUS
  <2>1. Served = {}
    BY DEF Init, Served
  <2> QED
    BY <2>1, FS_EmptySet DEF FewAreServed
<1> QED
  BY <1>1, FewAreServedStep, GoingOn, Invariance, PTL DEF Spec

-----------------------------------------------------------------------------
(* Every step counts *)

CallsLeft(d) == Len(Operations[via[d]]) - Len(calls[d])

\* How many steps of its own a request that is being served is from its end,
\* at most.
StepsLeft(d) ==
    IF pc[d] = "call" THEN Len(batch[d]) + 3 + 2 * CallsLeft(d)
    ELSE IF pc[d] = "record" THEN Len(batch[d]) + 4 + 2 * CallsLeft(d)
    ELSE IF pc[d] = "begin" THEN Len(batch[d]) + 3
    ELSE IF pc[d] = "insert" THEN Cardinality(Remaining(d)) + 2
    ELSE IF pc[d] \in {"answer", "enqueue"} THEN 1
    ELSE 0

\* The same for the worker.
TasksLeft == 2 * queue + tasks

\* Each step of a request brings it nearer to its end, and no step of
\* another, of the worker and no crash sets it back; each step of the worker
\* leaves it less to do, and only an enqueued task gives it more.
EveryStepCounts ==
    [][/\ \A d \in Delivery : pc[d] # "idle" =>
             /\ StepsLeft(d) \in Nat
             /\ IF Serve(d) \/ Crash(d) THEN StepsLeft(d)' < StepsLeft(d)
                ELSE StepsLeft(d)' = StepsLeft(d)
       /\ Work => TasksLeft' < TasksLeft
       /\ TasksLeft' > TasksLeft => \E d \in Delivery : Enqueue(d)]_vars

LEMMA RemainingIsFew ==
    ASSUME TypeOK, NEW d \in Delivery
    PROVE  /\ Len(batch[d]) \in Nat
           /\ IsFiniteSet(Remaining(d))
           /\ Cardinality(Remaining(d)) \in 0..Len(batch[d])
<1>1. Len(batch[d]) \in Nat /\ DOMAIN batch[d] = 1..Len(batch[d])
  BY BatchType
<1>2. /\ IsFiniteSet(1..Len(batch[d]))
      /\ Cardinality(1..Len(batch[d])) = Len(batch[d])
  BY <1>1, FS_Interval
<1>3. Remaining(d) \subseteq 1..Len(batch[d])
  BY <1>1 DEF Remaining
<1>4. /\ IsFiniteSet(Remaining(d))
      /\ Cardinality(Remaining(d)) <= Len(batch[d])
  BY <1>2, <1>3, FS_Subset
<1> QED
  BY <1>1, <1>4, FS_CardinalityType

LEMMA CallsAreFew ==
    ASSUME IInv, NEW d \in Delivery
    PROVE  /\ CallsLeft(d) \in Nat
           /\ Len(calls[d]) \in Nat /\ Len(Operations[via[d]]) \in Nat
<1>1. via[d] \in Via /\ calls[d] \in Seq(Call)
  BY DEF IInv, TypeOK
<1>2. Len(Operations[via[d]]) \in Nat
  BY <1>1, OperationsOf DEF Via
<1>3. Len(calls[d]) <= Len(Operations[via[d]])
  BY DEF IInv, Provider
<1> QED
  BY <1>1, <1>2, <1>3 DEF CallsLeft

LEMMA StepsLeftAt ==
    ASSUME IInv, NEW d \in Delivery
    PROVE  /\ StepsLeft(d) \in Nat
           /\ pc[d] \notin {"idle", "ended"} => StepsLeft(d) > 0
<1>1. PICK length \in Nat, left \in Nat, rest \in Nat :
         /\ length = Len(batch[d]) /\ left = CallsLeft(d)
         /\ rest = Cardinality(Remaining(d))
  BY RemainingIsFew, CallsAreFew DEF IInv
<1>2. pc[d] \in {"idle", "call", "record", "answer", "begin", "insert", "enqueue", "ended"}
  BY DEF IInv, TypeOK
<1>3. CASE pc[d] = "call"
  <2>1. StepsLeft(d) = length + 3 + 2 * left
    BY <1>1, <1>3 DEF StepsLeft
  <2> QED
    BY <2>1
<1>4. CASE pc[d] = "record"
  <2>1. StepsLeft(d) = length + 4 + 2 * left
    BY <1>1, <1>4 DEF StepsLeft
  <2> QED
    BY <2>1
<1>5. CASE pc[d] = "begin"
  <2>1. StepsLeft(d) = length + 3
    BY <1>1, <1>5 DEF StepsLeft
  <2> QED
    BY <2>1
<1>6. CASE pc[d] = "insert"
  <2>1. StepsLeft(d) = rest + 2
    BY <1>1, <1>6 DEF StepsLeft
  <2> QED
    BY <2>1
<1>7. CASE pc[d] \in {"answer", "enqueue"}
  <2>1. StepsLeft(d) = 1
    BY <1>7 DEF StepsLeft
  <2> QED
    BY <2>1
<1>8. CASE pc[d] \in {"idle", "ended"}
  <2>1. StepsLeft(d) = 0
    BY <1>8 DEF StepsLeft
  <2> QED
    BY <1>8, <2>1
<1> QED
  BY <1>2, <1>3, <1>4, <1>5, <1>6, <1>7, <1>8

LEMMA EndCounts ==
    ASSUME IInv, NEW d \in Delivery, NEW how, End(d, how),
           pc[d] \notin {"idle", "ended"}
    PROVE  StepsLeft(d)' < StepsLeft(d)
<1>1. pc'[d] = "ended"
  BY DEF End, IInv, TypeOK
<1>2. StepsLeft(d)' = 0
  BY <1>1 DEF StepsLeft
<1> QED
  BY <1>2, StepsLeftAt

\* The provider: an answer that is recorded is a call less.
LEMMA CallCounts ==
    ASSUME IInv, NEW d \in Delivery, CallProvider(d) \/ RecordAnswer(d)
    PROVE  StepsLeft(d)' < StepsLeft(d)
<1>1. PICK length \in Nat, left \in Nat :
         length = Len(batch[d]) /\ left = CallsLeft(d)
  BY RemainingIsFew, CallsAreFew DEF IInv
<1>2. batch'[d] = batch[d] /\ via'[d] = via[d]
  BY DEF CallProvider, RecordAnswer
<1>3. pc \in [Delivery -> {"idle", "call", "record", "answer", "begin", "insert",
                           "enqueue", "ended"}]
      /\ calls \in [Delivery -> Seq(Call)]
  BY DEF IInv, TypeOK
<1>4. CASE CallProvider(d)
  <2>1. PICK call : calls' = [calls EXCEPT ![d] = Append(@, call)]
    BY <1>4 DEF CallProvider
  <2>2. Len(calls'[d]) = Len(calls[d]) + 1
    BY <1>3, <2>1
  <2>3. CallsLeft(d)' = left - 1
    BY <1>1, <1>2, <2>2, CallsAreFew DEF CallsLeft
  <2>4. pc[d] = "call" /\ pc'[d] = "record"
    BY <1>3, <1>4 DEF CallProvider
  <2>5. StepsLeft(d) = length + 3 + 2 * left
    BY <1>1, <2>4 DEF StepsLeft
  <2>6. StepsLeft(d)' = length + 4 + 2 * (left - 1)
    BY <1>1, <1>2, <2>3, <2>4 DEF StepsLeft
  <2> QED
    BY <2>5, <2>6
<1>5. CASE RecordAnswer(d)
  <2>1. calls'[d] = calls[d]
    BY <1>5 DEF RecordAnswer
  <2>2. CallsLeft(d)' = left
    BY <1>1, <1>2, <2>1 DEF CallsLeft
  <2>3. pc[d] = "record" /\ pc'[d] \in {"begin", "answer", "call"}
    BY <1>3, <1>5 DEF RecordAnswer
  <2>4. StepsLeft(d) = length + 4 + 2 * left
    BY <1>1, <2>3 DEF StepsLeft
  <2>5. StepsLeft(d)' \in {length + 3, 1, length + 3 + 2 * left}
    BY <1>1, <1>2, <2>2, <2>3 DEF StepsLeft
  <2> QED
    BY <2>4, <2>5
<1> QED
  BY <1>4, <1>5

\* The rows: an inserted row, with every later record of its key, is no
\* longer among the remaining ones.
LEMMA RowCounts ==
    ASSUME IInv, NEW d \in Delivery, SelectExisting(d) \/ InsertRow(d) \/ Commit(d)
    PROVE  StepsLeft(d)' < StepsLeft(d)
<1>1. PICK length \in Nat, rest \in Nat :
         length = Len(batch[d]) /\ rest = Cardinality(Remaining(d))
  BY RemainingIsFew DEF IInv
<1>2. batch'[d] = batch[d]
  BY DEF SelectExisting, InsertRow, Commit
<1>3. pc \in [Delivery -> {"idle", "call", "record", "answer", "begin", "insert",
                           "enqueue", "ended"}]
      /\ DOMAIN accepted = Delivery
  BY DEF IInv, TypeOK
<1>4. CASE SelectExisting(d)
  <2>1. pc[d] = "begin" /\ pc'[d] = "insert"
    BY <1>3, <1>4 DEF SelectExisting
  <2>2. Remaining(d)' \subseteq DOMAIN batch[d] /\ DOMAIN batch[d] = 1..length
    BY <1>1, <1>2, BatchType DEF Remaining, IInv
  <2>3. Cardinality(Remaining(d)') <= length /\ Cardinality(Remaining(d)') \in Nat
    <3>1. IsFiniteSet(1..length) /\ Cardinality(1..length) = length
      BY FS_Interval
    <3> QED
      BY <2>2, <3>1, FS_Subset, FS_CardinalityType
  <2>4. Cardinality(Remaining(d))' = Cardinality(Remaining(d)')
    OBVIOUS
  <2>5. StepsLeft(d) = length + 3 /\ StepsLeft(d)' = Cardinality(Remaining(d)') + 2
    BY <1>1, <2>1, <2>4 DEF StepsLeft
  <2> QED
    BY <2>3, <2>5
<1>5. CASE InsertRow(d)
  <2>1. PICK p \in DOMAIN batch[d] :
           /\ IsNext(d, p)
           /\ accepted' = [accepted EXCEPT ![d] =
                 [line \in DOMAIN @ \cup {batch[d][p].id} |->
                     IF line = batch[d][p].id THEN batch[d][p].body ELSE @[line]]]
    BY <1>5 DEF InsertRow
  <2>2. DOMAIN accepted'[d] = DOMAIN accepted[d] \cup {batch[d][p].id}
    BY <1>3, <2>1
  <2>3. p \in Remaining(d) /\ pc[d] = "insert" /\ pc'[d] = "insert"
    BY <1>5, <2>1 DEF IsNext, InsertRow
  <2>4. Remaining(d)' \subseteq Remaining(d) \ {p}
    BY <1>2, <2>2 DEF Remaining
  <2>5. /\ IsFiniteSet(Remaining(d) \ {p})
        /\ Cardinality(Remaining(d) \ {p}) = rest - 1
    BY <1>1, <2>3, RemainingIsFew, FS_RemoveElement DEF IInv
  <2>6. Cardinality(Remaining(d)') <= rest - 1 /\ Cardinality(Remaining(d)') \in Nat
    BY <2>4, <2>5, FS_Subset, FS_CardinalityType
  <2>7. StepsLeft(d) = rest + 2 /\ StepsLeft(d)' = Cardinality(Remaining(d)') + 2
    BY <1>1, <2>3 DEF StepsLeft
  <2> QED
    BY SMTT(40), <1>1, <2>6, <2>7
<1>6. CASE Commit(d)
  <2>1. pc[d] = "insert" /\ pc'[d] = "enqueue"
    BY <1>3, <1>6 DEF Commit
  <2>2. StepsLeft(d) = rest + 2 /\ StepsLeft(d)' = 1
    BY <1>1, <2>1 DEF StepsLeft
  <2> QED
    BY <1>1, <2>2
<1> QED
  BY <1>4, <1>5, <1>6

LEMMA ServeCounts ==
    ASSUME IInv, NEW d \in Delivery, Serve(d) \/ Crash(d)
    PROVE  StepsLeft(d)' < StepsLeft(d)
<1>1. CASE \E how : End(d, how) /\ pc[d] \notin {"idle", "ended"}
  BY <1>1, EndCounts
<1>2. RecordError(d) \/ RaiseUnrecorded(d) \/ AnswerList(d) \/ AnswerOrder(d)
        \/ RefuseWebhook(d) \/ RefusePayload(d) \/ RefuseUpload(d) \/ BeginFails(d)
        \/ InsertConflicts(d) \/ Enqueue(d) \/ EnqueueFails(d) \/ Crash(d)
        => \E how : End(d, how) /\ pc[d] \notin {"idle", "ended"}
  BY DEF Raise, RecordError, RaiseUnrecorded, AnswerList, AnswerOrder, RefuseWebhook,
         RefusePayload, RefuseUpload, BeginFails, InsertConflicts, IsNext, Enqueue,
         EnqueueFails, Crash
<1>3. DeadlockVictim(d) => \E how : End(d, how) /\ pc[d] \notin {"idle", "ended"}
  <2>1. WaitsFor(d) # {} => pc[d] = "insert"
    BY DEF WaitsFor, IsNext
  <2> QED
    BY <2>1 DEF DeadlockVictim, Raise
<1> QED
  BY <1>1, <1>2, <1>3, CallCounts, RowCounts DEF Serve

\* What a request has left depends on nothing another changes.
LEMMA OthersCount ==
    ASSUME TypeOK, NEW d \in Delivery, Arrive(d) \/ Serve(d) \/ Crash(d),
           NEW e \in Delivery \ {d}
    PROVE  StepsLeft(e)' = StepsLeft(e)
<1>1. via'[e] = via[e] /\ batch'[e] = batch[e]
  BY DEF Arrive, Serve, Crash, End, Raise, CallProvider, RecordAnswer, RecordError,
         RaiseUnrecorded, AnswerList, AnswerOrder, RefuseWebhook, RefusePayload,
         RefuseUpload, BeginFails, SelectExisting, InsertRow, InsertConflicts,
         DeadlockVictim, Commit, Enqueue, EnqueueFails, TypeOK
<1>2. calls'[e] = calls[e] /\ accepted'[e] = accepted[e]
  BY DEF Arrive, Serve, Crash, End, Raise, CallProvider, RecordAnswer, RecordError,
         RaiseUnrecorded, AnswerList, AnswerOrder, RefuseWebhook, RefusePayload,
         RefuseUpload, BeginFails, SelectExisting, InsertRow, InsertConflicts,
         DeadlockVictim, Commit, Enqueue, EnqueueFails, providerVars, rowVars, TypeOK
<1>3. pc'[e] = pc[e]
  BY OthersWhere
<1> QED
  BY <1>1, <1>2, <1>3 DEF StepsLeft, CallsLeft, Remaining

\* Nothing is tried again, by the request or by the worker: a batch has its
\* rows, a request its provider operations, and each is gone through once
\* (persist_canonical_records, provider_call; Celery acknowledges a message
\* when it is taken).  With NobodyIsStuck this is what EveryDeliveryEnds
\* needs besides a fair scheduler.
THEOREM DeliveriesRunDown == Spec => EveryStepCounts
<1>1. ASSUME IInv, [Next]_vars
      PROVE  \A d \in Delivery : pc[d] # "idle" =>
                /\ StepsLeft(d) \in Nat
                /\ IF Serve(d) \/ Crash(d) THEN StepsLeft(d)' < StepsLeft(d)
                   ELSE StepsLeft(d)' = StepsLeft(d)
  <2> SUFFICES ASSUME NEW d \in Delivery, pc[d] # "idle", ~(Serve(d) \/ Crash(d))
               PROVE  StepsLeft(d)' = StepsLeft(d)
    BY <1>1, ServeCounts, StepsLeftAt
  <2>1. CASE \E e \in Delivery : Arrive(e) \/ Serve(e) \/ Crash(e)
    <3>1. PICK e \in Delivery : Arrive(e) \/ Serve(e) \/ Crash(e)
      BY <2>1
    <3>2. d # e
      BY <3>1 DEF Arrive
    <3> QED
      BY <1>1, <3>1, <3>2, OthersCount DEF IInv
  <2>2. CASE Work \/ UNCHANGED vars
    <3>1. UNCHANGED requestVars
      BY <2>2 DEF Work, TakeTask, ReadLedger, WorkerDies, requestVars, vars
    <3> QED
      BY <3>1 DEF requestVars, rowVars, providerVars, StepsLeft, CallsLeft, Remaining
  <2> QED
    BY <1>1, <2>1, <2>2 DEF Next
<1>2. ASSUME IInv, [Next]_vars
      PROVE  /\ Work => TasksLeft' < TasksLeft
             /\ TasksLeft' > TasksLeft => \E d \in Delivery : Enqueue(d)
  <2>1. queue \in Nat /\ tasks \in Nat
    BY <1>2 DEF IInv, TypeOK
  <2>2. Work => TasksLeft' < TasksLeft /\ TasksLeft' \in Int
    BY <2>1 DEF Work, TakeTask, ReadLedger, WorkerDies, TasksLeft
  <2>3. ASSUME NEW d \in Delivery, Arrive(d) \/ Serve(d) \/ Crash(d), ~Enqueue(d)
        PROVE  TasksLeft' = TasksLeft
    BY <2>3 DEF Arrive, Serve, Crash, CallProvider, RecordAnswer, RecordError,
         RaiseUnrecorded, AnswerList, AnswerOrder, RefuseWebhook, RefusePayload,
         RefuseUpload, BeginFails, SelectExisting, InsertRow, InsertConflicts,
         DeadlockVictim, Commit, EnqueueFails, queueVars, TasksLeft
  <2>4. UNCHANGED vars => TasksLeft' = TasksLeft
    BY DEF vars, queueVars, TasksLeft
  <2>5. TasksLeft \in Nat
    BY <2>1 DEF TasksLeft
  <2>6. TasksLeft' > TasksLeft => ~Work /\ TasksLeft' # TasksLeft
    BY <2>2, <2>5
  <2> QED
    BY <1>2, <2>2, <2>3, <2>4, <2>6, Zenon DEF Next
<1> QED
  BY <1>1, <1>2, Invariance, PTL DEF Spec, EveryStepCounts

=============================================================================
