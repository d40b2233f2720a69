-------------------------- MODULE RunServiceProofs --------------------------
(***************************************************************************)
(* Theorems of module RunService, for every ledger, set of requests and    *)
(* number of concurrent calls.                                             *)
(*                                                                         *)
(* IInv is the inductive invariant.  Its heart is what connects the open   *)
(* transactions to the committed rows: the rows a call has pending are     *)
(* those of a key that is not committed, and no two calls have rows        *)
(* pending for one key; publishing them can then neither replace a run nor *)
(* meet one.                                                               *)
(***************************************************************************)
EXTENDS RunService, FiniteSetTheorems, TLAPS

\* The stored rows tell what c answered.
OnFile(c) ==
    /\ answer[c].run \in DOMAIN runs
    /\ answer[c].matched = Len(runs[answer[c].run].matches)
    /\ answer[c].excepted = Len(runs[answer[c].run].exceptions)

\* Rows are pending only for a key that no committed run has.
PendingIsNew(c) ==
    pending[c] # NoRows =>
        /\ pc[c] \in {"reconcile", "leave-scope", "return"}
        /\ Key(c) \notin DOMAIN runs
        /\ pc[c] # "reconcile" => pending[c] = DoneRow(ids[c]) /\ Loadable(c)

OneWriterPerKey ==
    \A c, d \in Call :
        (c # d /\ pending[c] # NoRows /\ pending[d] # NoRows) => Key(c) # Key(d)

\* What a call has answered, before and after it leaves the scope.
AnswerIsEarned(c) ==
    /\ pc[c] \in {"idle", "select-left", "select-right", "get-run",
                  "insert-run", "reconcile"} => answer[c] = NoAnswer
    /\ pc[c] \in {"leave-scope", "return"} =>
          /\ answer[c].outcome = "ok"
          /\ pending[c] = NoRows => OnFile(c)
          /\ pending[c] # NoRows =>
                answer[c] = Summary(Key(c), Len(ids[c][1]), ResultOf[ids[c]])
    /\ pc[c] = "ended" /\ answer[c].outcome = "ok" /\ Persists(c) => OnFile(c)
    /\ answer[c].outcome = "ok" => answer[c].run = Key(c)

\* Where each kind of call is, and who owns its transaction.
ScopeIsKnown(c) ==
    /\ pc[c] = "reconcile" => pending[c] = RunningRow(ids[c])
    /\ pc[c] \in {"select-left", "select-right"} => via[c] \in {"api-all", "all"}
    /\ pc[c] = "select-right" =>
          ids[c] \in Selected(BookLine) \X Selected(GatewayLine)
    /\ via[c] = "task" =>
          /\ pc[c] = "get-run" => session[c] = "fresh"
          /\ pc[c] \in {"insert-run", "reconcile", "leave-scope"} =>
                session[c] = "owned"
          /\ pc[c] = "return" => pending[c] = NoRows

\* A run covers the bank, general-ledger and gateway lines among these.
Covers(run, lines) ==
    /\ lines \cap BookLine \subseteq run.left
    /\ run.left \subseteq BookLine
    /\ lines \cap GatewayLine \subseteq run.right
    /\ run.right \subseteq GatewayLine

\* How much of the ledger a call for everything has seen.
AllIsCovered(c) ==
    via[c] \in {"api-all", "all"} =>
        /\ pc[c] \in {"select-left", "select-right"} => onRecord[c] \subseteq stored
        /\ pc[c] = "select-right" =>
              onRecord[c] \cap BookLine \subseteq ToSet(ids[c][1])
        /\ (\/ pc[c] \in {"get-run", "insert-run", "reconcile", "leave-scope",
                           "return"}
            \/ answer[c].outcome = "ok") =>
              Covers(Key(c), onRecord[c])

CallInv(c) ==
    PendingIsNew(c) /\ AnswerIsEarned(c) /\ ScopeIsKnown(c) /\ AllIsCovered(c)

IInv ==
    /\ TypeOK
    /\ RunsAreWhole
    /\ OneWriterPerKey
    /\ \A c \in Call : CallInv(c)

-----------------------------------------------------------------------------
(* Id lists *)

LEMMA OrderCoversSet ==
    ASSUME NEW S, IsFiniteSet(S), NEW s \in SetToSeqs(S)
    PROVE  ToSet(s) = S
<1> DEFINE D == 1..Cardinality(S)
<1>1. Cardinality(S) \in Nat
  BY FS_CardinalityType
<1>2. Cardinality(D) = Cardinality(S)
  BY <1>1, FS_Interval
<1>3. s \in [D -> S] /\ \A i, j \in D : i # j => s[i] # s[j]
  BY DEF SetToSeqs
<1>4. s \in Injection(D, S)
  BY <1>3 DEF Injection, IsInjective
<1>5. s \in Surjection(D, S)
  BY <1>2, <1>4, FS_Injection
<1> QED
  BY <1>3, <1>5 DEF Surjection, ToSet

LEMMA SelectedIsOfLines ==
    ASSUME NEW lines, NEW s \in Selected(lines)
    PROVE  ToSet(s) \subseteq lines
<1>1. CASE s = <<>>
  BY <1>1 DEF ToSet
<1>2. CASE \E S \in SUBSET lines : s \in SetToSeqs(S)
  <2>1. PICK S \in SUBSET lines : s \in [1..Cardinality(S) -> S]
    BY <1>2 DEF SetToSeqs
  <2> QED
    BY <2>1 DEF ToSet
<1> QED
  BY <1>1, <1>2 DEF Selected

LEMMA KeyOfType ==
    ASSUME NEW request \in AskedFor
    PROVE  KeyOf(request) \in RunKey
<1>1. CASE request \in Request
  <2>1. request \in Seq(Line) \X Seq(Line)
    BY <1>1, RequestsAreIdLists
  <2> QED
    BY <2>1 DEF KeyOf, RunKey, ToSet
<1>2. CASE request \in Selected(BookLine) \X Selected(GatewayLine)
  <2>1. /\ ToSet(request[1]) \subseteq BookLine
        /\ ToSet(request[2]) \subseteq GatewayLine
    BY <1>2, SelectedIsOfLines
  <2> QED
    BY <2>1, LedgerIsOfLines DEF KeyOf, RunKey
<1> QED
  BY <1>1, <1>2 DEF AskedFor

LEMMA SelectionIsAskedFor ==
    /\ \A S \in SUBSET BookLine : SetToSeqs(S) \subseteq Selected(BookLine)
    /\ \A S \in SUBSET GatewayLine : SetToSeqs(S) \subseteq Selected(GatewayLine)
    /\ <<>> \in Selected(BookLine)
    /\ <<>> \in Selected(GatewayLine)
    /\ Request \subseteq AskedFor
    /\ Selected(BookLine) \X Selected(GatewayLine) \subseteq AskedFor
BY DEF Selected, AskedFor

LEMMA RowsDiffer ==
    ASSUME NEW request \in AskedFor
    PROVE  /\ RunningRow(request) # NoRows
           /\ DoneRow(request) # NoRows
           /\ RunningRow(request) # DoneRow(request)
BY NoRowsIsNoRow DEF RunningRow, DoneRow

-----------------------------------------------------------------------------
(* What a step leaves to the calls that do not take it *)

StepOf(c) ==
    CallExplicit(c) \/ CallAll(c) \/ Serve(c) \/ Crash(c)

\* No committed run changes, and any new one is what c had pending.
Published(c) ==
    \/ runs' = runs
    \/ /\ pending[c] # NoRows
       /\ runs' = Publish(c)

SameFor(d) ==
    /\ pc'[d] = pc[d] /\ via'[d] = via[d] /\ ids'[d] = ids[d]
    /\ session'[d] = session[d] /\ pending'[d] = pending[d]
    /\ answer'[d] = answer[d] /\ onRecord'[d] = onRecord[d]

LEMMA PublishKeeps ==
    ASSUME IInv, NEW c \in Call, Published(c)
    PROVE  /\ \A key \in DOMAIN runs : key \in DOMAIN runs' /\ runs'[key] = runs[key]
           /\ \A key \in DOMAIN runs' \ DOMAIN runs :
                 /\ pending[c] # NoRows
                 /\ key = Key(c)
                 /\ runs'[key] = pending[c]
           /\ DOMAIN runs' \subseteq DOMAIN runs \cup {Key(c)}
<1>1. CASE runs' = runs
  BY <1>1
<1>2. CASE pending[c] # NoRows /\ runs' = Publish(c)
  <2>1. Key(c) \notin DOMAIN runs
    BY <1>2 DEF IInv, CallInv, PendingIsNew
  <2>2. pending[c].run = Key(c)
    BY <1>2 DEF IInv, TypeOK, RunningRow, DoneRow, Key
  <2> QED
    BY <1>2, <2>1, <2>2 DEF Publish
<1> QED
  BY <1>1, <1>2 DEF Published

LEMMA Bystander ==
    ASSUME IInv, NEW c \in Call, NEW d \in Call, d # c,
           Published(c), stored \subseteq stored', SameFor(d)
    PROVE  CallInv(d)'
<1> USE DEF SameFor
<1>1. \A key \in DOMAIN runs : key \in DOMAIN runs' /\ runs'[key] = runs[key]
  BY PublishKeeps
<1>2. pending[d] # NoRows => Key(d) \notin DOMAIN runs'
  <2> SUFFICES ASSUME pending[d] # NoRows, Key(d) \in DOMAIN runs'
               PROVE  FALSE
    OBVIOUS
  <2>1. Key(d) \notin DOMAIN runs
    BY DEF IInv, CallInv, PendingIsNew
  <2>2. pending[c] # NoRows /\ Key(d) = Key(c)
    BY <2>1, PublishKeeps
  <2> QED
    BY <2>2 DEF IInv, OneWriterPerKey
<1>3. Key(d)' = Key(d)
  BY DEF Key
<1>4. CallInv(d)
  BY DEF IInv
<1>5. PendingIsNew(d)'
  BY <1>2, <1>3, <1>4 DEF CallInv, PendingIsNew, Loadable
<1>6. OnFile(d) => OnFile(d)'
  BY <1>1 DEF OnFile
<1>7. AnswerIsEarned(d)'
  BY <1>3, <1>4, <1>6 DEF CallInv, AnswerIsEarned, Persists
<1>8. ScopeIsKnown(d)'
  BY <1>4 DEF CallInv, ScopeIsKnown
<1>9. AllIsCovered(d)'
  BY <1>3, <1>4 DEF CallInv, AllIsCovered
<1> QED
  BY <1>5, <1>7, <1>8, <1>9 DEF CallInv

\* Publishing keeps runs whole: the rows of a call that is past the engine
\* are those of a finished run whose lines are stored.
LEMMA PublishIsWhole ==
    ASSUME IInv, NEW c \in Call, Published(c), stored \subseteq stored',
           pc[c] # "reconcile"
    PROVE  /\ RunsAreWhole'
           /\ DOMAIN runs' \subseteq RunKey
           /\ \A key \in DOMAIN runs' : runs'[key].made \in AskedFor
<1>1. /\ ids[c] \in AskedFor
      /\ Key(c) \in RunKey
  BY KeyOfType DEF IInv, TypeOK, Key
<1>2. \A key \in DOMAIN runs' \ DOMAIN runs :
         /\ key = Key(c) /\ runs'[key] = DoneRow(ids[c]) /\ Loadable(c)
  BY PublishKeeps DEF IInv, CallInv, PendingIsNew
<1>3. /\ DoneRow(ids[c]).made = ids[c]
      /\ DoneRow(ids[c]).run = Key(c)
  BY DEF DoneRow, Key
<1>4. Loadable(c) => Key(c).left \cup Key(c).right \subseteq stored
  BY DEF Loadable, Key, KeyOf
<1>5. \A key \in DOMAIN runs :
         /\ runs[key] = DoneRow(runs[key].made) /\ runs[key].run = key
         /\ key.left \cup key.right \subseteq stored
         /\ key \in RunKey /\ runs[key].made \in AskedFor
  BY DEF IInv, RunsAreWhole, RunsStored, TypeOK
<1>6. \A key \in DOMAIN runs' :
         /\ runs'[key] = DoneRow(runs'[key].made) /\ runs'[key].run = key
         /\ key.left \cup key.right \subseteq stored'
         /\ key \in RunKey /\ runs'[key].made \in AskedFor
  <2> TAKE key \in DOMAIN runs'
  <2>1. CASE key \in DOMAIN runs
    BY <2>1, <1>5, PublishKeeps
  <2>2. CASE key \notin DOMAIN runs
    BY <2>2, <1>1, <1>2, <1>3, <1>4
  <2> QED
    BY <2>1, <2>2
<1> QED
  BY <1>6 DEF RunsAreWhole, RunsStored

-----------------------------------------------------------------------------
(* One step of a call *)

Pc == {"idle", "select-left", "select-right", "get-run", "insert-run",
       "reconcile", "leave-scope", "return", "ended"}

CallTypes ==
    /\ pc \in [Call -> Pc]
    /\ via \in [Call -> Via]
    /\ ids \in [Call -> AskedFor]
    /\ session \in [Call -> {"fresh", "autobegun", "owned"}]
    /\ DOMAIN pending = Call
    /\ \A c \in Call :
          pending[c] \in {NoRows, RunningRow(ids[c]), DoneRow(ids[c])}
    /\ DOMAIN answer = Call
    /\ \A c \in Call : answer[c].outcome \in {"none", "ok", "error"}
    /\ onRecord \in [Call -> SUBSET Line]

LEMMA TypeParts ==
    TypeOK <=> /\ stored \subseteq Line
               /\ DOMAIN runs \subseteq RunKey
               /\ \A key \in DOMAIN runs : runs[key].made \in AskedFor
               /\ CallTypes
BY DEF TypeOK, CallTypes, Pc

\* What is left to show of a step once the call that takes it is settled.
LEMMA StepKeeps ==
    ASSUME IInv, NEW c \in Call, stored' = stored,
           \/ runs' = runs
           \/ pc[c] # "reconcile" /\ pending[c] # NoRows /\ runs' = Publish(c),
           \A d \in Call \ {c} : SameFor(d),
           CallTypes', CallInv(c)',
           \/ pending'[c] = NoRows
           \/ ids'[c] = ids[c] /\ (pending[c] # NoRows \/ ~KeyIsHeld(c))
    PROVE  IInv'
<1>1. Published(c)
  BY DEF Published
<1>2. \A d \in Call : CallInv(d)'
  BY <1>1, Bystander
<1>3. /\ RunsAreWhole'
      /\ DOMAIN runs' \subseteq RunKey
      /\ \A key \in DOMAIN runs' : runs'[key].made \in AskedFor
  <2>1. CASE runs' = runs
    BY <2>1 DEF IInv, RunsAreWhole, RunsStored, TypeOK
  <2>2. CASE runs' # runs
    BY <2>2, <1>1, PublishIsWhole
  <2> QED
    BY <2>1, <2>2
<1>4. TypeOK'
  <2>1. stored' \subseteq Line
    BY DEF IInv, TypeOK
  <2> QED
    BY <2>1, <1>3 DEF TypeOK, CallTypes, Pc
<1>5. OneWriterPerKey'
  <2> SUFFICES ASSUME NEW a \in Call, NEW b \in Call, a # b,
                      pending'[a] # NoRows, pending'[b] # NoRows
               PROVE  Key(a)' # Key(b)'
    BY DEF OneWriterPerKey
  <2>1. ASSUME NEW d \in Call \ {c}, pending'[d] # NoRows, pending'[c] # NoRows
        PROVE  Key(d)' # Key(c)'
    <3>1. pending'[d] = pending[d] /\ Key(d)' = Key(d) /\ Key(c)' = Key(c)
      BY <2>1 DEF SameFor, Key
    <3>2. CASE pending[c] # NoRows
      BY <3>1, <3>2, <2>1 DEF IInv, OneWriterPerKey
    <3>3. CASE ~KeyIsHeld(c)
      <4>1. pending[d].run = Key(d)
        BY <2>1, <3>1 DEF IInv, TypeOK, RunningRow, DoneRow, Key
      <4> QED
        BY <3>1, <3>3, <4>1, <2>1 DEF KeyIsHeld
    <3> QED
      BY <2>1, <3>2, <3>3
  <2>2. CASE a = c
    BY <2>1, <2>2
  <2>3. CASE b = c
    BY <2>1, <2>3
  <2>4. CASE a # c /\ b # c
    <3>1. /\ pending'[a] = pending[a] /\ Key(a)' = Key(a)
          /\ pending'[b] = pending[b] /\ Key(b)' = Key(b)
      BY <2>4 DEF SameFor, Key
    <3> QED
      BY <3>1 DEF IInv, OneWriterPerKey
  <2> QED
    BY <2>2, <2>3, <2>4
<1> QED
  BY <1>2, <1>3, <1>4, <1>5 DEF IInv

LEMMA FailKeeps ==
    ASSUME IInv, NEW c \in Call, Fail(c), pc[c] # "idle"
    PROVE  IInv'
<1> USE DEF Fail, dbVars
<1>1. CallTypes
  BY TypeParts DEF IInv
<1>2. CallTypes'
  BY <1>1 DEF CallTypes, Pc, Failure
<1>3. /\ pc'[c] = "ended" /\ answer'[c] = Failure /\ pending'[c] = NoRows
      /\ ids'[c] = ids[c] /\ via'[c] = via[c] /\ onRecord'[c] = onRecord[c]
  BY <1>1 DEF CallTypes
<1>4. \A d \in Call \ {c} : SameFor(d)
  BY <1>1 DEF CallTypes, SameFor
<1>5. CallInv(c)
  BY DEF IInv
<1>6. Key(c)' = Key(c)
  BY <1>3 DEF Key
<1>7. PendingIsNew(c)' /\ ScopeIsKnown(c)'
  BY <1>3 DEF PendingIsNew, ScopeIsKnown
<1>8. AnswerIsEarned(c)' /\ AllIsCovered(c)'
  BY <1>3 DEF AnswerIsEarned, AllIsCovered, Failure
<1>9. CallInv(c)'
  BY <1>7, <1>8 DEF CallInv
<1> QED
  BY <1>2, <1>3, <1>4, <1>9, StepKeeps

LEMMA CallExplicitKeeps ==
    ASSUME IInv, NEW c \in Call, CallExplicit(c)
    PROVE  IInv'
<1> USE DEF CallExplicit, dbVars
<1>1. CallTypes
  BY TypeParts DEF IInv
<1>2. PICK request \in Request, how \in {"api", "task"} :
         /\ via' = [via EXCEPT ![c] = how]
         /\ ids' = [ids EXCEPT ![c] = request]
         /\ session' = [session EXCEPT ![c] =
               IF how = "api" THEN "autobegun" ELSE "fresh"]
  OBVIOUS
<1>3. request \in AskedFor
  BY DEF AskedFor
<1>4. pending[c] = NoRows /\ answer[c] = NoAnswer
  BY DEF IInv, CallInv, PendingIsNew, AnswerIsEarned
<1>5. /\ pc'[c] = "get-run" /\ via'[c] = how /\ pending'[c] = NoRows
      /\ answer'[c] = NoAnswer
      /\ session'[c] = IF how = "api" THEN "autobegun" ELSE "fresh"
  BY <1>1, <1>2, <1>4 DEF CallTypes
<1>6. CallTypes'
  <2>1. \A d \in Call : pending'[d] \in {NoRows, RunningRow(ids'[d]), DoneRow(ids'[d])}
    BY <1>1, <1>2, <1>4 DEF CallTypes
  <2> QED
    BY <1>1, <1>2, <1>3, <2>1 DEF CallTypes, Pc, Via
<1>7. \A d \in Call \ {c} : SameFor(d)
  BY <1>1, <1>2 DEF CallTypes, SameFor
<1>8. CallInv(c)'
  BY <1>5 DEF CallInv, PendingIsNew, AnswerIsEarned, ScopeIsKnown, AllIsCovered,
              NoAnswer
<1> QED
  BY <1>5, <1>6, <1>7, <1>8, StepKeeps

LEMMA CallAllKeeps ==
    ASSUME IInv, NEW c \in Call, CallAll(c)
    PROVE  IInv'
<1> USE DEF CallAll, dbVars
<1>1. CallTypes /\ stored \subseteq Line
  BY TypeParts DEF IInv
<1>2. PICK how \in {"api-all", "all"} :
         /\ via' = [via EXCEPT ![c] = how]
         /\ session' = [session EXCEPT ![c] =
               IF how = "api-all" THEN "autobegun" ELSE "fresh"]
  OBVIOUS
<1>3. pending[c] = NoRows /\ answer[c] = NoAnswer
  BY DEF IInv, CallInv, PendingIsNew, AnswerIsEarned
<1>4. /\ pc'[c] = "select-left" /\ via'[c] = how /\ pending'[c] = NoRows
      /\ answer'[c] = NoAnswer /\ onRecord'[c] = stored
  BY <1>1, <1>2, <1>3 DEF CallTypes
<1>5. CallTypes'
  BY <1>1, <1>2 DEF CallTypes, Pc, Via
<1>6. \A d \in Call \ {c} : SameFor(d)
  BY <1>1, <1>2 DEF CallTypes, SameFor
<1>7. CallInv(c)'
  BY <1>4 DEF CallInv, PendingIsNew, AnswerIsEarned, ScopeIsKnown, AllIsCovered,
              NoAnswer
<1> QED
  BY <1>4, <1>5, <1>6, <1>7, StepKeeps

LEMMA SelectLeftKeeps ==
    ASSUME IInv, NEW c \in Call, SelectLeft(c)
    PROVE  IInv'
<1> USE DEF SelectLeft, dbVars
<1>1. CallTypes /\ stored \subseteq Line
  BY TypeParts DEF IInv
<1>2. PICK lines \in SetToSeqs(stored \cap BookLine) :
         ids' = [ids EXCEPT ![c] = <<lines, <<>>>>]
  OBVIOUS
<1>3. <<lines, <<>>>> \in Selected(BookLine) \X Selected(GatewayLine)
  BY <1>1, <1>2, SelectionIsAskedFor
<1>4. <<lines, <<>>>> \in AskedFor
  BY <1>3, SelectionIsAskedFor
<1>5. ToSet(lines) = stored \cap BookLine
  <2>1. IsFiniteSet(stored \cap BookLine)
    BY <1>1, LedgerIsFinite, FS_Subset
  <2> QED
    BY <2>1, OrderCoversSet
<1>6. CallInv(c)
  BY DEF IInv
<1>7. /\ pending[c] = NoRows /\ answer[c] = NoAnswer
      /\ via[c] \in {"api-all", "all"} /\ onRecord[c] \subseteq stored
  BY <1>6 DEF CallInv, PendingIsNew, AnswerIsEarned, ScopeIsKnown, AllIsCovered
<1>8. /\ pc'[c] = "select-right" /\ via'[c] = via[c] /\ pending'[c] = NoRows
      /\ answer'[c] = NoAnswer /\ onRecord'[c] = onRecord[c]
      /\ ids'[c] = <<lines, <<>>>> /\ ids'[c][1] = lines
  BY <1>1, <1>2, <1>7 DEF CallTypes
<1>9. CallTypes'
  <2>1. \A d \in Call : pending'[d] \in {NoRows, RunningRow(ids'[d]), DoneRow(ids'[d])}
    BY <1>1, <1>2, <1>7 DEF CallTypes
  <2> QED
    BY <1>1, <1>2, <1>4, <2>1 DEF CallTypes, Pc
<1>10. \A d \in Call \ {c} : SameFor(d)
  BY <1>1, <1>2 DEF CallTypes, SameFor
<1>11. AllIsCovered(c)'
  BY <1>5, <1>7, <1>8 DEF AllIsCovered, NoAnswer
<1>12. CallInv(c)'
  BY <1>3, <1>7, <1>8, <1>11 DEF CallInv, PendingIsNew, AnswerIsEarned, ScopeIsKnown,
                                 NoAnswer
<1> QED
  BY <1>8, <1>9, <1>10, <1>12, StepKeeps

LEMMA SelectRightKeeps ==
    ASSUME IInv, NEW c \in Call, SelectRight(c)
    PROVE  IInv'
<1> USE DEF SelectRight, dbVars
<1>1. CallTypes /\ stored \subseteq Line
  BY TypeParts DEF IInv
<1>2. PICK lines \in SetToSeqs(stored \cap GatewayLine) :
         ids' = [ids EXCEPT ![c] = <<ids[c][1], lines>>]
  OBVIOUS
<1>3. CallInv(c)
  BY DEF IInv
<1>4. /\ pending[c] = NoRows /\ answer[c] = NoAnswer
      /\ via[c] \in {"api-all", "all"} /\ onRecord[c] \subseteq stored
      /\ onRecord[c] \cap BookLine \subseteq ToSet(ids[c][1])
      /\ ids[c] \in Selected(BookLine) \X Selected(GatewayLine)
  BY <1>3 DEF CallInv, PendingIsNew, AnswerIsEarned, ScopeIsKnown, AllIsCovered
<1>5. <<ids[c][1], lines>> \in AskedFor
  BY <1>2, <1>4, SelectionIsAskedFor
<1>6. ToSet(lines) = stored \cap GatewayLine
  <2>1. IsFiniteSet(stored \cap GatewayLine)
    BY <1>1, LedgerIsFinite, FS_Subset
  <2> QED
    BY <2>1, OrderCoversSet
<1>7. /\ pc'[c] = "get-run" /\ via'[c] = via[c] /\ pending'[c] = NoRows
      /\ answer'[c] = NoAnswer /\ onRecord'[c] = onRecord[c]
      /\ ids'[c][1] = ids[c][1] /\ ids'[c][2] = lines
  BY <1>1, <1>2, <1>4 DEF CallTypes
<1>8. CallTypes'
  <2>1. \A d \in Call : pending'[d] \in {NoRows, RunningRow(ids'[d]), DoneRow(ids'[d])}
    BY <1>1, <1>2, <1>4 DEF CallTypes
  <2> QED
    BY <1>1, <1>2, <1>5, <2>1 DEF CallTypes, Pc
<1>9. \A d \in Call \ {c} : SameFor(d)
  BY <1>1, <1>2 DEF CallTypes, SameFor
<1>10. Covers(Key(c)', onRecord[c])
  <2>1. ToSet(ids[c][1]) \subseteq BookLine
    BY <1>4, SelectedIsOfLines
  <2> QED
    BY <1>4, <1>6, <1>7, <2>1 DEF Key, KeyOf, Covers
<1>11. CallInv(c)'
  BY <1>4, <1>7, <1>10 DEF CallInv, PendingIsNew, AnswerIsEarned, ScopeIsKnown,
                           AllIsCovered, NoAnswer
<1> QED
  BY <1>7, <1>8, <1>9, <1>11, StepKeeps

LEMMA GetRunKeeps ==
    ASSUME IInv, NEW c \in Call, GetRun(c)
    PROVE  IInv'
<1> DEFINE done == Key(c) \in DOMAIN runs /\ runs[Key(c)].status = "done"
<1> USE DEF GetRun, dbVars
<1>1. CallTypes
  BY TypeParts DEF IInv
<1>2. CallInv(c)
  BY DEF IInv
<1>3. pending[c] = NoRows /\ answer[c] = NoAnswer
  BY <1>2 DEF CallInv, PendingIsNew, AnswerIsEarned
<1>4. Key(c) \in DOMAIN runs => done
  BY DEF IInv, RunsAreWhole, DoneRow
<1>5. /\ pc'[c] = IF done THEN "leave-scope" ELSE "insert-run"
      /\ answer'[c] = IF done THEN Summary(Key(c), Len(ids[c][1]), runs[Key(c)])
                      ELSE NoAnswer
      /\ session'[c] = IF session[c] = "fresh" THEN "owned" ELSE session[c]
      /\ via'[c] = via[c] /\ pending'[c] = NoRows /\ onRecord'[c] = onRecord[c]
      /\ ids'[c] = ids[c] /\ runs' = runs
  BY <1>1, <1>3, <1>4 DEF CallTypes
<1>6. CallTypes'
  <2>1. pc' \in [Call -> Pc] /\ session' \in [Call -> {"fresh", "autobegun", "owned"}]
    BY <1>1 DEF CallTypes, Pc
  <2>2. DOMAIN answer' = Call /\ \A d \in Call : answer'[d].outcome \in {"none", "ok", "error"}
    BY <1>1 DEF CallTypes, Summary
  <2> QED
    BY <1>1, <2>1, <2>2 DEF CallTypes
<1>7. \A d \in Call \ {c} : SameFor(d)
  BY <1>1 DEF CallTypes, SameFor
<1>8. Key(c)' = Key(c)
  BY <1>5 DEF Key
<1>9. PendingIsNew(c)' /\ ScopeIsKnown(c)'
  BY <1>2, <1>5 DEF CallInv, PendingIsNew, ScopeIsKnown
<1>10. AllIsCovered(c)'
  BY <1>2, <1>5, <1>8 DEF CallInv, AllIsCovered
<1>11. AnswerIsEarned(c)'
  BY <1>5, <1>8 DEF AnswerIsEarned, OnFile, Summary, NoAnswer
<1>12. CallInv(c)'
  BY <1>9, <1>10, <1>11 DEF CallInv
<1> QED
  BY <1>5, <1>6, <1>7, <1>12, StepKeeps

LEMMA InsertRunKeeps ==
    ASSUME IInv, NEW c \in Call, InsertRun(c)
    PROVE  IInv'
<1> USE DEF InsertRun, dbVars
<1>1. CallTypes
  BY TypeParts DEF IInv
<1>2. CallInv(c)
  BY DEF IInv
<1>3. /\ pc'[c] = "reconcile" /\ pending'[c] = RunningRow(ids[c])
      /\ answer'[c] = answer[c] /\ session'[c] = session[c]
      /\ via'[c] = via[c] /\ onRecord'[c] = onRecord[c]
      /\ ids'[c] = ids[c] /\ runs' = runs
  BY <1>1 DEF CallTypes
<1>4. CallTypes'
  BY <1>1 DEF CallTypes, Pc
<1>5. \A d \in Call \ {c} : SameFor(d)
  BY <1>1 DEF CallTypes, SameFor
<1>6. Key(c)' = Key(c)
  BY <1>3 DEF Key
<1>7. PendingIsNew(c)' /\ ScopeIsKnown(c)'
  BY <1>2, <1>3, <1>6 DEF CallInv, PendingIsNew, ScopeIsKnown
<1>8. AnswerIsEarned(c)' /\ AllIsCovered(c)'
  BY <1>2, <1>3, <1>6 DEF CallInv, AllIsCovered, AnswerIsEarned, NoAnswer
<1>9. CallInv(c)'
  BY <1>7, <1>8 DEF CallInv
<1> QED
  BY <1>3, <1>4, <1>5, <1>9, StepKeeps

LEMMA ReconcileRowsKeeps ==
    ASSUME IInv, NEW c \in Call, ReconcileRows(c)
    PROVE  IInv'
<1> USE DEF ReconcileRows, dbVars
<1>1. CallTypes
  BY TypeParts DEF IInv
<1>2. CallInv(c)
  BY DEF IInv
<1>3. /\ pc'[c] = "leave-scope" /\ pending'[c] = DoneRow(ids[c])
      /\ answer'[c] = Summary(Key(c), Len(ids[c][1]), ResultOf[ids[c]])
      /\ session'[c] = session[c] /\ via'[c] = via[c]
      /\ onRecord'[c] = onRecord[c] /\ ids'[c] = ids[c] /\ runs' = runs
      /\ stored' = stored
  BY <1>1 DEF CallTypes
<1>4. CallTypes'
  <2>1. DOMAIN answer' = Call /\ \A d \in Call : answer'[d].outcome \in {"none", "ok", "error"}
    BY <1>1 DEF CallTypes, Summary
  <2> QED
    BY <1>1, <2>1 DEF CallTypes, Pc
<1>5. \A d \in Call \ {c} : SameFor(d)
  BY <1>1 DEF CallTypes, SameFor
<1>6. Key(c)' = Key(c)
  BY <1>3 DEF Key
<1>7. ids[c] \in AskedFor
  BY <1>1 DEF CallTypes
<1>8. pending[c] # NoRows /\ pending'[c] # NoRows /\ Key(c) \notin DOMAIN runs
  BY <1>2, <1>3, <1>7, RowsDiffer DEF CallInv, ScopeIsKnown, PendingIsNew
<1>9. PendingIsNew(c)'
  BY <1>3, <1>6, <1>8 DEF PendingIsNew, Loadable
<1>10. ScopeIsKnown(c)' /\ AllIsCovered(c)'
  BY <1>2, <1>3, <1>6 DEF CallInv, ScopeIsKnown, AllIsCovered
<1>11. AnswerIsEarned(c)'
  <2>1. answer'[c] = Summary(Key(c), Len(ids[c][1]), ResultOf[ids[c]])'
    BY <1>3, <1>6
  <2>2. answer'[c].run = Key(c)' /\ answer'[c].outcome = "ok"
    BY <1>3, <1>6 DEF Summary
  <2> QED
    BY <1>3, <1>8, <2>1, <2>2 DEF AnswerIsEarned
<1>12. CallInv(c)'
  BY <1>9, <1>10, <1>11 DEF CallInv
<1> QED
  BY <1>3, <1>4, <1>5, <1>8, <1>12, StepKeeps

\* A call whose rows are published has an answer on file.
LEMMA PublishedIsOnFile ==
    ASSUME IInv, NEW c \in Call, pc[c] \in {"leave-scope", "return"},
           runs' = Publish(c), answer'[c] = answer[c]
    PROVE  OnFile(c)'
<1>1. CallInv(c)
  BY DEF IInv
<1>2. CASE pending[c] = NoRows
  BY <1>1, <1>2 DEF CallInv, AnswerIsEarned, OnFile, Publish
<1>3. CASE pending[c] # NoRows
  <2>1. /\ pending[c] = DoneRow(ids[c])
        /\ answer[c] = Summary(Key(c), Len(ids[c][1]), ResultOf[ids[c]])
    BY <1>1, <1>3 DEF CallInv, AnswerIsEarned, PendingIsNew
  <2>2. pending[c].run = Key(c) /\ answer[c].run = Key(c)
    BY <2>1 DEF DoneRow, Summary, Key
  <2>3. answer[c].run \in DOMAIN runs' /\ runs'[answer[c].run] = DoneRow(ids[c])
    BY <1>3, <2>1, <2>2 DEF Publish
  <2> QED
    BY <2>1, <2>3 DEF OnFile, DoneRow, Summary
<1> QED
  BY <1>2, <1>3

LEMMA LeaveScopeKeeps ==
    ASSUME IInv, NEW c \in Call, LeaveScope(c)
    PROVE  IInv'
<1> USE DEF LeaveScope
<1>1. CallTypes
  BY TypeParts DEF IInv
<1>2. CallInv(c)
  BY DEF IInv
<1>3. /\ pc'[c] = "return" /\ answer'[c] = answer[c] /\ session'[c] = session[c]
      /\ via'[c] = via[c] /\ onRecord'[c] = onRecord[c] /\ ids'[c] = ids[c]
      /\ stored' = stored
  BY <1>1 DEF CallTypes
<1>4. CASE session[c] = "owned"
  <2>1. runs' = Publish(c) /\ pending'[c] = NoRows
    BY <1>1, <1>4 DEF CallTypes
  <2>2. CallTypes'
    BY <1>1, <1>4 DEF CallTypes, Pc
  <2>3. \A d \in Call \ {c} : SameFor(d)
    BY <1>1, <1>4 DEF CallTypes, SameFor
  <2>4. OnFile(c)'
    BY <1>3, <2>1, PublishedIsOnFile
  <2>5. Key(c)' = Key(c)
    BY <1>3 DEF Key
  <2>6. PendingIsNew(c)' /\ ScopeIsKnown(c)'
    BY <1>3, <2>1 DEF PendingIsNew, ScopeIsKnown
  <2>7. AnswerIsEarned(c)' /\ AllIsCovered(c)'
    BY <1>2, <1>3, <2>1, <2>4, <2>5 DEF CallInv, AnswerIsEarned, AllIsCovered
  <2>8. CallInv(c)'
    BY <2>6, <2>7 DEF CallInv
  <2>9. runs' = runs \/ (pending[c] # NoRows /\ runs' = Publish(c))
    BY <2>1 DEF Publish
  <2> QED
    BY <1>3, <2>1, <2>2, <2>3, <2>8, <2>9, StepKeeps
<1>5. CASE session[c] # "owned"
  <2>1. runs' = runs /\ pending' = pending
    BY <1>5
  <2>2. CallTypes'
    BY <1>1, <2>1 DEF CallTypes, Pc
  <2>3. \A d \in Call \ {c} : SameFor(d)
    BY <1>1, <2>1 DEF CallTypes, SameFor
  <2>4. Key(c)' = Key(c)
    BY <1>3 DEF Key
  <2>5. PendingIsNew(c)' /\ AllIsCovered(c)'
    BY <1>2, <1>3, <2>1, <2>4 DEF CallInv, PendingIsNew, AllIsCovered, Loadable
  <2>6. ScopeIsKnown(c)'
    BY <1>2, <1>3, <1>5, <2>1 DEF CallInv, ScopeIsKnown
  <2>7. AnswerIsEarned(c)'
    <3>1. OnFile(c) => OnFile(c)'
      BY <1>3, <2>1 DEF OnFile
    <3> QED
      BY <1>2, <1>3, <2>1, <2>4, <3>1 DEF CallInv, AnswerIsEarned
  <2>8. CallInv(c)'
    BY <2>5, <2>6, <2>7 DEF CallInv
  <2> QED
    BY <1>3, <2>1, <2>2, <2>3, <2>8, StepKeeps
<1> QED
  BY <1>4, <1>5

LEMMA ReturnKeeps ==
    ASSUME IInv, NEW c \in Call, Return(c)
    PROVE  IInv'
<1> USE DEF Return
<1>1. CallTypes
  BY TypeParts DEF IInv
<1>2. CallInv(c)
  BY DEF IInv
<1>3. /\ pc'[c] = "ended" /\ answer'[c] = answer[c] /\ pending'[c] = NoRows
      /\ via'[c] = via[c] /\ onRecord'[c] = onRecord[c] /\ ids'[c] = ids[c]
      /\ stored' = stored
  BY <1>1 DEF CallTypes
<1>4. CallTypes'
  BY <1>1 DEF CallTypes, Pc
<1>5. \A d \in Call \ {c} : SameFor(d)
  BY <1>1 DEF CallTypes, SameFor
<1>6. runs' = runs \/ (pending[c] # NoRows /\ runs' = Publish(c))
  BY DEF Publish
<1>7. Persists(c) => OnFile(c)'
  <2>1. CASE via[c] \in {"api", "api-all"}
    <3>1. runs' = Publish(c)
      BY <2>1
    <3> QED
      BY <1>3, <3>1, PublishedIsOnFile
  <2>2. CASE via[c] = "task"
    <3>1. runs' = runs
      BY <2>2
    <3>2. OnFile(c)
      BY <1>2, <2>2 DEF CallInv, ScopeIsKnown, AnswerIsEarned
    <3> QED
      BY <1>3, <3>1, <3>2 DEF OnFile
  <2> QED
    BY <1>1, <2>1, <2>2 DEF CallTypes, Via, Persists
<1>8. Key(c)' = Key(c)
  BY <1>3 DEF Key
<1>9. PendingIsNew(c)' /\ ScopeIsKnown(c)'
  BY <1>3 DEF PendingIsNew, ScopeIsKnown
<1>10. AnswerIsEarned(c)' /\ AllIsCovered(c)'
  BY <1>2, <1>3, <1>7, <1>8 DEF CallInv, AnswerIsEarned, AllIsCovered, Persists
<1>11. CallInv(c)'
  BY <1>9, <1>10 DEF CallInv
<1> QED
  BY <1>3, <1>4, <1>5, <1>6, <1>11, StepKeeps

\* Ledger lines are only ever added.
LEMMA IngestionKeeps ==
    ASSUME IInv, stored \subseteq stored', stored' \subseteq Line,
           UNCHANGED <<runs, pc, via, ids, session, pending, answer, onRecord>>
    PROVE  IInv'
<1>1. stored \subseteq stored' /\ stored' \subseteq Line
  OBVIOUS
<1>2. UNCHANGED <<runs, pc, via, ids, session, pending, answer, onRecord>>
  OBVIOUS
<1>3. TypeOK'
  BY <1>1, <1>2 DEF IInv, TypeOK
<1>4. RunsAreWhole' /\ OneWriterPerKey'
  <2>1. RunsAreWhole'
    BY <1>1, <1>2 DEF IInv, RunsAreWhole, RunsStored
  <2>2. \A c \in Call : Key(c)' = Key(c)
    BY <1>2 DEF Key
  <2> QED
    BY <1>2, <2>1, <2>2 DEF IInv, OneWriterPerKey
<1>5. ASSUME NEW c \in Call PROVE CallInv(c)'
  <2>1. CallInv(c)
    BY DEF IInv
  <2>2. Key(c)' = Key(c)
    BY <1>2 DEF Key
  <2>3. PendingIsNew(c)' /\ AllIsCovered(c)'
    BY <1>1, <1>2, <2>1, <2>2 DEF CallInv, PendingIsNew, AllIsCovered, Loadable
  <2>4. ScopeIsKnown(c)'
    BY <1>2, <2>1 DEF CallInv, ScopeIsKnown
  <2>5. AnswerIsEarned(c)'
    BY <1>2, <2>1, <2>2 DEF CallInv, AnswerIsEarned, OnFile, Persists
  <2> QED
    BY <2>3, <2>4, <2>5 DEF CallInv
<1> QED
  BY <1>3, <1>4, <1>5 DEF IInv

-----------------------------------------------------------------------------
(* The invariant and the theorems *)

LEMMA InitIInv == Init => IInv
<1> SUFFICES ASSUME Init PROVE IInv
  OBVIOUS
<1> USE DEF Init
<1>1. <<<<>>, <<>>>> \in Selected(BookLine) \X Selected(GatewayLine)
  BY SelectionIsAskedFor
<1>2. <<<<>>, <<>>>> \in AskedFor
  BY <1>1, SelectionIsAskedFor
<1>3. TypeOK
  BY <1>2 DEF TypeOK, Via, NoAnswer
<1>4. RunsAreWhole /\ OneWriterPerKey
  BY DEF RunsAreWhole, RunsStored, OneWriterPerKey
<1>5. \A c \in Call : CallInv(c)
  BY DEF CallInv, PendingIsNew, AnswerIsEarned, ScopeIsKnown, AllIsCovered, NoAnswer
<1> QED
  BY <1>3, <1>4, <1>5 DEF IInv

LEMMA ServeKeeps ==
    ASSUME IInv, NEW c \in Call, Serve(c)
    PROVE  IInv'
<1>1. CASE InsertConflicts(c)
  BY <1>1, FailKeeps DEF InsertConflicts
<1>2. CASE RowsMissing(c)
  BY <1>2, FailKeeps DEF RowsMissing
<1>3. CASE LagDoesNotFit(c)
  BY <1>3, FailKeeps DEF LagDoesNotFit
<1> QED
  BY <1>1, <1>2, <1>3, SelectLeftKeeps, SelectRightKeeps, GetRunKeeps,
     InsertRunKeeps, ReconcileRowsKeeps, LeaveScopeKeeps, ReturnKeeps DEF Serve

LEMMA NextIInv == IInv /\ [Next]_vars => IInv'
<1> SUFFICES ASSUME IInv, [Next]_vars PROVE IInv'
  OBVIOUS
<1>1. CASE IngestLine
  BY <1>1, IngestionKeeps DEF IngestLine, IInv, TypeOK
<1>2. ASSUME NEW c \in Call, CallExplicit(c) \/ CallAll(c) \/ Serve(c) \/ Crash(c)
      PROVE  IInv'
  <2>1. CASE Crash(c)
    BY <2>1, FailKeeps DEF Crash
  <2> QED
    BY <1>2, <2>1, CallExplicitKeeps, CallAllKeeps, ServeKeeps
<1>3. CASE UNCHANGED vars
  BY <1>3, IngestionKeeps DEF vars, IInv, TypeOK
<1> QED
  BY <1>1, <1>2, <1>3 DEF Next

THEOREM Invariance == Spec => []IInv
BY InitIInv, NextIInv, PTL DEF Spec

\* Whatever callers interleave, fail or crash, the variables of the service
\* keep their types.
THEOREM TypeCorrect == Spec => []TypeOK
<1>1. IInv => TypeOK
  BY DEF IInv
<1> QED
  BY Invariance, <1>1, PTL

\* A committed run is finished, is filed under the ids it was computed from
\* and holds one engine result, for every ledger and number of callers
\* (run_reconciliation, service.py).
THEOREM RunsWhole == Spec => []RunsAreWhole
<1>1. IInv => RunsAreWhole
  BY DEF IInv
<1> QED
  BY Invariance, <1>1, PTL

\* Only leaving the scope and create_run's commit write committed runs.
LEMMA StepsPublish ==
    ASSUME IInv, [Next]_vars
    PROVE  runs' = runs \/ \E c \in Call : Published(c)
<1>1. CASE IngestLine
  BY <1>1 DEF IngestLine
<1>2. CASE UNCHANGED vars
  BY <1>2 DEF vars
<1>3. ASSUME NEW c \in Call, CallExplicit(c) \/ CallAll(c) \/ Serve(c) \/ Crash(c)
      PROVE  runs' = runs \/ Published(c)
  BY <1>3 DEF CallExplicit, CallAll, Serve, Crash, SelectLeft, SelectRight, GetRun,
     InsertRun, InsertConflicts, RowsMissing, LagDoesNotFit, ReconcileRows,
     LeaveScope, Return, Fail, dbVars, Published, Publish
<1> QED
  BY <1>1, <1>2, <1>3 DEF Next

\* No step changes or removes a committed run (project.spec.md FR-8), for
\* every ledger and number of callers.
THEOREM HistoryKept == Spec => HistoryIsKept
<1>1. IInv /\ [Next]_vars =>
        [\A key \in DOMAIN runs : key \in DOMAIN runs' /\ runs'[key] = runs[key]]_runs
  BY StepsPublish, PublishKeeps
<1> QED
  BY Invariance, <1>1, PTL DEF Spec, HistoryIsKept

\* Every answered call, other than reconcile_all_task's, tells the counts of
\* a stored run, also when it lost a race or asked in another order.
THEOREM AnswersOnFile == Spec => []AnswersAreOnFile
<1>1. IInv => AnswersAreOnFile
  BY DEF IInv, CallInv, AnswerIsEarned, OnFile, AnswersAreOnFile
<1> QED
  BY Invariance, <1>1, PTL

\* A call for everything covers the bank, general-ledger and gateway lines of
\* the ledger as it was when the call was made, each on its side, whatever is
\* ingested between its two SELECTs, and no line of another source.
THEOREM AllCovered == Spec => []AllMeansAll
<1>1. IInv => AllMeansAll
  BY DEF IInv, CallInv, AnswerIsEarned, AllIsCovered, Covers, ForEverything,
     AllMeansAll
<1> QED
  BY Invariance, <1>1, PTL

-----------------------------------------------------------------------------
(* What is stored is what the engine answers *)

LEMMA IdListsOfLines ==
    ASSUME NEW request \in AskedFor
    PROVE  request[1] \in Seq(Line) /\ request[2] \in Seq(Line)
<1>1. ASSUME NEW lines \in SUBSET Line, NEW s \in Selected(lines)
      PROVE  s \in Seq(Line)
  <2>1. CASE \E S \in SUBSET lines : s \in SetToSeqs(S)
    <3>1. PICK S \in SUBSET lines : s \in SetToSeqs(S)
      BY <2>1
    <3>2. s \in [1..Cardinality(S) -> S]
      BY <3>1 DEF SetToSeqs
    <3>3. IsFiniteSet(S)
      BY LedgerIsFinite, FS_Subset
    <3>4. Cardinality(S) \in Nat
      BY <3>3, FS_CardinalityType
    <3> QED
      BY <3>2, <3>4
  <2>2. s = <<>> => s \in Seq(Line)
    OBVIOUS
  <2> QED
    BY <1>1, <2>1, <2>2 DEF Selected
<1>2. CASE request \in Selected(BookLine) \X Selected(GatewayLine)
  BY <1>1, <1>2, LedgerIsOfLines
<1> QED
  BY <1>2, RequestsAreIdLists DEF AskedFor

LEMMA RecordsOfLines ==
    ASSUME NEW lines \in Seq(Line)
    PROVE  /\ RecordsOf(lines) \in Seq(CanonicalLedgerRecord)
           /\ {RecordsOf(lines)[p].id : p \in DOMAIN RecordsOf(lines)} = ToSet(lines)
<1>1. PICK n \in Nat : n = Len(lines) /\ DOMAIN lines = 1..n
  OBVIOUS
<1>2. \A p \in 1..n : lines[p] \in Line
  BY <1>1
<1>3. \A p \in 1..n : /\ Ledger[lines[p]] \in CanonicalLedgerRecord
                      /\ Ledger[lines[p]].id = lines[p]
  BY <1>2, LedgerIsOfLines
<1>4. RecordsOf(lines) = [p \in 1..n |-> Ledger[lines[p]]]
  BY <1>1 DEF RecordsOf
<1>5. {RecordsOf(lines)[p].id : p \in DOMAIN RecordsOf(lines)} = {lines[p] : p \in 1..n}
  BY <1>3, <1>4
<1> QED
  BY <1>1, <1>3, <1>4, <1>5 DEF ToSet

LEMMA ResultIsReconcile ==
    ASSUME NEW request \in AskedFor
    PROVE  ResultOf[request] = Reconcile(RecordsOf(request[1]), RecordsOf(request[2]))
<1>1. ResultOf = Answers
  BY DEF ResultOf
<1> QED
  BY <1>1 DEF Answers

\* The rows of a run are what matcher.reconcile answers for two lists of
\* ledger records, whose ids are those the run is filed under.
RunsAreOfTheEngine ==
    \A key \in DOMAIN runs :
        \E lefts, rights \in Seq(CanonicalLedgerRecord) :
            /\ {lefts[p].id : p \in DOMAIN lefts} = key.left
            /\ {rights[p].id : p \in DOMAIN rights} = key.right
            /\ runs[key].matches = Reconcile(lefts, rights).matches
            /\ runs[key].exceptions = Reconcile(lefts, rights).exceptions

\* So the stored rows of every run account for its lines as Accounts says of
\* every call of the engine (EveryCallAccounts of ReconciliationProofs): one
\* match or exception for each requested left id, no right line in two
\* matches, and no line that was not asked for.
THEOREM StoredRunsAreTheEngines == Spec => []RunsAreOfTheEngine
<1>1. IInv => RunsAreOfTheEngine
  <2> SUFFICES ASSUME IInv, NEW key \in DOMAIN runs
               PROVE  \E lefts, rights \in Seq(CanonicalLedgerRecord) :
                         /\ {lefts[p].id : p \in DOMAIN lefts} = key.left
                         /\ {rights[p].id : p \in DOMAIN rights} = key.right
                         /\ runs[key].matches = Reconcile(lefts, rights).matches
                         /\ runs[key].exceptions = Reconcile(lefts, rights).exceptions
    BY DEF RunsAreOfTheEngine
  <2>1. PICK request \in AskedFor : request = runs[key].made
    BY DEF IInv, TypeOK
  <2>2. runs[key] = DoneRow(request) /\ runs[key].run = key
    BY <2>1 DEF IInv, RunsAreWhole
  <2>3. PICK lefts, rights :
           lefts = RecordsOf(request[1]) /\ rights = RecordsOf(request[2])
    OBVIOUS
  <2>4. /\ lefts \in Seq(CanonicalLedgerRecord) /\ rights \in Seq(CanonicalLedgerRecord)
        /\ {lefts[p].id : p \in DOMAIN lefts} = ToSet(request[1])
        /\ {rights[p].id : p \in DOMAIN rights} = ToSet(request[2])
    BY <2>3, IdListsOfLines, RecordsOfLines
  <2>5. key = KeyOf(request)
    BY <2>2 DEF DoneRow
  <2>6. key.left = ToSet(request[1]) /\ key.right = ToSet(request[2])
    BY <2>5 DEF KeyOf
  <2>7. /\ runs[key].matches = Reconcile(lefts, rights).matches
        /\ runs[key].exceptions = Reconcile(lefts, rights).exceptions
    BY <2>2, <2>3, ResultIsReconcile DEF DoneRow
  <2> QED
    BY <2>4, <2>6, <2>7
<1> QED
  BY Invariance, <1>1, PTL

-----------------------------------------------------------------------------
(* Nobody is stuck *)

\* A SELECT returns its rows in some order.
LEMMA SomeOrder ==
    ASSUME NEW S, IsFiniteSet(S)
    PROVE  SetToSeqs(S) # {}
<1>1. PICK n \in Nat : n = Cardinality(S)
  BY FS_CardinalityType
<1>2. PICK order \in Bijection(1..n, S) : TRUE
  BY <1>1, FS_CardinalityType DEF ExistsBijection
<1>3. order \in [1..n -> S] /\ \A i, j \in 1..n : order[i] = order[j] => i = j
  BY <1>2 DEF Bijection, Injection, IsInjective
<1>4. order \in SetToSeqs(S)
  BY <1>1, <1>3 DEF SetToSeqs
<1> QED
  BY <1>4

Served == {c \in Call : pc[c] \notin {"idle", "ended"}}

\* The guards of the steps of Serve; where there are several at one place,
\* those of which one always holds there.
CanServe(c) ==
    \/ pc[c] = "select-left" /\ SetToSeqs(stored \cap BookLine) # {}
    \/ pc[c] = "select-right" /\ SetToSeqs(stored \cap GatewayLine) # {}
    \/ pc[c] \in {"get-run", "reconcile", "leave-scope", "return"}
    \/ pc[c] = "insert-run" /\ (KeyIsHeld(c) => Key(c) \in DOMAIN runs)

\* However calls wait for each other's key, one of those that are being
\* served can go on.
SomeoneGoesOn == Served # {} => \E c \in Served : CanServe(c)

\* The call that holds a key has it from an INSERT that went through, and
\* waits for nothing any more: keys are held until the holder's session
\* ends, and no call ever holds one and waits for another.
THEOREM NobodyIsStuck == Spec => []SomeoneGoesOn
<1>1. IInv => SomeoneGoesOn
  <2> SUFFICES ASSUME IInv, NEW c \in Served, \A d \in Served : ~CanServe(d) PROVE FALSE
    BY DEF SomeoneGoesOn
  <2>1. TypeOK /\ \A d \in Call : PendingIsNew(d)
    BY DEF IInv, CallInv
  <2>2. SetToSeqs(stored \cap BookLine) # {} /\ SetToSeqs(stored \cap GatewayLine) # {}
    <3>1. IsFiniteSet(stored \cap BookLine) /\ IsFiniteSet(stored \cap GatewayLine)
      <4>1. stored \cap BookLine \subseteq Line /\ stored \cap GatewayLine \subseteq Line
        BY <2>1 DEF TypeOK
      <4> QED
        BY <4>1, LedgerIsFinite, FS_Subset
    <3> QED
      BY <3>1, SomeOrder
  <2>3. pc[c] = "insert-run"
    BY <2>1, <2>2 DEF Served, CanServe, TypeOK
  <2>4. KeyIsHeld(c)
    BY <2>3 DEF CanServe
  <2>5. PICK d \in Call : pending[d] # NoRows
    BY <2>4 DEF KeyIsHeld
  <2>6. pc[d] \in {"reconcile", "leave-scope", "return"}
    BY <2>1, <2>5 DEF PendingIsNew
  <2> QED
    BY <2>6 DEF Served, CanServe
<1> QED
  BY <1>1, Invariance, PTL

\* How many steps of its own a call that is being served is from its end, at
\* most.
StepsLeft(c) ==
    IF pc[c] = "select-left" THEN 7
    ELSE IF pc[c] = "select-right" THEN 6
    ELSE IF pc[c] = "get-run" THEN 5
    ELSE IF pc[c] = "insert-run" THEN 4
    ELSE IF pc[c] = "reconcile" THEN 3
    ELSE IF pc[c] = "leave-scope" THEN 2
    ELSE IF pc[c] = "return" THEN 1
    ELSE 0

\* Each step of a call brings it nearer to its end, and no step of another
\* call and no ingested line sets it back.
EveryStepCounts ==
    [][\A c \in Call : pc[c] # "idle" =>
          IF Serve(c) \/ Crash(c) THEN StepsLeft(c)' < StepsLeft(c)
          ELSE StepsLeft(c)' = StepsLeft(c)]_vars

\* run_reconciliation retries nothing: a call that loses a race fails, and
\* what it does until it ends is bounded whatever the others do.  With
\* NobodyIsStuck this is what EveryCallEnds needs besides a fair scheduler.
THEOREM CallsRunDown == Spec => EveryStepCounts
<1>1. ASSUME TypeOK, [Next]_vars
      PROVE  \A c \in Call : pc[c] # "idle" =>
                IF Serve(c) \/ Crash(c) THEN StepsLeft(c)' < StepsLeft(c)
                ELSE StepsLeft(c)' = StepsLeft(c)
  <2>1. pc \in [Call -> Pc]
    BY <1>1 DEF TypeOK, Pc
  <2>2. ASSUME NEW c \in Call, Serve(c) \/ Crash(c)
        PROVE  /\ StepsLeft(c)' < StepsLeft(c)
               /\ \A d \in Call \ {c} : pc'[d] = pc[d]
    BY <2>1, <2>2
       DEF Serve, Crash, Fail, SelectLeft, SelectRight, GetRun, InsertRun,
           InsertConflicts, RowsMissing, LagDoesNotFit, ReconcileRows,
           LeaveScope, Return, StepsLeft, Pc
  <2>3. ASSUME NEW c \in Call, CallExplicit(c) \/ CallAll(c)
        PROVE  pc[c] = "idle" /\ \A d \in Call \ {c} : pc'[d] = pc[d]
    BY <2>1, <2>3 DEF CallExplicit, CallAll
  <2>4. \A c \in Call : pc'[c] = pc[c] => StepsLeft(c)' = StepsLeft(c)
    BY DEF StepsLeft
  <2>5. CASE pc' = pc
    BY <2>2, <2>4, <2>5
  <2>6. CASE \E c \in Call : CallExplicit(c) \/ CallAll(c) \/ Serve(c) \/ Crash(c)
    BY <2>2, <2>3, <2>4, <2>6
  <2> QED
    BY <1>1, <2>5, <2>6 DEF Next, IngestLine, vars
<1> QED
  BY <1>1, TypeCorrect, PTL DEF Spec, EveryStepCounts

-----------------------------------------------------------------------------
(* The service implements the archive *)

Asked == [d \in Call |-> Key(d)]
AllTold == [d \in Call |-> Told(d)]

\* A step of one call changes what that call asks and was told, at most.
LEMMA OthersAreTold ==
    ASSUME NEW c \in Call, \A d \in Call \ {c} : SameFor(d)
    PROVE  /\ Asked' = [Asked EXCEPT ![c] = Key(c)']
           /\ AllTold' = [AllTold EXCEPT ![c] = Told(c)']
<1>1. ASSUME NEW d \in Call \ {c} PROVE Key(d)' = Key(d) /\ Told(d)' = Told(d)
  BY <1>1 DEF SameFor, Key, Told, Persists
<1> QED
  BY <1>1 DEF Asked, AllTold

\* Publishing is filing: the rows are those of a finished run, and none is on
\* file under its name.
LEMMA PublishFiles ==
    ASSUME IInv, NEW c \in Call, pc[c] \in {"leave-scope", "return"},
           pending[c] # NoRows, runs' = Publish(c), Asked' = Asked
    PROVE  Promise!File(c)
<1>1. Key(c) \notin DOMAIN runs /\ pending[c] = DoneRow(ids[c])
  BY DEF IInv, CallInv, PendingIsNew
<1>2. ids[c] \in AskedFor
  BY DEF IInv, TypeOK
<1>3. pending[c].run = Key(c)
  BY <1>1 DEF DoneRow, Key
<1>4. pending[c] \in {DoneRow(request) : request \in AskedFor}
  BY <1>1, <1>2
<1>5. runs' = [name \in DOMAIN runs \cup {Key(c)} |->
                  IF name = Key(c) THEN pending[c] ELSE runs[name]]
  BY <1>3 DEF Publish
<1>6. Asked[c] = Key(c) /\ Told(c) = NoAnswer
  BY DEF Asked, Told
<1> QED
  BY <1>1, <1>3, <1>4, <1>5, <1>6 DEF Promise!File, Promise!Nothing, NoAnswer, Asked

\* A call that returns a stored run tells what is on file.
LEMMA ReturnTells ==
    ASSUME IInv, IInv', NEW c \in Call, Return(c), Persists(c),
           AllTold' = [AllTold EXCEPT ![c] = Told(c)'], Asked' = Asked
    PROVE  Promise!Tell(c)
<1>1. CallTypes
  BY TypeParts DEF IInv
<1>2. /\ pc[c] = "return" /\ pc'[c] = "ended"
      /\ answer'[c] = answer[c] /\ via'[c] = via[c] /\ Key(c)' = Key(c)
  BY <1>1 DEF Return, CallTypes, Key
<1>3. answer[c].outcome = "ok"
  BY <1>2 DEF IInv, CallInv, AnswerIsEarned
<1>4. answer'[c].outcome = "ok" /\ answer'[c].run = Key(c) /\ OnFile(c)'
  BY <1>2, <1>3 DEF IInv, CallInv, AnswerIsEarned, Persists
<1>5. Told(c)' = [outcome |-> "ok", run |-> Key(c),
                  matched |-> Len(runs'[Key(c)].matches),
                  excepted |-> Len(runs'[Key(c)].exceptions)]
  BY <1>2, <1>4 DEF Told, Persists, OnFile
<1>6. \A key \in DOMAIN runs' : runs'[key].run = key
  BY DEF IInv, RunsAreWhole
<1>7. Key(c) \in DOMAIN runs' /\ Told(c)' = Promise!Report(runs'[Key(c)])
  BY <1>4, <1>5, <1>6 DEF OnFile, Promise!Report
<1>8. Asked[c] = Key(c) /\ AllTold[c] = NoAnswer
  BY <1>2 DEF Asked, AllTold, Told
<1> QED
  BY <1>7, <1>8 DEF Promise!Tell, Promise!Nothing, NoAnswer, Asked, AllTold

LEMMA ArchiveInitially == Init => Promise!ArchiveInit
BY DEF Init, Promise!ArchiveInit, Promise!Nothing, NoAnswer, Told

LEMMA ArchiveStep ==
    IInv /\ IInv' /\ [Next]_vars => [Promise!ArchiveNext]_Promise!archiveVars
<1> SUFFICES ASSUME IInv, IInv', [Next]_vars
             PROVE  [Promise!ArchiveNext]_Promise!archiveVars
  OBVIOUS
<1>1. CallTypes
  BY TypeParts DEF IInv
<1>2. CASE IngestLine \/ UNCHANGED vars
  <2>1. UNCHANGED <<runs, pc, via, ids, answer>>
    BY <1>2 DEF IngestLine, vars
  <2> QED
    BY <2>1 DEF Promise!archiveVars, Key, Told, Persists
\* A step that ends nothing: the call may come to ask for something else.
<1>3. ASSUME NEW c \in Call, \A d \in Call \ {c} : SameFor(d),
             runs' = runs, pc[c] # "ended", pc'[c] # "ended"
      PROVE  Promise!Ask(c)
  <2>1. Told(c) = NoAnswer /\ Told(c)' = NoAnswer
    BY <1>3 DEF Told
  <2>2. AllTold' = AllTold
    BY <1>3, <2>1, OthersAreTold DEF AllTold
  <2>3. Asked' = [Asked EXCEPT ![c] = Asked'[c]]
    BY <1>3, OthersAreTold DEF Asked
  <2> QED
    BY <1>3, <2>1, <2>2, <2>3 DEF Promise!Ask, Promise!Nothing, NoAnswer, Asked, AllTold
<1>4. ASSUME NEW c \in Call, pc[c] # "ended", Fail(c)
      PROVE  Promise!Fail(c)
  <2>1. \A d \in Call \ {c} : SameFor(d)
    BY <1>1, <1>4 DEF CallTypes, SameFor, Fail, dbVars
  <2>2. Told(c) = NoAnswer /\ Told(c)' = Failure
    BY <1>1, <1>4 DEF Told, Fail, Failure, CallTypes
  <2>3. AllTold' = [AllTold EXCEPT ![c] = Failure] /\ Asked' = Asked /\ runs' = runs
    BY <1>4, <2>1, <2>2, OthersAreTold DEF Fail, dbVars, Asked, Key
  <2> QED
    BY <2>2, <2>3
       DEF Promise!Fail, Promise!Nothing, Promise!Failed, NoAnswer, Failure, Asked, AllTold
<1>5. ASSUME NEW c \in Call, LeaveScope(c)
      PROVE  Promise!Ask(c) \/ (Promise!File(c) /\ UNCHANGED AllTold)
  <2>1. /\ pc[c] = "leave-scope" /\ pc'[c] = "return"
        /\ \A d \in Call \ {c} : SameFor(d)
    BY <1>1, <1>5 DEF CallTypes, SameFor, LeaveScope
  <2>2. CASE runs' = runs
    BY <1>3, <2>1, <2>2
  <2>3. CASE runs' # runs
    <3>1. runs' = Publish(c) /\ pending[c] # NoRows
      BY <1>5, <2>3 DEF LeaveScope, Publish
    <3>2. Asked' = Asked
      BY <1>5 DEF LeaveScope, Asked, Key
    <3>3. Told(c) = NoAnswer /\ Told(c)' = NoAnswer
      BY <2>1 DEF Told
    <3>4. AllTold' = AllTold
      BY <2>1, <3>3, OthersAreTold DEF AllTold
    <3> QED
      BY <2>1, <3>1, <3>2, <3>4, PublishFiles
  <2> QED
    BY <2>2, <2>3
<1>6. ASSUME NEW c \in Call, Return(c)
      PROVE  \/ Promise!Tell(c) /\ UNCHANGED runs
             \/ Promise!File(c) /\ Promise!Tell(c)
             \/ UNCHANGED <<runs, Asked, AllTold>>
  <2>1. /\ pc[c] = "return" /\ pc'[c] = "ended"
        /\ via'[c] = via[c] /\ answer'[c] = answer[c] /\ Asked' = Asked
        /\ \A d \in Call \ {c} : SameFor(d)
    BY <1>1, <1>6 DEF CallTypes, SameFor, Return, Asked, Key
  <2>2. CASE ~Persists(c)
    <3>1. runs' = runs
      BY <1>6, <2>2 DEF Return, Persists
    <3>2. answer[c].outcome = "ok"
      BY <2>1 DEF IInv, CallInv, AnswerIsEarned
    <3>3. Told(c) = NoAnswer /\ Told(c)' = NoAnswer
      BY <2>1, <2>2, <3>2 DEF Told, Persists
    <3>4. AllTold' = AllTold
      BY <2>1, <3>3, OthersAreTold DEF AllTold
    <3> QED
      BY <2>1, <3>1, <3>4
  <2>3. CASE Persists(c)
    <3>1. Promise!Tell(c)
      BY <1>6, <2>1, <2>3, OthersAreTold, ReturnTells
    <3>2. runs' = runs \/ (pending[c] # NoRows /\ runs' = Publish(c))
      BY <1>6 DEF Return, Publish
    <3> QED
      BY <2>1, <3>1, <3>2, PublishFiles
  <2> QED
    BY <2>2, <2>3
<1>7. ASSUME NEW c \in Call,
             \/ CallExplicit(c) \/ CallAll(c) \/ SelectLeft(c) \/ SelectRight(c)
             \/ GetRun(c) \/ InsertRun(c) \/ ReconcileRows(c)
      PROVE  Promise!Ask(c)
  <2>1. /\ \A d \in Call \ {c} : SameFor(d)
        /\ runs' = runs /\ pc[c] # "ended" /\ pc'[c] # "ended"
    BY <1>1, <1>7 DEF CallTypes, SameFor, CallExplicit, CallAll, SelectLeft,
       SelectRight, GetRun, InsertRun, ReconcileRows, dbVars
  <2> QED
    BY <1>3, <2>1
<1>8. ASSUME NEW c \in Call,
             InsertConflicts(c) \/ RowsMissing(c) \/ LagDoesNotFit(c) \/ Crash(c)
      PROVE  Promise!Fail(c)
  BY <1>4, <1>8 DEF InsertConflicts, RowsMissing, LagDoesNotFit, Crash
<1>9. ASSUME NEW c \in Call, StepOf(c) PROVE [Promise!ArchiveNext]_Promise!archiveVars
  <2>1. Promise!Ask(c) \/ Promise!Fail(c) \/ LeaveScope(c) \/ Return(c)
    BY <1>7, <1>8, <1>9 DEF StepOf, Serve
  <2> QED
    BY <1>5, <1>6, <2>1 DEF Promise!ArchiveNext, Promise!archiveVars, Asked, AllTold
<1> QED
  BY <1>2, <1>9 DEF Next, StepOf

\* Whatever calls race, fail or crash, the run service is an archive that
\* files each run once, whole and for ever, and tells each caller what is on
\* file for the lines it asked about.
THEOREM ServiceImplementsArchive == Spec => ImplementsArchive
<1>1. IInv /\ IInv' /\ [Next]_vars => [Promise!ArchiveNext]_Promise!archiveVars
  BY ArchiveStep
<1> QED
  BY <1>1, ArchiveInitially, Invariance, PTL DEF Spec, ImplementsArchive, Promise!ArchiveSpec

=============================================================================
