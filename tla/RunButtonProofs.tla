-------------------------- MODULE RunButtonProofs --------------------------
(***************************************************************************)
(* Theorems about the run button, for any number of clicks, visits and     *)
(* polls.  What makes them inductive is about the chains that visits of    *)
(* the page leave behind: an instance has one chain at most, also after it *)
(* was unmounted, and no instance is ever mounted again.                   *)
(***************************************************************************)
EXTENDS RunButton, TLAPS

\* No chain is of an instance that is still to come.
NoneAhead == \A k \in Click : chain[k].mount <= mount

OneChainEach ==
    \A j, k \in Click : Active(j) /\ Active(k) /\ chain[j].mount = chain[k].mount => j = k

\* While the button waits for its run, the run it knows is that of its chain.
RunIsKnown ==
    \A k \in Click :
        Mounted(k) /\ chain[k].at \in {"timer", "get"} => runId = chain[k].run

IInv ==
    /\ TypeOK
    /\ NoneAhead
    /\ OneChainEach
    /\ RunIsKnown
    /\ BusyHasOneChain
    /\ ShownIsOwnRun

LEMMA InitInv == Init => IInv
<1> SUFFICES ASSUME Init PROVE IInv
  OBVIOUS
<1> USE ButtonConstants DEF Init, Unmade, Mount
<1>1. pollCount \in [Mount -> 0..(MAX_POLLS + 1)]
  OBVIOUS
<1>2. mount \in Mount
  OBVIOUS
<1>3. chain \in [Click -> [at : {"unmade", "post", "posted", "timer", "get", "over"},
                           mount : Mount, run : Run \cup {NoRun}, signed : BOOLEAN]]
  OBVIOUS
<1>4. TypeOK
  BY <1>1, <1>2, <1>3 DEF TypeOK
<1>5. NoneAhead /\ OneChainEach /\ RunIsKnown /\ BusyHasOneChain /\ ShownIsOwnRun
  BY DEF NoneAhead, OneChainEach, RunIsKnown, BusyHasOneChain, ShownIsOwnRun, Active,
         Mounted, isBusy
<1> QED
  BY <1>4, <1>5 DEF IInv

\* The parts of the type invariant: a step disturbs few of them.
Chain == [at : {"unmade", "post", "posted", "timer", "get", "over"},
          mount : Mount, run : Run \cup {NoRun}, signed : BOOLEAN]

PageType ==
    /\ stored \subseteq Run
    /\ token \in BOOLEAN /\ leaving \in BOOLEAN
    /\ page \in {"overview", "elsewhere", "login"}
    /\ mount \in Mount

ButtonType ==
    /\ runState \in {"idle", "starting", "running", "done", "error"}
    /\ runId \in Run \cup {NoRun} /\ runDetail \in Run \cup {NoRun}

CountType == pollCount \in [Mount -> 0..(MAX_POLLS + 1)]

StoredArePolled ==
    \A k \in Click : chain[k].at \in {"posted", "timer", "get"} => chain[k].run \in stored

LEMMA TypeParts ==
    /\ TypeOK <=> PageType /\ ButtonType /\ CountType
                    /\ chain \in [Click -> Chain] /\ StoredArePolled
    /\ TypeOK' <=> PageType' /\ ButtonType' /\ CountType'
                    /\ chain' \in [Click -> Chain] /\ StoredArePolled'
  BY DEF TypeOK, PageType, ButtonType, CountType, StoredArePolled, Chain

\* A chain goes on to its next place; its run and its instance stay.
LEMMA Moves ==
    ASSUME chain \in [Click -> Chain], NEW k \in Click, NEW flag \in BOOLEAN,
           NEW at \in {"unmade", "post", "posted", "timer", "get", "over"},
           chain' = [chain EXCEPT ![k].at = at, ![k].signed = flag]
    PROVE  /\ chain' \in [Click -> Chain]
           /\ chain'[k].at = at /\ chain'[k].run = chain[k].run
           /\ \A j \in Click \ {k} : chain'[j] = chain[j]
<1>1. PICK c \in Chain : c = chain[k]
  OBVIOUS
<1>2. PICK d : d = [c EXCEPT !.at = at, !.signed = flag]
  OBVIOUS
<1>3. d \in Chain /\ d.at = at /\ d.run = c.run
  BY <1>2 DEF Chain
<1>4. chain' = [chain EXCEPT ![k] = d]
  BY <1>1, <1>2
<1> QED
  BY <1>1, <1>3, <1>4

\* What a chain that moves has polled, or will, is stored.
LEMMA MovesKeepRuns ==
    ASSUME chain \in [Click -> Chain], StoredArePolled, NEW k \in Click,
           NEW flag \in BOOLEAN,
           NEW at \in {"posted", "timer", "get", "over"},
           chain' = [chain EXCEPT ![k].at = at, ![k].signed = flag],
           at = "over" \/ chain[k].at \in {"posted", "timer", "get"},
           stored' = stored
    PROVE  chain' \in [Click -> Chain] /\ StoredArePolled'
<1>1. /\ chain' \in [Click -> Chain]
      /\ chain'[k].at = at /\ chain'[k].run = chain[k].run
      /\ \A j \in Click \ {k} : chain'[j] = chain[j]
  BY Moves
<1> QED
  BY <1>1 DEF StoredArePolled

LEMMA CountsUp ==
    ASSUME CountType, NEW m \in Mount, pollCount[m] <= MAX_POLLS,
           pollCount' = [pollCount EXCEPT ![m] = @ + 1]
    PROVE  CountType'
<1>1. pollCount[m] + 1 \in 0..(MAX_POLLS + 1)
  BY ButtonConstants DEF CountType
<1> QED
  BY <1>1 DEF CountType

LEMMA TypePreserved == IInv /\ [Next]_vars => TypeOK'
<1> SUFFICES ASSUME IInv, [Next]_vars PROVE TypeOK'
  OBVIOUS
<1>1. /\ PageType /\ ButtonType /\ CountType
      /\ chain \in [Click -> Chain] /\ StoredArePolled
  BY TypeParts DEF IInv
<1>2. \A k \in Click : chain[k].mount \in Mount /\ chain[k].run \in Run \cup {NoRun}
  BY <1>1 DEF Chain
<1>3. ASSUME NEW k \in Click, HandleRun(k) PROVE TypeOK'
  <2>1. PageType' /\ ButtonType' /\ CountType'
    BY <1>1, <1>3, ButtonConstants
       DEF HandleRun, PageType, ButtonType, CountType, browser
  <2>2. [at |-> "post", mount |-> mount, run |-> NoRun, signed |-> token] \in Chain
    BY <1>1 DEF PageType, Chain
  <2>3. chain' \in [Click -> Chain] /\ StoredArePolled'
    BY <1>1, <1>3, <2>2 DEF HandleRun, StoredArePolled
  <2> QED
    BY <2>1, <2>3, TypeParts
<1>4. ASSUME NEW k \in Click, CommitRun(k) PROVE TypeOK'
  <2>1. PICK run \in Run :
           /\ stored' = stored \cup {run}
           /\ chain' = [chain EXCEPT ![k].at = "posted", ![k].run = run, ![k].signed = FALSE]
    BY <1>4 DEF CommitRun
  <2>2. PageType' /\ ButtonType' /\ CountType'
    BY <1>1, <1>4, <2>1 DEF CommitRun, PageType, ButtonType, CountType, browser, state
  <2>3. PICK c \in Chain : c = chain[k]
    BY <1>1
  <2>4. PICK d : d = [c EXCEPT !.at = "posted", !.run = run, !.signed = FALSE]
    OBVIOUS
  <2>5. d \in Chain /\ d.run = run
    BY <2>4 DEF Chain
  <2>6. chain' = [chain EXCEPT ![k] = d]
    BY <2>1, <2>3, <2>4
  <2>7. chain' \in [Click -> Chain] /\ StoredArePolled'
    BY ZenonT(60), <1>1, <2>1, <2>5, <2>6 DEF StoredArePolled
  <2> QED
    BY <2>2, <2>7, TypeParts
<1>5. ASSUME NEW k \in Click, Created(k) PROVE TypeOK'
  <2>1. PageType' /\ ButtonType' /\ CountType'
    BY <1>1, <1>2, <1>5
       DEF Created, SetRunState, PageType, ButtonType, CountType, browser
  <2>2. chain' \in [Click -> Chain] /\ StoredArePolled'
    BY <1>1, <1>5, MovesKeepRuns DEF Created, Goto
  <2> QED
    BY <2>1, <2>2, TypeParts
<1>6. ASSUME NEW k \in Click, NotCreated(k) PROVE TypeOK'
  <2>1. PageType' /\ ButtonType' /\ CountType'
    BY <1>1, <1>6
       DEF NotCreated, SetRunState, MayFail, PageType, ButtonType, CountType, browser
  <2>2. chain' \in [Click -> Chain] /\ StoredArePolled'
    BY <1>1, <1>6, MovesKeepRuns DEF NotCreated, Goto
  <2> QED
    BY <2>1, <2>2, TypeParts
<1>7. ASSUME NEW k \in Click, Poll(k) PROVE TypeOK'
  <2>1. PageType' /\ ButtonType'
    BY <1>1, <1>7 DEF Poll, PageType, ButtonType, browser, state
  <2>2. pollCount[chain[k].mount] <= MAX_POLLS
    BY <1>1, <1>2, <1>7, ButtonConstants DEF Poll, CountType
  <2>3. CountType'
    BY <1>1, <1>2, <1>7, <2>2, CountsUp DEF Poll
  <2>4. chain' \in [Click -> Chain] /\ StoredArePolled'
    BY <1>1, <1>7, MovesKeepRuns DEF Poll, Send, PageType
  <2> QED
    BY <2>1, <2>3, <2>4, TypeParts
<1>8. ASSUME NEW k \in Click, GiveUp(k) PROVE TypeOK'
  <2>1. PageType' /\ ButtonType'
    BY <1>1, <1>8 DEF GiveUp, SetRunState, PageType, ButtonType, browser
  <2>2. pollCount[chain[k].mount] <= MAX_POLLS
    BY <1>8, ButtonConstants DEF GiveUp
  <2>3. CountType'
    BY <1>1, <1>2, <1>8, <2>2, CountsUp DEF GiveUp
  <2>4. chain' \in [Click -> Chain] /\ StoredArePolled'
    BY <1>1, <1>8, MovesKeepRuns DEF GiveUp, Goto
  <2> QED
    BY <2>1, <2>3, <2>4, TypeParts
<1>9. ASSUME NEW k \in Click, Done(k) PROVE TypeOK'
  <2>1. PageType' /\ ButtonType' /\ CountType'
    BY <1>1, <1>2, <1>9
       DEF Done, SetRunState, PageType, ButtonType, CountType, browser
  <2>2. chain' \in [Click -> Chain] /\ StoredArePolled'
    BY <1>1, <1>9, MovesKeepRuns DEF Done, Goto
  <2> QED
    BY <2>1, <2>2, TypeParts
<1>10. ASSUME NEW k \in Click, PollFails(k) PROVE TypeOK'
  <2>1. PageType' /\ ButtonType' /\ CountType'
    BY <1>1, <1>10
       DEF PollFails, MayFail, PageType, ButtonType, CountType, browser, state
  <2>2. chain' \in [Click -> Chain] /\ StoredArePolled'
    BY <1>1, <1>10, MovesKeepRuns DEF PollFails, Goto
  <2> QED
    BY <2>1, <2>2, TypeParts
<1>11. CASE Leave \/ SignOut \/ UNCHANGED vars
  <2>1. PageType' /\ ButtonType' /\ CountType'
    BY <1>1, <1>11
       DEF Leave, SignOut, vars, PageType, ButtonType, CountType, browser, state
  <2>2. chain' \in [Click -> Chain] /\ StoredArePolled'
    BY <1>1, <1>11 DEF Leave, SignOut, vars, StoredArePolled
  <2> QED
    BY <2>1, <2>2, TypeParts
<1>12. CASE Return \/ Login
  <2>1. mount' \in Mount
    BY <1>1, <1>12, ButtonConstants DEF Return, Login, Open, PageType, Mount
  <2>2. PageType' /\ ButtonType' /\ CountType'
    BY <1>1, <1>12, <2>1 DEF Return, Login, Open, PageType, ButtonType, CountType
  <2>3. chain' \in [Click -> Chain] /\ StoredArePolled'
    BY <1>1, <1>12 DEF Return, Login, StoredArePolled
  <2> QED
    BY <2>2, <2>3, TypeParts
<1>13. CASE Unload
  <2>1. PageType' /\ ButtonType' /\ CountType'
    BY <1>1, <1>13 DEF Unload, PageType, ButtonType, CountType, state
  <2>2. ASSUME NEW c \in Chain
        PROVE  /\ [c EXCEPT !.at = "over", !.signed = FALSE] \in Chain
               /\ [c EXCEPT !.at = "over", !.signed = FALSE].at = "over"
    BY DEF Chain
  <2>3. chain' \in [Click -> Chain]
    BY <1>1, <1>13, <2>2 DEF Unload
  <2>4. \A k \in Click : chain'[k].at \in {"unmade", "over"}
    BY <1>1, <1>13, <2>2 DEF Unload
  <2>5. StoredArePolled'
    BY SMTT(40), <2>4 DEF StoredArePolled
  <2> QED
    BY <2>1, <2>3, <2>5, TypeParts
<1> QED
  BY <1>3, <1>4, <1>5, <1>6, <1>7, <1>8, <1>9, <1>10, <1>11, <1>12, <1>13
  DEF Next, Callback

\* The part of the invariant that is about the chains and their instances.
Kept == NoneAhead /\ OneChainEach /\ RunIsKnown /\ BusyHasOneChain /\ ShownIsOwnRun

LEMMA ChainsPreserved == IInv /\ [Next]_vars => Kept'
<1> SUFFICES ASSUME IInv, [Next]_vars PROVE Kept'
  OBVIOUS
<1> USE DEF IInv, TypeOK, Kept, NoneAhead, OneChainEach, RunIsKnown, BusyHasOneChain,
            ShownIsOwnRun, Active, Mounted, isBusy, MayFail, SetRunState, Goto, Send,
            browser, state
<1>1. ASSUME NEW k \in Click, HandleRun(k) PROVE Kept'
  <2>1. ~isBusy /\ page = "overview" /\ page' = page /\ mount' = mount
    BY <1>1 DEF HandleRun
  <2>2. /\ chain'[k].at = "post" /\ chain'[k].mount = mount
        /\ \A j \in Click \ {k} : chain'[j] = chain[j]
    BY <1>1 DEF HandleRun
  <2>3. \A j \in Click : Active(j) => chain[j].mount # mount
    BY <2>1
  <2>4. NoneAhead'
    BY <2>1, <2>2 DEF Mount
  <2>5. OneChainEach'
    BY <2>1, <2>2, <2>3
  <2>6. RunIsKnown' /\ BusyHasOneChain' /\ ShownIsOwnRun'
    BY <1>1, <2>1, <2>2, <2>3 DEF HandleRun
  <2> QED
    BY <2>4, <2>5, <2>6
<1>2. ASSUME NEW k \in Click, CommitRun(k) PROVE Kept'
  BY <1>2 DEF CommitRun
<1>3. ASSUME NEW k \in Click, Created(k) PROVE Kept'
  BY SMTT(40), <1>3 DEF Created
<1>4. ASSUME NEW k \in Click, NotCreated(k) PROVE Kept'
  BY SMTT(40), <1>4 DEF NotCreated
<1>5. ASSUME NEW k \in Click, Poll(k) PROVE Kept'
  BY SMTT(40), <1>5 DEF Poll
<1>6. ASSUME NEW k \in Click, GiveUp(k) PROVE Kept'
  BY SMTT(40), <1>6 DEF GiveUp
<1>7. ASSUME NEW k \in Click, Done(k) PROVE Kept'
  BY <1>7 DEF Done
<1>8. ASSUME NEW k \in Click, PollFails(k) PROVE Kept'
  BY SMTT(40), <1>8 DEF PollFails
<1>9. CASE Leave \/ SignOut
  BY <1>9 DEF Leave, SignOut
<1>10. CASE Return \/ Login
  BY <1>10 DEF Return, Login, Open, Mount
<1>11. CASE Unload
  <2>1. \A j \in Click : ~Active(j)' /\ chain'[j].mount = chain[j].mount
    BY ZenonT(60), <1>11 DEF Unload
  <2>2. page' # "overview" /\ mount' = mount
    BY <1>11 DEF Unload
  <2> QED
    BY <2>1, <2>2
<1>12. CASE UNCHANGED vars
  BY <1>12 DEF vars
<1> QED
  BY <1>1, <1>2, <1>3, <1>4, <1>5, <1>6, <1>7, <1>8, <1>9, <1>10, <1>11, <1>12
  DEF Next, Callback

\* The inductive invariant: chains, instances and what the button shows agree.
THEOREM Invariance == Spec => []IInv
<1>1. IInv /\ [Next]_vars => IInv'
  BY TypePreserved, ChainsPreserved DEF IInv, Kept
<1> QED
  BY InitInv, <1>1, PTL DEF Spec

\* The button's state, the counts and the chains are what the code can hold,
\* and only stored runs are polled.
THEOREM TypeCorrect == Spec => []TypeOK
  BY Invariance, PTL DEF IInv

\* A button is busy exactly while one chain of its own instance goes on,
\* however clicks, visits and the ends of sessions come about.
THEOREM OneChain == Spec => []BusyHasOneChain
  BY Invariance, PTL DEF IInv

\* What a button calls complete is the stored run of its last click.
THEOREM OwnRun == Spec => []ShownIsOwnRun
  BY Invariance, PTL DEF IInv

-----------------------------------------------------------------------------
(* Every chain ends *)

\* A chain that goes on has a poll left, or the one that gives up.
PollsAreFew == \A k \in Click : Active(k) => pollCount[chain[k].mount] <= MAX_POLLS

PollsLeft(k) == MAX_POLLS + 1 - pollCount[chain[k].mount]

\* How many callbacks a chain is from its end, at most.
CallbacksLeft(k) ==
    IF chain[k].at = "post" THEN 2 * MAX_POLLS + 4
    ELSE IF chain[k].at = "posted" THEN 2 * MAX_POLLS + 3
    ELSE IF chain[k].at = "get" THEN 2 * PollsLeft(k) + 1
    ELSE IF chain[k].at = "timer" THEN 2 * PollsLeft(k)
    ELSE 0

\* Of the guards of Callback, those of which one holds wherever a chain is.
CanGoOn(k) ==
    \/ chain[k].at \in {"post", "posted", "get"}
    \/ chain[k].at = "timer" /\ pollCount[chain[k].mount] < MAX_POLLS
    \/ chain[k].at = "timer" /\ pollCount[chain[k].mount] = MAX_POLLS

EveryChainGoesOn == \A k \in Click : Active(k) => CanGoOn(k)

\* Each callback of a chain brings it nearer to its end, as the page load
\* does; and nothing else gives it more to do: no other click, of this visit
\* of the page or of another, resets the count its polls are limited by.
EveryCallbackCounts ==
    [][\A k \in Click : Active(k) =>
          /\ CallbacksLeft(k) \in Nat
          /\ IF Callback(k) \/ Unload THEN CallbacksLeft(k)' < CallbacksLeft(k)
             ELSE CallbacksLeft(k)' = CallbacksLeft(k)]_vars

LEMMA PollsInit == Init => PollsAreFew
  BY DEF Init, Unmade, PollsAreFew, Active

\* The count of a chain is that of its instance, and an instance has one
\* chain: a click sets a count to zero that no chain depends on.
LEMMA CountsApart ==
    ASSUME IInv, NEW j \in Click, HandleRun(j) \/ Callback(j),
           NEW k \in Click \ {j}, Active(k)
    PROVE  /\ chain'[k] = chain[k]
           /\ pollCount'[chain[k].mount] = pollCount[chain[k].mount]
<1>1. TypeOK /\ OneChainEach /\ BusyHasOneChain
  BY DEF IInv
<1>2. chain'[k] = chain[k]
  BY <1>1 DEF HandleRun, Callback, CommitRun, Created, NotCreated, Poll, GiveUp, Done,
              PollFails, Goto, Send, TypeOK
<1>3. CASE HandleRun(j)
  <2>1. ~Mounted(k) /\ page = "overview"
    BY <1>1, <1>3 DEF HandleRun, BusyHasOneChain
  <2>2. chain[k].mount # mount
    BY <2>1 DEF Mounted
  <2> QED
    BY <1>1, <1>2, <1>3, <2>2 DEF HandleRun, TypeOK
<1>4. CASE Callback(j)
  <2>1. Active(j)
    BY <1>4 DEF Callback, CommitRun, Created, NotCreated, Poll, GiveUp, Done, PollFails,
                Active
  <2>2. chain[k].mount # chain[j].mount
    BY <1>1, <2>1 DEF OneChainEach
  <2> QED
    BY <1>1, <1>2, <1>4, <2>2
       DEF Callback, CommitRun, Created, NotCreated, Poll, GiveUp, Done, PollFails, TypeOK
<1> QED
  BY <1>3, <1>4

LEMMA ChainCounts ==
    ASSUME IInv, PollsAreFew, NEW k \in Click
    PROVE  /\ Active(k) => CallbacksLeft(k) \in Nat /\ CallbacksLeft(k) > 0
           /\ chain[k].at \in {"get", "timer"} => PollsLeft(k) \in 1..(MAX_POLLS + 1)
<1>1. chain[k].mount \in Mount /\ pollCount[chain[k].mount] \in Nat /\ MAX_POLLS \in Nat
  BY ButtonConstants DEF IInv, TypeOK
<1>2. chain[k].at \in {"get", "timer"} => PollsLeft(k) \in 1..(MAX_POLLS + 1)
  BY <1>1 DEF PollsAreFew, Active, PollsLeft
<1> QED
  BY <1>1, <1>2 DEF Active, CallbacksLeft

LEMMA CallbackCounts ==
    ASSUME IInv, PollsAreFew, NEW k \in Click, Callback(k)
    PROVE  /\ CallbacksLeft(k)' < CallbacksLeft(k)
           /\ Active(k)' => pollCount'[chain'[k].mount] <= MAX_POLLS
<1>1. PICK m \in Mount : m = chain[k].mount
  BY DEF IInv, TypeOK
<1>2. PICK count \in 0..(MAX_POLLS + 1), most \in Nat :
         count = pollCount[m] /\ most = MAX_POLLS
  BY ButtonConstants DEF IInv, TypeOK
<1>3. /\ pollCount \in [Mount -> 0..(MAX_POLLS + 1)]
      /\ chain \in [Click -> [at : {"unmade", "post", "posted", "timer", "get", "over"},
                              mount : Mount, run : Run \cup {NoRun}, signed : BOOLEAN]]
  BY DEF IInv, TypeOK
<1>4. chain'[k].mount = m
  <2>1. CASE CommitRun(k)
    <3>1. PICK run \in Run : chain' = [chain EXCEPT ![k].at = "posted", ![k].run = run,
                                                   ![k].signed = FALSE]
      BY <2>1 DEF CommitRun
    <3> QED
      BY <1>1, <1>3, <3>1
  <2>2. CASE Poll(k)
    BY <1>1, <1>3, <2>2 DEF Poll, Send
  <2>3. CASE Created(k) \/ NotCreated(k) \/ GiveUp(k) \/ Done(k) \/ PollFails(k)
    BY <1>1, <1>3, <2>3 DEF Created, NotCreated, GiveUp, Done, PollFails, Goto
  <2> QED
    BY <2>1, <2>2, <2>3 DEF Callback
<1>5. Active(k) => count <= most
  BY <1>1, <1>2 DEF PollsAreFew
<1>6. PollsLeft(k) = most + 1 - count
  BY <1>1, <1>2 DEF PollsLeft
<1>7. pollCount' = pollCount => PollsLeft(k)' = most + 1 - count
  BY <1>2, <1>4 DEF PollsLeft
<1>8. CASE CommitRun(k) \/ Created(k)
  <2>1. \/ chain[k].at = "post" /\ chain'[k].at = "posted"
        \/ chain[k].at = "posted" /\ chain'[k].at = "timer"
    <3>1. CASE CommitRun(k)
      <4>1. PICK run \in Run : chain' = [chain EXCEPT ![k].at = "posted", ![k].run = run,
                                                     ![k].signed = FALSE]
        BY <3>1 DEF CommitRun
      <4> QED
        BY <1>3, <3>1, <4>1 DEF CommitRun
    <3>2. CASE Created(k)
      BY <1>3, <3>2 DEF Created, Goto
    <3> QED
      BY <1>8, <3>1, <3>2
  <2>2. pollCount' = pollCount
    BY <1>8 DEF CommitRun, Created
  <2>3. count <= most
    BY <1>5, <2>1 DEF Active
  <2> QED
    BY <1>2, <1>4, <1>7, <2>1, <2>2, <2>3 DEF CallbacksLeft
<1>9. CASE Poll(k)
  <2>1. chain[k].at = "timer" /\ chain'[k].at = "get" /\ count < most
    BY <1>1, <1>2, <1>3, <1>9 DEF Poll, Send
  <2>2. pollCount'[m] = count + 1
    BY <1>1, <1>2, <1>3, <1>9 DEF Poll
  <2>3. PollsLeft(k)' = most - count
    BY <1>2, <1>4, <2>2 DEF PollsLeft
  <2> QED
    BY <1>2, <1>4, <1>6, <2>1, <2>2, <2>3 DEF CallbacksLeft
<1>10. CASE PollFails(k)
  <2>1. chain[k].at = "get" /\ chain'[k].at = "timer" /\ pollCount' = pollCount
    BY <1>3, <1>10 DEF PollFails, Goto
  <2>2. count <= most
    BY <1>5, <2>1 DEF Active
  <2> QED
    BY <1>2, <1>4, <1>6, <1>7, <2>1, <2>2 DEF CallbacksLeft
<1>11. CASE NotCreated(k) \/ GiveUp(k) \/ Done(k)
  <2>1. Active(k) /\ chain'[k].at = "over"
    BY <1>3, <1>11 DEF NotCreated, GiveUp, Done, Goto, Active
  <2>2. CallbacksLeft(k)' = 0 /\ ~Active(k)'
    BY <2>1 DEF CallbacksLeft, Active
  <2> QED
    BY <2>1, <2>2, ChainCounts
<1> QED
  BY <1>8, <1>9, <1>10, <1>11 DEF Callback

\* The steps that are no chain's.
LEMMA PagesCount ==
    ASSUME IInv, Leave \/ Return \/ SignOut \/ Login \/ UNCHANGED vars
    PROVE  chain' = chain /\ pollCount' = pollCount
  BY DEF Leave, Return, SignOut, Login, vars

LEMMA PollsStep == IInv /\ PollsAreFew /\ [Next]_vars => PollsAreFew'
<1> SUFFICES ASSUME IInv, PollsAreFew, [Next]_vars,
                    NEW k \in Click, Active(k)'
             PROVE  pollCount'[chain'[k].mount] <= MAX_POLLS
  BY DEF PollsAreFew
<1>1. CASE \E j \in Click : HandleRun(j) \/ Callback(j)
  <2>1. PICK j \in Click : HandleRun(j) \/ Callback(j)
    BY <1>1
  <2>2. CASE j = k /\ Callback(j)
    BY <2>2, CallbackCounts
  <2>3. CASE j = k /\ HandleRun(j)
    <3>1. chain'[k].mount = mount /\ pollCount'[mount] = 0
      BY <2>3 DEF HandleRun, IInv, TypeOK
    <3> QED
      BY <3>1, ButtonConstants
  <2>4. CASE j # k
    <3>1. chain'[k] = chain[k]
      BY <2>1, <2>4 DEF HandleRun, Callback, CommitRun, Created, NotCreated, Poll, GiveUp,
                        Done, PollFails, Goto, Send, IInv, TypeOK
    <3>2. Active(k)
      BY <3>1 DEF Active
    <3> QED
      BY <2>1, <2>4, <3>1, <3>2, CountsApart DEF PollsAreFew
  <2> QED
    BY <2>1, <2>2, <2>3, <2>4
<1>2. CASE Leave \/ Return \/ SignOut \/ Login \/ UNCHANGED vars
  BY <1>2, PagesCount DEF PollsAreFew, Active
<1>3. CASE Unload
  <2>1. \A j \in Click : ~Active(j)'
    BY <1>3 DEF Unload, Active, IInv, TypeOK
  <2> QED
    BY <2>1
<1> QED
  BY <1>1, <1>2, <1>3 DEF Next

LEMMA PollsAlways == Spec => []PollsAreFew
  BY PollsInit, PollsStep, Invariance, PTL DEF Spec

\* Wherever a chain is, its next callback can run: its count is never past
\* the poll that gives up (`pollCount.current > MAX_POLLS').
THEOREM ChainsGoOn == Spec => []EveryChainGoesOn
<1>1. IInv /\ PollsAreFew => EveryChainGoesOn
  <2> SUFFICES ASSUME IInv, PollsAreFew, NEW k \in Click, Active(k), chain[k].at = "timer"
               PROVE  \/ pollCount[chain[k].mount] < MAX_POLLS
                      \/ pollCount[chain[k].mount] = MAX_POLLS
    BY DEF EveryChainGoesOn, CanGoOn, Active
  <2>1. pollCount[chain[k].mount] \in Nat /\ MAX_POLLS \in Nat
    BY ButtonConstants DEF IInv, TypeOK
  <2> QED
    BY <2>1 DEF PollsAreFew
<1> QED
  BY <1>1, Invariance, PollsAlways, PTL

\* A click is over after at most 2 * MAX_POLLS + 4 callbacks of its own,
\* whatever else is clicked, left, opened or answered.  With ChainsGoOn this
\* is what EveryClickEnds needs besides timers that fire and requests that
\* are answered.
THEOREM ChainsRunDown == Spec => EveryCallbackCounts
<1>1. ASSUME IInv, PollsAreFew, [Next]_vars
      PROVE  \A k \in Click : Active(k) =>
                /\ CallbacksLeft(k) \in Nat
                /\ IF Callback(k) \/ Unload THEN CallbacksLeft(k)' < CallbacksLeft(k)
                   ELSE CallbacksLeft(k)' = CallbacksLeft(k)
  <2> SUFFICES ASSUME NEW k \in Click, Active(k)
               PROVE  IF Callback(k) \/ Unload THEN CallbacksLeft(k)' < CallbacksLeft(k)
                      ELSE CallbacksLeft(k)' = CallbacksLeft(k)
    BY <1>1, ChainCounts
  <2>1. CASE Callback(k)
    BY <1>1, <2>1, CallbackCounts
  <2>2. CASE Unload
    <3>1. chain'[k].at = "over"
      BY <1>1, <2>2 DEF Unload, Active, IInv, TypeOK
    <3>2. CallbacksLeft(k)' = 0
      BY <3>1 DEF CallbacksLeft
    <3> QED
      BY <1>1, <2>2, <3>2, ChainCounts
  <2>3. CASE ~Callback(k) /\ ~Unload
    <3>1. ~HandleRun(k)
      BY DEF HandleRun, Active
    <3>2. /\ chain'[k] = chain[k]
          /\ pollCount'[chain[k].mount] = pollCount[chain[k].mount]
      BY <1>1, <2>3, <3>1, CountsApart, PagesCount DEF Next
    <3> QED
      BY <2>3, <3>2 DEF CallbacksLeft, PollsLeft
  <2> QED
    BY <2>1, <2>2, <2>3
<1> QED
  BY <1>1, Invariance, PollsAlways, PTL DEF Spec, EveryCallbackCounts

=============================================================================
