----------------------------- MODULE RunButton -----------------------------
(***************************************************************************)
(* The run button of the overview page (run-reconciliation.tsx) and the    *)
(* session it lives in (api-client.ts, session.ts): a click POSTs a run,   *)
(* then polls it until it is done or MAX_POLLS polls have been made.       *)
(*                                                                         *)
(* One click is one chain of callbacks: POST, then timer, GET, timer, ...  *)
(* Nothing cancels a chain when its component is unmounted: it goes on     *)
(* beside those of the component that is mounted next.  Only a page load   *)
(* ends it.  The API is what module RunService shows it to be: a run that  *)
(* can be read is done.                                                    *)
(***************************************************************************)
EXTENDS Naturals

CONSTANTS
    Click,       \* the clicks that are ever made
    Run,         \* ids of runs
    NoRun,       \* null
    MAX_POLLS,
    MaxMounts    \* bound on how often the overview page is opened

ASSUME ButtonConstants ==
    MAX_POLLS \in Nat \ {0} /\ MaxMounts \in Nat \ {0} /\ NoRun \notin Run

VARIABLES
    stored,      \* committed runs
    token,       \* whether localStorage has an access token
    page,        \* "overview", another page of the application, or "login"
    leaving,     \* a page load of /login has been asked for
    mount,       \* number of the component instance mounted last
    runState, runId, runDetail,   \* its state
    pollCount,   \* its ref, by instance
    chain        \* by click: where its callbacks are

browser == <<token, page, leaving, mount>>
state == <<runState, runId, runDetail>>
vars == <<stored, browser, state, pollCount, chain>>

Mount == 1..MaxMounts
Unmade == [at |-> "unmade", mount |-> 1, run |-> NoRun, signed |-> FALSE]

Init ==
    /\ stored = {}
    /\ token = TRUE /\ page = "overview" /\ leaving = FALSE /\ mount = 1
    /\ runState = "idle" /\ runId = NoRun /\ runDetail = NoRun
    /\ pollCount = [m \in Mount |-> 0]
    /\ chain = [k \in Click |-> Unmade]

isBusy == runState \in {"starting", "running"}

\* Fault: the state belongs to the page and not to the component.
MountedAnew(k) == page = "overview"

\* A setState of an instance that is no longer mounted does nothing.
Mounted(k) == page = "overview" /\ chain[k].mount = mount

Goto(k, at) == chain' = [chain EXCEPT ![k].at = at, ![k].signed = FALSE]

\* A request takes the token along that there is when it is sent.
Send(k) == chain' = [chain EXCEPT ![k].at = "get", ![k].signed = token]

SetRunState(k, s) == runState' = IF Mounted(k) THEN s ELSE runState

-----------------------------------------------------------------------------
(* handleRun *)

\* Fault: a click is let through until the run is known.
HandleRunEagerly(k) ==
    /\ page = "overview" /\ chain[k].at = "unmade"
    /\ runState # "running"
    /\ runState' = "starting" /\ runDetail' = NoRun
    /\ pollCount' = [pollCount EXCEPT ![mount] = 0]
    /\ chain' = [chain EXCEPT ![k] =
          [at |-> "post", mount |-> mount, run |-> NoRun, signed |-> token]]
    /\ UNCHANGED <<stored, browser, runId>>

HandleRun(k) ==
    /\ page = "overview" /\ chain[k].at = "unmade"
    /\ ~isBusy
    /\ runState' = "starting" /\ runDetail' = NoRun
    /\ pollCount' = [pollCount EXCEPT ![mount] = 0]
    /\ chain' = [chain EXCEPT ![k] =
          [at |-> "post", mount |-> mount, run |-> NoRun, signed |-> token]]
    /\ UNCHANGED <<stored, browser, runId>>

\* The API commits the run before it answers; which run depends on what the
\* ledger has, and it can be one that exists.
CommitRun(k) ==
    /\ chain[k].at = "post" /\ chain[k].signed
    /\ \E run \in Run :
          /\ stored' = stored \cup {run}
          /\ chain' = [chain EXCEPT ![k].at = "posted", ![k].run = run,
                                     ![k].signed = FALSE]
    /\ UNCHANGED <<browser, state, pollCount>>

\* createRun returns: the first poll is set.
Created(k) ==
    /\ chain[k].at = "posted"
    /\ runId' = IF Mounted(k) THEN chain[k].run ELSE runId
    /\ SetRunState(k, "running")
    /\ Goto(k, "timer")
    /\ UNCHANGED <<stored, browser, runDetail, pollCount>>

\* apiFetch: an answer of 401 drops the token and asks for a page load, and
\* then is an error like any other.
MayFail ==
    \/ UNCHANGED browser
    \/ token' = FALSE /\ leaving' = TRUE /\ UNCHANGED <<page, mount>>

\* createRun throws: the API refused or failed, or, when the run is there,
\* its answer was lost.
NotCreated(k) ==
    /\ chain[k].at \in {"post", "posted"}
    /\ IF chain[k].at = "posted" THEN UNCHANGED browser ELSE MayFail
    /\ SetRunState(k, "error")
    /\ Goto(k, "over")
    /\ UNCHANGED <<stored, runId, runDetail, pollCount>>

-----------------------------------------------------------------------------
(* poll *)

\* Fault: the polls of a click are not limited.
PollForEver(k) ==
    /\ chain[k].at = "timer"
    /\ pollCount[chain[k].mount] < MAX_POLLS
    /\ UNCHANGED pollCount
    /\ Send(k)
    /\ UNCHANGED <<stored, browser, state>>

Poll(k) ==
    /\ chain[k].at = "timer"
    /\ pollCount[chain[k].mount] < MAX_POLLS
    /\ pollCount' = [pollCount EXCEPT ![chain[k].mount] = @ + 1]
    /\ Send(k)
    /\ UNCHANGED <<stored, browser, state>>

GiveUp(k) ==
    /\ chain[k].at = "timer"
    /\ pollCount[chain[k].mount] = MAX_POLLS
    /\ pollCount' = [pollCount EXCEPT ![chain[k].mount] = @ + 1]
    /\ SetRunState(k, "error")
    /\ Goto(k, "over")
    /\ UNCHANGED <<stored, browser, runId, runDetail>>

\* The detail is done: the queries of the other pages are invalidated and
\* the chain ends.
Done(k) ==
    /\ chain[k].at = "get" /\ chain[k].signed
    /\ chain[k].run \in stored
    /\ SetRunState(k, "done")
    /\ runDetail' = IF Mounted(k) THEN chain[k].run ELSE runDetail
    /\ Goto(k, "over")
    /\ UNCHANGED <<stored, browser, runId, pollCount>>

PollFails(k) ==
    /\ chain[k].at = "get"
    /\ MayFail
    /\ Goto(k, "timer")
    /\ UNCHANGED <<stored, state, pollCount>>

-----------------------------------------------------------------------------
(* The pages *)

\* A link to another page unmounts the component and loads no page.
Leave ==
    /\ page = "overview"
    /\ page' = IF token THEN "elsewhere" ELSE "login"
    /\ UNCHANGED <<stored, token, leaving, mount, state, pollCount, chain>>

\* A new instance starts idle.
Open ==
    /\ mount < MaxMounts
    /\ page' = "overview" /\ mount' = mount + 1
    /\ runState' = "idle" /\ runId' = NoRun /\ runDetail' = NoRun

\* AppShell lets nobody without a token stay on a page.
Return ==
    /\ page = "elsewhere" /\ token
    /\ Open
    /\ UNCHANGED <<stored, token, leaving, pollCount, chain>>

\* logout, or an answer of 401 to a query of any other component.
SignOut ==
    /\ page # "login" /\ ~leaving
    /\ token' = FALSE /\ leaving' = TRUE
    /\ UNCHANGED <<stored, page, mount, state, pollCount, chain>>

\* The page load: every callback of the page is gone.
Unload ==
    /\ leaving
    /\ leaving' = FALSE /\ page' = "login"
    /\ chain' = [k \in Click |->
          IF chain[k].at = "unmade" THEN chain[k] ELSE [chain[k] EXCEPT !.at = "over", !.signed = FALSE]]
    /\ UNCHANGED <<stored, token, mount, state, pollCount>>

Login ==
    /\ page = "login" /\ ~leaving
    /\ token' = TRUE
    /\ Open
    /\ UNCHANGED <<stored, leaving, pollCount, chain>>

-----------------------------------------------------------------------------

Callback(k) ==
    \/ CommitRun(k) \/ Created(k) \/ NotCreated(k)
    \/ Poll(k) \/ GiveUp(k) \/ Done(k) \/ PollFails(k)

Next ==
    \/ \E k \in Click : HandleRun(k) \/ Callback(k)
    \/ Leave \/ Return \/ SignOut \/ Unload \/ Login

Spec == Init /\ [][Next]_vars

\* Timers fire, requests are answered or fail, and a page load that was asked
\* for happens.
FairSpec == Spec /\ WF_vars(Unload) /\ \A k \in Click : WF_vars(Callback(k))

-----------------------------------------------------------------------------
(* Properties *)

Active(k) == chain[k].at \in {"post", "posted", "timer", "get"}

\* Only a run that exists is polled, and no instance polls more often than
\* MAX_POLLS (the count itself goes one further).
TypeOK ==
    /\ stored \subseteq Run
    /\ token \in BOOLEAN /\ leaving \in BOOLEAN
    /\ page \in {"overview", "elsewhere", "login"}
    /\ mount \in Mount
    /\ runState \in {"idle", "starting", "running", "done", "error"}
    /\ runId \in Run \cup {NoRun} /\ runDetail \in Run \cup {NoRun}
    /\ pollCount \in [Mount -> 0..(MAX_POLLS + 1)]
    /\ chain \in [Click -> [at : {"unmade", "post", "posted", "timer", "get", "over"},
                            mount : Mount, run : Run \cup {NoRun}, signed : BOOLEAN]]
    /\ \A k \in Click : chain[k].at \in {"posted", "timer", "get"} => chain[k].run \in stored

\* The button that is shown is busy exactly while one chain of its own goes
\* on, and then only one: neither a second click, nor a page that was left
\* and opened again, nor a session that ended leaves it stuck or doubled.
BusyHasOneChain ==
    page = "overview" =>
        LET own == {k \in Click : Mounted(k) /\ Active(k)}
        IN  /\ isBusy <=> own # {}
            /\ \A j, k \in own : j = k
            /\ \A k \in own : runState = "starting" <=> chain[k].at \in {"post", "posted"}

\* What the button reports as complete is a stored run, the one its last
\* click asked for, never one of an earlier visit to the page.
ShownIsOwnRun ==
    page = "overview" /\ runState = "done" =>
        /\ runDetail = runId /\ runDetail \in stored
        /\ \E k \in Click : Mounted(k) /\ chain[k].at = "over" /\ chain[k].run = runId

\* Every click ends, done or not, though each failed poll sets another one,
\* and whatever becomes of the page.
EveryClickEnds ==
    \A k \in Click : chain[k].at = "post" ~> chain[k].at = "over"

=============================================================================
