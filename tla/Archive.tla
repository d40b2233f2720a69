------------------------------ MODULE Archive ------------------------------
(***************************************************************************)
(* What the run service promises, whoever calls it at the same time and    *)
(* whatever fails ("Run and persist one deterministic, idempotent          *)
(* reconciliation request", service.py:41; FR-8): the lines that are to be *)
(* compared name a run.  A run is filed whole, under its own name, once    *)
(* and for ever.  A caller is told what is on file under the name it asks  *)
(* for, or that it failed.                                                 *)
(***************************************************************************)
EXTENDS Sequences

CONSTANTS
    Caller,
    Run       \* the finished runs; run.run is the name of a run

VARIABLES
    archive,  \* the runs on file, by name
    asked,    \* the name each caller asks for
    told      \* what each caller was told

archiveVars == <<archive, asked, told>>

Nothing == [outcome |-> "none"]
Failed == [outcome |-> "error"]

Report(run) ==
    [outcome |-> "ok", run |-> run.run,
     matched |-> Len(run.matches), excepted |-> Len(run.exceptions)]

ArchiveInit ==
    /\ DOMAIN archive = {}
    /\ told = [c \in Caller |-> Nothing]

Ask(c) ==
    /\ told[c] = Nothing
    /\ asked' = [asked EXCEPT ![c] = asked'[c]]
    /\ UNCHANGED <<archive, told>>

\* The run that is filed is one of the name, and there was none.
File(c) ==
    /\ told[c] = Nothing
    /\ asked[c] \notin DOMAIN archive
    /\ \E run \in Run :
          /\ run.run = asked[c]
          /\ archive' = [name \in DOMAIN archive \cup {asked[c]} |->
                IF name = asked[c] THEN run ELSE archive[name]]
    /\ UNCHANGED asked

Tell(c) ==
    /\ told[c] = Nothing
    /\ asked[c] \in DOMAIN archive'
    /\ told' = [told EXCEPT ![c] = Report(archive'[asked[c]])]
    /\ UNCHANGED asked

Fail(c) ==
    /\ told[c] = Nothing
    /\ told' = [told EXCEPT ![c] = Failed]
    /\ UNCHANGED <<archive, asked>>

\* A run is on file when a caller is told of it, at the latest.
ArchiveNext ==
    \E c \in Caller :
        \/ Ask(c)
        \/ File(c) /\ UNCHANGED told
        \/ Tell(c) /\ UNCHANGED archive
        \/ File(c) /\ Tell(c)
        \/ Fail(c)

ArchiveSpec == ArchiveInit /\ [][ArchiveNext]_archiveVars

=============================================================================
