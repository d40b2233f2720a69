----------------------------- MODULE Assignment -----------------------------
(***************************************************************************)
(* What reconciliation promises, whatever order it scans in and however    *)
(* it ranks its candidates (docstring of matcher.reconcile): left records  *)
(* are settled one after another; settling one either pairs it with a      *)
(* right record that is compatible with it and that no earlier record      *)
(* holds, or sets it aside.  A pair is never dissolved, and a record is    *)
(* set aside without any compatible counterpart, or because of a contest   *)
(* for one: several were free, or another record holds it.                 *)
(***************************************************************************)
VARIABLES
    partners,             \* partners[c]: the holdings compatible with claim c
    pairs,                \* <<claim, holding>> settled together
    uncontested,          \* claims set aside, having no partner
    contested             \* claims set aside, having partners

assignmentVars == <<partners, pairs, uncontested, contested>>

Claims == DOMAIN partners

Held == {pair[2] : pair \in pairs}

Settled == {pair[1] : pair \in pairs} \cup uncontested \cup contested

AssignmentInit == pairs = {} /\ uncontested = {} /\ contested = {}

Pair(c, h) ==
    /\ h \notin Held
    /\ pairs' = pairs \cup {<<c, h>>}
    /\ UNCHANGED <<partners, uncontested, contested>>

SetAsideUncontested(c) ==
    /\ partners[c] = {}
    /\ uncontested' = uncontested \cup {c}
    /\ UNCHANGED <<partners, pairs, contested>>

SetAsideContested(c) ==
    /\ partners[c] # {}
    /\ contested' = contested \cup {c}
    /\ UNCHANGED <<partners, pairs, uncontested>>

AssignmentNext ==
    \E c \in Claims \ Settled :
        \/ \E h \in partners[c] : Pair(c, h)
        \/ SetAsideUncontested(c)
        \/ SetAsideContested(c)

AssignmentSpec == AssignmentInit /\ [][AssignmentNext]_assignmentVars

=============================================================================
