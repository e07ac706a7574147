---------------------------- MODULE Publication ----------------------------
(***************************************************************************)
(* What the webhook promises about the firewall's two tables, without its  *)
(* locks, requests and flags: the saved table changes only while somebody  *)
(* knows that the served one may be behind, and that knowledge is given up *)
(* only when it is not.  A restart loses the knowledge; what it lost is    *)
(* remembered here as forgot.  Module Provider implements this.            *)
(***************************************************************************)
CONSTANT Tables     \* contents a table can have

VARIABLES
    saved,      \* what write calls change
    served,     \* what Unbound answers from
    known,      \* the running process knows they may differ
    forgot      \* they differ, and a restart lost that knowledge

vars == <<saved, served, known, forgot>>

Init ==
    /\ saved \in Tables /\ served \in Tables
    /\ known = FALSE
    /\ forgot = (saved # served)

\* An apply announces that it is going to write, or a reload fails.
Suspect ==
    /\ known' = TRUE
    /\ UNCHANGED <<saved, served, forgot>>

\* A row is written.
Change ==
    /\ known
    /\ saved' \in Tables
    /\ UNCHANGED <<served, known, forgot>>

\* Unbound is reloaded from the saved table.
Publish ==
    /\ served' = saved
    /\ forgot' = FALSE
    /\ UNCHANGED <<saved, known>>

\* A reload is answered, and nobody has written since.
Settle ==
    /\ saved = served
    /\ known' = FALSE
    /\ UNCHANGED <<saved, served, forgot>>

Restart ==
    /\ known' = FALSE
    /\ forgot' = (saved # served)
    /\ UNCHANGED <<saved, served>>

Next == Suspect \/ Change \/ Publish \/ Settle \/ Restart

Spec == Init /\ [][Next]_vars
=============================================================================
