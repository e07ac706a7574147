---------------------------- MODULE MCFunctions ----------------------------
(***************************************************************************)
(* The pure functions, each compared with what it is for: the fold of      *)
(* MCFoldChanges, the conversions of MCEndpoints and the waits of          *)
(* MCBackoff.  A behaviour exercises one of the three; the other two have  *)
(* nothing to do.                                                          *)
(***************************************************************************)
EXTENDS MCFoldChanges

CONSTANTS Configured, BadText, MaxRows,
          Half, Second, maxRetryAfterSeconds, Attempts, Initials, Maxima

VARIABLES
    e, rows, left,  \* of MCEndpoints
    retry           \* of MCBackoff

\* Two domains, one under the other, spelled with a capital and with a dot.
TwoDomains ==
    {[labels |-> <<"ex">>, upper |-> TRUE, tail |-> <<>>],
     [labels |-> <<"sub", "ex">>, upper |-> FALSE, tail |-> <<".">>]}

Conv == INSTANCE MCEndpoints
Call == INSTANCE MCBackoff

ASSUME SettingsAssumption == Conv!SettingsFit
ASSUME DelayAssumption == Call!DelaysFit

NoPlan  == items = <<>>
NoRetry == retry = [attempt |-> 0, wait |-> 0, maxDelay |-> 0]
NoRows  == Conv!ReadInit

vars == <<items, e, rows, left, retry>>

Init ==
    /\ NoPlan
    /\ \/ Conv!ConvertInit /\ NoRetry
       \/ NoRows /\ Call!Init

Next ==
    \/ NoRows /\ NoRetry /\ Extend /\ UNCHANGED <<e, rows, left, retry>>
    \/ NoPlan /\ NoRetry /\ Conv!ConvertNext /\ UNCHANGED <<items, retry>>
    \/ ~NoRetry /\ Call!Wait /\ UNCHANGED <<items, e, rows, left>>

Spec == Init /\ [][Next]_vars

\* foldChanges keeps a key exactly when all acceptable definitions of it
\* agree, whatever the order of the plan's lists.
FoldIsAgreement == Agrees(items)

\* foldChanges reports every key of the plan that will not be converged.
DropsReported == Reported(items)

\* foldChanges counts a registry key lost to an invalid target for the gate
\* of the data phase.
InvalidTXTCounted == Counted(items)

\* Once written, an endpoint is read back as AdjustEndpoints returned it, so
\* external-dns plans nothing more.
ReadBack == Conv!ReadBack

\* AdjustEndpoints drops what the write path would refuse, what has a set
\* identifier, and nothing else; no name under a configured domain is refused.
DropsUnwritable == Conv!DropsUnwritable

\* Snapshot.Endpoints groups rows to the same record sets in any order.
GroupsOrderFree == Conv!GroupsOrderFree

\* backoff waits as long as the delay and the server ask for, and no longer
\* than the maximum.
WaitInRange == Call!WaitInRange
=============================================================================
