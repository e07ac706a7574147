------------------------------ MODULE MCApply ------------------------------
(***************************************************************************)
(* Instances of Apply for TLC: tables and plans for two names, put         *)
(* together from what a single name can hold and what can be planned.      *)
(***************************************************************************)
EXTENDS Apply

TXT(n)  == <<n, "TXT">>
Data(n) == <<n, "A">>

HostRow(k, t, ttl, child) ==
    [key |-> k, target |-> t, ttl |-> ttl, child |-> child]

\* What a name can hold: nothing, its TXT row alone, one or two data rows, a
\* row with another ttl, a row with a hand-made alias.
Registered(n) == <<HostRow(TXT(n), 1, 1, FALSE)>>
Held(n) ==
    {<<>>, Registered(n)}
    \cup {Registered(n) \o rows : rows \in {
            <<HostRow(Data(n), 1, 1, FALSE)>>,
            <<HostRow(Data(n), 1, 0, FALSE)>>,
            <<HostRow(Data(n), 1, 1, FALSE), HostRow(Data(n), 2, 1, FALSE)>>}}

Aliased(n) ==
    {Registered(n) \o rows : rows \in {
        <<HostRow(Data(n), 1, 1, TRUE)>>,
        <<HostRow(Data(n), 1, 1, FALSE), HostRow(Data(n), 3, 0, TRUE)>>}}

Table(rows) == [u \in UUIDs |-> IF u <= Len(rows) THEN rows[u] ELSE NoRow]

Endpoint(k, T) == [key |-> k, targets |-> T, ttl |-> MaxTTL]

\* What can be planned for a name, as <<deletes, creates>>.
Unplanned == <<<<>>, <<>>>>
Deleted(n) == <<<<Endpoint(TXT(n), {1}), Endpoint(Data(n), {1})>>, <<>>>>
Wanted(n, label, T) ==
    <<<<>>, <<Endpoint(TXT(n), {label}), Endpoint(Data(n), T)>>>>

\* 9 is a label validateTXT refuses.
Planned(n) ==
    {Deleted(n), Wanted(n, 1, {1}), Wanted(n, 1, {2}), Wanted(n, 2, {2, 3}),
     Wanted(n, 1, {1, 3}), Wanted(n, 9, {2})}

\* Name 1 is updated and name 2 created.
Plan(a, b) == [Delete |-> a[1] \o b[1], Create |-> b[2], UpdateNew |-> a[2]]

\* Name 1 in every shape, name 2 a create, a delete or nothing.
TwoNames ==
    {Table(a \o b) : a \in Held(1) \cup Aliased(1),
                     b \in {<<>>, Registered(2) \o
                                  <<HostRow(Data(2), 1, 1, FALSE)>>}}
TwoNamePlans ==
    {Plan(a, b) : a \in Planned(1), b \in {Unplanned, Deleted(2),
                                           Wanted(2, 1, {1})}}

\* A plan that describes a name's TXT record two ways.
ConflictTables == {Table(<<>>)}
ConflictPlans ==
    {[Delete |-> <<>>,
      Create |-> <<Endpoint(TXT(1), {1}), Endpoint(TXT(1), {2}),
                   Endpoint(Data(1), {1})>>,
      UpdateNew |-> <<>>]}

ASSUME RegistryAssumption ==
    /\ \A p \in Plans : RegistryPlan(p)
    /\ \A t \in Tables : Claimed(t) /\ Distinct(t)

\* What ConflictPlans lack.
ASSUME UndisputedAssumption ==
    \A p \in TwoNamePlans : Undisputed(p)
=============================================================================
