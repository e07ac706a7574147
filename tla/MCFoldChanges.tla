---------------------------- MODULE MCFoldChanges ----------------------------
(***************************************************************************)
(* Every plan of up to MaxItems endpoints in folding order, for foldChanges *)
(* to be compared with the order-free definition on each.                  *)
(***************************************************************************)
EXTENDS FoldChanges

CONSTANT MaxItems

VARIABLE items  \* the plan, in folding order

\* Two names, one of them refused by splitName; "bad" is an invalid TXT value;
\* of the ttls, the first two and the last two are the same to the firewall.
Endpoints ==
    {[key |-> <<n, rr>>, targets |-> T, ttl |-> 0] :
        n \in {"n", "apex"}, rr \in {"A", "MX"}, T \in {{}, {"x"}}}
    \cup {[key |-> <<"n", "TXT">>, targets |-> T, ttl |-> t] :
        T \in {{"x"}, {"bad"}, {"x", "bad"}}, t \in {-1, 0, MaxTTL, MaxTTL + 1}}

\* Deletes come first.
Extend ==
    /\ Len(items) < MaxItems
    /\ \E e \in Endpoints, empty \in BOOLEAN :
          /\ empty => \A i \in 1..Len(items) : items[i].empty
          /\ items' = Append(items, [endpoint |-> e, empty |-> empty])
=============================================================================
