----------------------------- MODULE FoldChanges -----------------------------
(***************************************************************************)
(* foldChanges of internal/opnsense/apply.go: an external-dns plan becomes *)
(* one desired set per record set.  The plan is folded one endpoint at a   *)
(* time, deletes first, then creates, then the new side of updates; an     *)
(* endpoint can be refused, and two endpoints can disagree about a key.    *)
(***************************************************************************)
EXTENDS Integers, Sequences, SequencesExt

CONSTANTS
    NoZone,     \* names splitName refuses: apex, wildcard, outside the domains
    BadTXT,     \* TXT targets validateTXT refuses
    MaxTTL      \* maxTTL

\* An endpoint is [key |-> <<name, rr>>, targets |-> a set, ttl |-> a number].
NameOf(k) == k[1]
TypeOf(k) == k[2]

SupportedTypes == {"A", "AAAA", "TXT"}

isTXT(k)  == TypeOf(k) = "TXT"
isData(k) == TypeOf(k) # "TXT"

clampTTL(ttl) == IF ttl <= 0 THEN 0 ELSE IF ttl > MaxTTL THEN MaxTTL ELSE ttl

\* The desired set an endpoint describes: a delete describes the empty one.
desiredSet(e, empty) ==
    [targets |-> IF empty THEN {} ELSE e.targets, ttl |-> clampTTL(e.ttl)]

\* Why an endpoint defines nothing, and what is then recorded.
NoName(e)             == NameOf(e.key) \in NoZone
NoTargets(e, empty)   == ~empty /\ e.targets = {}
InvalidTXT(e, empty)  == ~empty /\ isTXT(e.key) /\ e.targets \cap BadTXT # {}
Unsupported(e, empty) == ~empty /\ TypeOf(e.key) \notin SupportedTypes

Refused(e, empty) ==
    NoName(e) \/ NoTargets(e, empty) \/ InvalidTXT(e, empty)
              \/ Unsupported(e, empty)

Nothing == [sets |-> [k \in {} |-> {}], conflicted |-> {}, rejected |-> {},
            errs |-> 0]

Without(f, k) == [j \in DOMAIN f \ {k} |-> f[j]]
With(f, k, v) == [j \in DOMAIN f \cup {k} |-> IF j = k THEN v ELSE f[j]]

Fault(st)       == [st EXCEPT !.errs = @ + 1]
Keep(st, k, set) == [st EXCEPT !.sets = With(@, k, set)]
Drop(st, k)     == [st EXCEPT !.sets = Without(@, k),
                              !.conflicted = @ \cup {k}]

\* Two definitions of one key that are not sameSet.
Disagrees(st, k, set) == k \in DOMAIN st.sets /\ st.sets[k] # set

\* Deliberately wrong: the last definition of a key wins.
DefineLast(st, e, empty) ==
    IF Refused(e, empty)
    THEN Fault(st)
    ELSE Keep(st, e.key, desiredSet(e, empty))

\* Deliberately wrong: a disagreement is dropped without an error.
DefineQuietly(st, e, empty) ==
    IF Refused(e, empty) THEN Fault(st)
    ELSE IF Disagrees(st, e.key, desiredSet(e, empty)) THEN Drop(st, e.key)
    ELSE Keep(st, e.key, desiredSet(e, empty))

\* Deliberately wrong: an invalid TXT target is an error like any other.
DefineUncounted(st, e, empty) ==
    IF Refused(e, empty) THEN Fault(st)
    ELSE IF e.key \in st.conflicted THEN st
    ELSE IF Disagrees(st, e.key, desiredSet(e, empty))
         THEN Fault(Drop(st, e.key))
    ELSE Keep(st, e.key, desiredSet(e, empty))

\* define: one endpoint folded in.  The early returns keep the source's order:
\* a key already in conflict is skipped before its targets are looked at, and
\* a refused endpoint leaves an earlier definition of its key alone.
Define(st, e, empty) ==
    LET k   == e.key
        set == desiredSet(e, empty)
    IN  IF NoName(e) \/ NoTargets(e, empty) THEN Fault(st)
        ELSE IF k \in st.conflicted THEN st
        ELSE IF InvalidTXT(e, empty)
             THEN [Fault(st) EXCEPT !.rejected = @ \cup {k}]
        ELSE IF Unsupported(e, empty) THEN Fault(st)
        ELSE IF Disagrees(st, k, set) THEN Fault(Drop(st, k))
        ELSE Keep(st, k, set)

\* The order in which the three lists of a plan are folded.
Ordered(plan) ==
    [i \in 1..Len(plan.Delete) |->
        [endpoint |-> plan.Delete[i], empty |-> TRUE]]
    \o [i \in 1..Len(plan.Create) |->
        [endpoint |-> plan.Create[i], empty |-> FALSE]]
    \o [i \in 1..Len(plan.UpdateNew) |->
        [endpoint |-> plan.UpdateNew[i], empty |-> FALSE]]

\* The fold's local state after each number of endpoints.
FoldSteps(items) ==
    LET folded[n \in 0..Len(items)] ==
            IF n = 0 THEN Nothing
            ELSE Define(folded[n - 1], items[n].endpoint, items[n].empty)
    IN  folded

FoldAll(items) == FoldSteps(items)[Len(items)]

foldChanges(plan) == FoldAll(Ordered(plan))

-----------------------------------------------------------------------------
(* What the fold is for, without an order: the plan's acceptable           *)
(* definitions of a key, of which there must be exactly one.               *)

Definitions(items, k) ==
    {desiredSet(items[i].endpoint, items[i].empty) :
        i \in {j \in 1..Len(items) :
                 /\ items[j].endpoint.key = k
                 /\ ~Refused(items[j].endpoint, items[j].empty)}}

PlannedKeys(items) == {items[i].endpoint.key : i \in 1..Len(items)}

\* The keys the plan has one answer for, with that answer.
Agreed(items) ==
    LET one == {k \in PlannedKeys(items) :
                  \E d \in Definitions(items, k) : Definitions(items, k) = {d}}
    IN  [k \in one |-> CHOOSE d \in Definitions(items, k) : TRUE]

\* The desired sets depend on which definitions the plan holds and not on the
\* order of its lists: foldChanges keeps a key exactly when all acceptable
\* definitions of it agree, with that definition.
Agrees(items) == FoldAll(items).sets = Agreed(items)

\* A key of the plan that will not be converged is reported: the apply then
\* fails and external-dns plans again.
Reported(items) ==
    \A k \in PlannedKeys(items) :
        k \notin DOMAIN FoldAll(items).sets => FoldAll(items).errs > 0

\* A registry key lost to an invalid target is counted for the gate of the
\* data phase, unless it was already lost to a disagreement.
Counted(items) ==
    \A i \in 1..Len(items) :
        LET e == items[i].endpoint IN
        /\ InvalidTXT(e, items[i].empty) /\ ~NoName(e)
        /\ e.key \notin DOMAIN FoldAll(items).sets
        => e.key \in FoldAll(items).rejected \cup FoldAll(items).conflicted
=============================================================================
