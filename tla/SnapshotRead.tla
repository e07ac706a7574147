---------------------------- MODULE SnapshotRead ----------------------------
(***************************************************************************)
(* Client.Snapshot and readAll of internal/opnsense/snapshot.go: the host  *)
(* override table is read page by page, each page a separate call, while   *)
(* other clients (an operator's browser, the webhook's own apply) edit it. *)
(* Pages are offsets into a sorted table, so an edit moves rows between    *)
(* pages already read and pages still to come; the consistency rules must  *)
(* catch that, or a record set is reported without some of its rows.       *)
(***************************************************************************)
EXTENDS Naturals, FiniteSets

CONSTANTS
    UUIDs,          \* row identities, numbers so that they order ties
    MaxRank,        \* distinct values of the sort key (domain, hostname, ...)
    PageSize,       \* OPNSENSE_PAGE_SIZE
    ReadAttempts,   \* attempts before a read fails
    NoTotal         \* no page of this attempt has been read yet (total < 0)

ASSUME ReadAssumption ==
    /\ UUIDs \subseteq Nat /\ IsFiniteSet(UUIDs)
    /\ MaxRank \in Nat \ {0}
    /\ PageSize \in Nat \ {0}
    /\ ReadAttempts \in Nat \ {0}
    /\ NoTotal \notin Nat

VARIABLES
    rank,       \* the table: sort key of each row, 0 when there is no such row
    attempt,    \* restarts so far
    current,    \* page about to be fetched
    total,      \* total of the attempt's first page
    seen,       \* uuids collected by this attempt
    result,     \* "reading", "ok", "error"
    first,      \* observation only: the rows when the first page was read,
    came,       \* the rows added since,
    gone        \* and the rows deleted since

vars == <<rank, attempt, current, total, seen, result, first, came, gone>>

table == <<rank>>
ghost == <<first, came, gone>>

-----------------------------------------------------------------------------
(* External: searchHostOverride sorts by (sort key, uuid) and cuts pages.  *)

Present == {u \in UUIDs : rank[u] > 0}

Before(u, v) == rank[u] < rank[v] \/ (rank[u] = rank[v] /\ u < v)

Position(u) == Cardinality({v \in Present : Before(v, u)})

PageRows(c) ==
    {u \in Present : /\ (c - 1) * PageSize <= Position(u)
                     /\ Position(u) < c * PageSize}

\* The total every page carries.
PageTotal == Cardinality(Present)

-----------------------------------------------------------------------------

Init ==
    /\ rank \in [UUIDs -> 0..MaxRank]
    /\ attempt = 0
    /\ current = 1
    /\ total = NoTotal
    /\ seen = {}
    /\ result = "reading"
    /\ first = {} /\ came = {} /\ gone = {}

\* total as readAll holds it once page "current" is in.
Total == IF total = NoTotal THEN PageTotal ELSE total

Collected == seen \cup PageRows(current)

MaxPages == (Total + PageSize - 1) \div PageSize + 1

\* Deliberately wrong: a total that changes between pages is not noticed.
InconsistentNoTotal ==
    \/ current > MaxPages
    \/ PageRows(current) = {} /\ Cardinality(seen) # Total
    \/ Cardinality(Collected) > Total

\* Deliberately wrong: an empty page is taken for a short one.
InconsistentNoEmpty ==
    \/ PageTotal # Total
    \/ current > MaxPages
    \/ Cardinality(Collected) > Total

\* The rules a page can break, in the order readAll tests them.  An empty
\* table breaks none and completes at once.
Inconsistent ==
    \/ PageTotal # Total
    \/ current > MaxPages
    \/ PageRows(current) = {} /\ Cardinality(seen) # Total
    \/ Cardinality(Collected) > Total

\* The observation variables start at the attempt's first page.
Observe ==
    IF total = NoTotal
    THEN first' = Present /\ came' = {} /\ gone' = {}
    ELSE UNCHANGED ghost

\* A good page that leaves rows to collect.
PageMore ==
    /\ result = "reading"
    /\ ~Inconsistent
    /\ Cardinality(Collected) < Total
    /\ total' = Total
    /\ seen' = Collected
    /\ current' = current + 1
    /\ Observe
    /\ UNCHANGED <<table, attempt, result>>

\* The last row is in: the table is returned.
PageComplete ==
    /\ result = "reading"
    /\ ~Inconsistent
    /\ Cardinality(Collected) = Total
    /\ total' = Total
    /\ seen' = Collected
    /\ result' = "ok"
    /\ Observe
    /\ UNCHANGED <<table, attempt, current>>

\* Deliberately wrong: restarts are not counted.
RestartReadForever ==
    /\ result = "reading"
    /\ Inconsistent
    /\ total' = NoTotal
    /\ seen' = {}
    /\ current' = 1
    /\ UNCHANGED <<table, attempt, result, ghost>>

\* Deliberately wrong: one attempt too many.
RestartReadOffByOne ==
    /\ result = "reading"
    /\ Inconsistent
    /\ attempt < ReadAttempts
    /\ attempt' = attempt + 1
    /\ total' = NoTotal
    /\ seen' = {}
    /\ current' = 1
    /\ UNCHANGED <<table, result, ghost>>

\* An inconsistent page starts the read over ...
RestartRead ==
    /\ result = "reading"
    /\ Inconsistent
    /\ attempt + 1 < ReadAttempts
    /\ attempt' = attempt + 1
    /\ total' = NoTotal
    /\ seen' = {}
    /\ current' = 1
    /\ UNCHANGED <<table, result, ghost>>

\* ... until the attempts are used up.
GiveUp ==
    /\ result = "reading"
    /\ Inconsistent
    /\ attempt + 1 >= ReadAttempts
    /\ result' = "error"
    /\ UNCHANGED <<table, attempt, current, total, seen, ghost>>

\* A call that fails ends the read at once; only inconsistency restarts it.
PageFailed ==
    /\ result = "reading"
    /\ result' = "error"
    /\ UNCHANGED <<table, attempt, current, total, seen, ghost>>

\* The next Records, apply, verification or startup read.
NextRead ==
    /\ result # "reading"
    /\ attempt' = 0
    /\ current' = 1
    /\ total' = NoTotal
    /\ seen' = {}
    /\ result' = "reading"
    /\ UNCHANGED <<table, ghost>>

-----------------------------------------------------------------------------
(* External: edits between two pages.                                      *)

AddRow(u) ==
    /\ result = "reading"
    /\ rank[u] = 0
    /\ \E n \in 1..MaxRank : rank' = [rank EXCEPT ![u] = n]
    /\ came' = came \cup {u}
    /\ UNCHANGED <<attempt, current, total, seen, result, first, gone>>

DeleteRow(u) ==
    /\ result = "reading"
    /\ rank[u] > 0
    /\ rank' = [rank EXCEPT ![u] = 0]
    /\ gone' = gone \cup {u}
    /\ UNCHANGED <<attempt, current, total, seen, result, first, came>>

\* A row is rewritten in place: it keeps its uuid and may sort elsewhere.
SetRow(u) ==
    /\ result = "reading"
    /\ rank[u] > 0
    /\ \E n \in 1..MaxRank : rank' = [rank EXCEPT ![u] = n]
    /\ UNCHANGED <<attempt, current, total, seen, result, ghost>>

Read == PageMore \/ PageComplete \/ RestartRead \/ GiveUp \/ PageFailed

Edit == \E u \in UUIDs : AddRow(u) \/ DeleteRow(u) \/ SetRow(u)

Next == Read \/ NextRead \/ Edit

Spec == Init /\ [][Next]_vars

\* Every call has a timeout, so a read goes on, with or without an error.  The
\* table may be edited for ever meanwhile.
Good == PageMore \/ PageComplete \/ RestartRead \/ GiveUp

FairSpec == Spec /\ WF_vars(Good)

-----------------------------------------------------------------------------

TypeOK ==
    /\ rank \in [UUIDs -> 0..MaxRank]
    /\ attempt \in 0..(ReadAttempts - 1)
    /\ current \in Nat \ {0}
    /\ total \in Nat \cup {NoTotal}
    /\ seen \subseteq UUIDs
    /\ result \in {"reading", "ok", "error"}
    /\ first \subseteq UUIDs /\ came \subseteq UUIDs /\ gone \subseteq UUIDs

\* Unless rows were both added and deleted after the attempt's first page, a
\* read that is accepted returned exactly the rows of the table as it was when
\* the last page was read, whatever moved between pages.
AcceptedIsWhole ==
    result = "ok" /\ (came = {} \/ gone = {}) => seen = Present

\* A read never goes on past the pages its total allows for, even when other
\* clients keep the table moving under it.
PagesBounded ==
    result = "reading" /\ total # NoTotal => current <= MaxPages

\* Every read ends, with a table or with an error, however often the table is
\* edited meanwhile.
ReadEnds == result = "reading" ~> result # "reading"

\* Documented on Snapshot: "A partial table is never returned."  A row that was
\* there from the first page to the last is returned.
NeverPartial == result = "ok" => first \ gone \subseteq seen
=============================================================================
