------------------------------ MODULE Endpoints ------------------------------
(***************************************************************************)
(* The conversions between external-dns endpoints and host override rows:  *)
(* names.go, the TTL and TXT helpers of dto.go, AdjustEndpoints in         *)
(* provider.go and Snapshot.Endpoints in snapshot.go.  external-dns plans  *)
(* by comparing what AdjustEndpoints kept with what Endpoints returns, so  *)
(* the two directions have to meet.                                        *)
(***************************************************************************)
EXTENDS Integers, Sequences, SequencesExt, FiniteSetsExt

CONSTANTS
    MaxTTL,         \* maxTTL
    Configured,     \* OPNSENSE_DOMAINS as the operator spelled them
    BadText         \* TXT bodies that are empty, too long or not plain ASCII

(***************************************************************************)
(* A name is its labels and how they are spelled: with upper-case letters, *)
(* and with dots and spaces at the end.                                    *)
(***************************************************************************)
TrimSpace(n) ==
    LET kept == {k \in 0..Len(n.tail) : k = 0 \/ n.tail[k] # " "}
    IN  [n EXCEPT !.tail = SubSeq(@, 1, Max(kept))]

TrimDot(n) ==
    IF n.tail # <<>> /\ Last(n.tail) = "."
    THEN [n EXCEPT !.tail = Front(@)] ELSE n

ToLower(n) == [n EXCEPT !.upper = FALSE]

normaliseName(n) == ToLower(TrimDot(TrimSpace(n)))

\* Config.Validate trims the dot first and the spaces after it.
Domains == {ToLower(TrimSpace(TrimDot(d))) : d \in Configured}

\* An empty half of a name leaves the other; a hostname of dots is empty.
joinName(host, domain) ==
    LET h == normaliseName(host)
        d == normaliseName(domain)
    IN  IF h.labels = <<>> THEN d
        ELSE IF d.labels = <<>> THEN h
        ELSE [d EXCEPT !.labels = h.labels \o d.labels]

matchesDomain(n, d) == n.tail = d.tail /\ IsSuffix(d.labels, n.labels)

isWildcard(n) == \E i \in 1..Len(n.labels) : n.labels[i] = "*"

\* The longest configured domain the name is under, or why there is no split.
SplitAtDomain(n) ==
    LET matching == {d \in Domains : matchesDomain(n, d)}
        best == CHOOSE d \in matching :
                    \A c \in matching : Len(d.labels) >= Len(c.labels)
        host == [n EXCEPT !.labels =
                    SubSeq(@, 1, Len(@) - Len(best.labels)), !.tail = <<>>]
        parts == [err |-> "", host |-> host, domain |-> best]
    IN  IF matching = {} THEN [err |-> "domain"]
        ELSE IF n = best THEN [err |-> "apex"]
        ELSE IF isWildcard(host) THEN [err |-> "wildcard"]
        ELSE parts

\* The callers have normalised the name before: a name with two dots at its end
\* is another name here.
splitName(name) == SplitAtDomain(normaliseName(name))

-----------------------------------------------------------------------------
(* Times to live: <<>> is an empty ttl field.                              *)

clampTTL(ttl) == IF ttl <= 0 THEN 0 ELSE IF ttl > MaxTTL THEN MaxTTL ELSE ttl

ttlField(ttl) == IF ttl <= 0 THEN <<>> ELSE <<ttl>>

parseTTL(field) == IF field = <<>> \/ field[1] < 0 THEN 0 ELSE field[1]

(* A target is a body in pairs of double quotes.                           *)

validTXT(t) == t.quotes = 1 /\ t.body \notin BadText

bareTXT(t) == [t EXCEPT !.quotes = @ - 1]

\* Deliberately wrong: the value is returned as it is stored.
restoreTXTQuotesNever(t) == t

restoreTXTQuotes(t) == IF t.quotes >= 1 THEN t ELSE [t EXCEPT !.quotes = 1]

-----------------------------------------------------------------------------
(* AdjustEndpoints                                                         *)

SupportedTypes == {"A", "AAAA", "TXT"}

\* Deliberately wrong: TXT values are left for the write path to refuse.
dropReasonNoTXT(e, name) ==
    IF e.rr \notin SupportedTypes THEN "type"
    ELSE IF e.setIdentifier THEN "setIdentifier"
    ELSE IF isWildcard(name) THEN "wildcard"
    ELSE splitName(name).err

\* The first reason an endpoint cannot be written, or "".  splitName's own
\* wildcard error is not reached: the whole name was looked at before.
dropReason(e, name) ==
    IF e.rr \notin SupportedTypes THEN "type"
    ELSE IF e.setIdentifier THEN "setIdentifier"
    ELSE IF isWildcard(name) THEN "wildcard"
    ELSE IF splitName(name).err # "" THEN splitName(name).err
    ELSE IF e.rr = "TXT" /\ \E t \in e.targets : ~validTXT(t) THEN "txt"
    ELSE ""

Dropped(e) == dropReason(e, normaliseName(e.name)) # ""

AdjustEndpoint(e) ==
    [e EXCEPT !.name = normaliseName(@), !.ttl = clampTTL(@)]

\* fields: the row written for one target of an adjusted endpoint.
fields(e, target) ==
    [host |-> splitName(e.name).host, domain |-> splitName(e.name).domain,
     rr |-> e.rr, ttl |-> ttlField(e.ttl), enabled |-> TRUE, isAlias |-> FALSE,
     target |-> IF e.rr = "TXT" THEN bareTXT(target) ELSE target,
     children |-> <<>>]

-----------------------------------------------------------------------------
(* Snapshot.Endpoints                                                      *)

ReadTypes == {"A", "AAAA", "TXT", "MX"}

Read(r) == r.enabled /\ ~r.isAlias /\ r.rr \in ReadTypes

\* The endpoint target a row stands for.
TargetOf(r) == IF r.rr = "TXT" THEN restoreTXTQuotes(r.target) ELSE r.target

\* An alias inherits the half of its name it leaves empty; a dot is not empty.
Blank(n) == n.labels = <<>> /\ n.tail = <<>>

ChildName(r, c) ==
    joinName(IF Blank(c.host) THEN r.host ELSE c.host,
             IF Blank(c.domain) THEN r.domain ELSE c.domain)

\* The record sets a row is put into: its own and its enabled aliases'.
Shown(r) == {i \in 1..Len(r.children) : r.children[i].enabled}

OwnKey(r) == <<joinName(r.host, r.domain), r.rr>>
ChildKey(r, c) == <<ChildName(r, c), r.rr>>

Keys(r) ==
    IF Read(r) THEN {OwnKey(r)} \cup {ChildKey(r, r.children[i]) : i \in Shown(r)}
    ELSE {}

NoGroup == [targets |-> {}, ttl |-> 0, haveTTL |-> FALSE, sawUnset |-> FALSE,
            differs |-> FALSE]

\* Deliberately wrong: an unset ttl counts as the smallest.
GroupAddUnset(g, target, ttl) ==
    [targets |-> g.targets \cup {target},
     ttl |-> IF g.haveTTL /\ g.ttl < ttl THEN g.ttl ELSE ttl,
     haveTTL |-> TRUE, sawUnset |-> g.sawUnset \/ ttl = 0,
     differs |-> g.differs \/ (g.haveTTL /\ ttl # g.ttl)]

\* group.add
GroupAdd(g, target, ttl) ==
    LET with == [g EXCEPT !.targets = @ \cup {target}]
    IN  IF ttl = 0
        THEN [with EXCEPT !.sawUnset = TRUE, !.differs = @ \/ g.haveTTL]
        ELSE IF ~g.haveTTL
        THEN [with EXCEPT !.ttl = ttl, !.haveTTL = TRUE,
                          !.differs = @ \/ g.sawUnset]
        ELSE [with EXCEPT !.ttl = IF ttl < @ THEN ttl ELSE @,
                          !.differs = @ \/ ttl # g.ttl]

NoGroups == [k \in {} |-> NoGroup]

GroupOf(groups, k) == IF k \in DOMAIN groups THEN groups[k] ELSE NoGroup

Put(groups, k, r) ==
    [j \in DOMAIN groups \cup {k} |->
        IF j = k THEN GroupAdd(GroupOf(groups, k), TargetOf(r), parseTTL(r.ttl))
                 ELSE groups[j]]

\* One row of the table, and its aliases one by one; then all rows.
ChildSteps(groups, r) ==
    LET done[n \in 0..Len(r.children)] ==
            IF n = 0 THEN Put(groups, OwnKey(r), r)
            ELSE IF n \in Shown(r)
                 THEN Put(done[n - 1], ChildKey(r, r.children[n]), r)
                 ELSE done[n - 1]
    IN  done

PutRow(groups, r) ==
    IF Read(r) THEN ChildSteps(groups, r)[Len(r.children)] ELSE groups

RowSteps(rows) ==
    LET done[n \in 0..Len(rows)] ==
            IF n = 0 THEN NoGroups ELSE PutRow(done[n - 1], rows[n])
    IN  done

GroupsOf(rows) == RowSteps(rows)[Len(rows)]

-----------------------------------------------------------------------------
(* What the groups of a table are, without an order of its rows.           *)

RowsOf(rows, k) == {i \in 1..Len(rows) : k \in Keys(rows[i])}

TTLsOf(rows, k) == {parseTTL(rows[i].ttl) : i \in RowsOf(rows, k)}

Grouped(rows) ==
    /\ DOMAIN GroupsOf(rows) = UNION {Keys(rows[i]) : i \in 1..Len(rows)}
    /\ \A k \in DOMAIN GroupsOf(rows) :
          LET ttls == TTLsOf(rows, k)
              g    == GroupsOf(rows)[k]
          IN  /\ g.targets = {TargetOf(rows[i]) : i \in RowsOf(rows, k)}
              /\ g.ttl = IF ttls = {0} THEN 0 ELSE Min(ttls \ {0})
              /\ g.differs <=> \E s, t \in ttls : s # t
=============================================================================
