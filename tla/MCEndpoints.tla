----------------------------- MODULE MCEndpoints -----------------------------
(***************************************************************************)
(* One pass of external-dns over one endpoint, on a table that holds other *)
(* rows already: the endpoint is adjusted, each of its targets is written  *)
(* as a row, anywhere in the sort order, and the table is read back.       *)
(* Besides, tables that no plan explains are only read.                    *)
(***************************************************************************)
EXTENDS Endpoints

CONSTANT MaxRows    \* rows of a table that is only read

VARIABLES
    e,      \* the endpoint as external-dns sends it
    rows,   \* the saved rows in the order they are read
    left    \* targets still to be written

Spelled(labels, upper, tail) == [labels |-> labels, upper |-> upper, tail |-> tail]
Plain(labels) == Spelled(labels, FALSE, <<>>)

Text(quotes, body) == [quotes |-> quotes, body |-> body]

\* What a configuration is: the domains are names, none of them empty (Validate
\* refuses that) and none a wildcard, and trimming leaves nothing behind them:
\* Validate trims the dot before the spaces, and keeps a dot that has a space
\* after it, with which no name is under the domain.
Names == [labels : Seq(STRING), upper : BOOLEAN, tail : Seq({".", " "})]

SettingsFit ==
    /\ MaxTTL \in Nat
    /\ \A d \in Configured : /\ d \in Names /\ d.labels # <<>> /\ ~isWildcard(d)
                             /\ TrimSpace(TrimDot(d)).tail = <<>>

NamesIn ==
    {Plain(l) : l \in {<<"a", "ex">>, <<"a", "sub", "ex">>, <<"ex">>,
                       <<"sub", "ex">>, <<"*", "ex">>, <<"a", "other">>}}
    \cup {Spelled(<<"a", "sub", "ex">>, TRUE, <<".", " ">>)}

TargetsIn(rr) ==
    IF rr = "TXT"
    THEN {{Text(1, "x")}, {Text(1, "x"), Text(1, "y")}, {Text(0, "x")},
          {Text(2, "x")}, {Text(1, "x"), Text(1, "long")}}
    ELSE {{Text(0, "x")}, {Text(0, "x"), Text(0, "y")}}

EndpointsIn ==
    UNION {[name : NamesIn, rr : {rr}, targets : TargetsIn(rr),
            ttl : {-1, 0, 1, MaxTTL + 1}, setIdentifier : BOOLEAN] :
              rr \in {"A", "TXT", "CNAME"}}

\* Rows other people made: the same record set disabled, the same name split
\* at another dot with another type, and aliases with an inherited half, one
\* for the domain itself.
Alias(host, domain) == [host |-> host, domain |-> domain, enabled |-> TRUE]
Aliases ==
    {<<>>, <<Alias(Plain(<<"b">>), Plain(<<>>))>>,
     <<Alias(Spelled(<<>>, FALSE, <<".">>), Plain(<<>>))>>}
Others ==
    {[host |-> Plain(<<"a", "sub">>), domain |-> Plain(<<"ex">>), rr |-> rr,
      ttl |-> ttl, enabled |-> on, isAlias |-> FALSE, target |-> Text(0, "z"),
      children |-> kids] :
        rr \in {"A", "MX"}, ttl \in {<<>>, <<2>>}, on \in BOOLEAN,
        kids \in Aliases}

Key == <<normaliseName(e.name), e.rr>>

InOthers(rs, k) == \E i \in 1..Len(rs) : k \in Keys(rs[i])

WriteInit ==
    /\ e \in EndpointsIn
    /\ rows \in {<<>>} \cup {<<r>> : r \in Others}
    /\ ~InOthers(rows, Key)
    /\ left = IF Dropped(e) THEN {} ELSE e.targets

Write ==
    \E t \in left, at \in 0..Len(rows) :
        /\ rows' = InsertAt(rows, at + 1, fields(AdjustEndpoint(e), t))
        /\ left' = left \ {t}
        /\ UNCHANGED e

\* Rows that share record sets: one name spelled in two ways and reached by
\* alias, ttls unset, zero, negative and explicit, a value stored with quotes,
\* disabled rows and alias rows.
Various ==
    {[host |-> Plain(<<"a">>), domain |-> Spelled(<<"ex">>, up, <<>>), rr |-> "TXT",
      ttl |-> ttl, enabled |-> TRUE, isAlias |-> FALSE, target |-> x,
      children |-> <<>>] :
        up \in BOOLEAN, x \in {Text(0, "x"), Text(1, "x")},
        ttl \in {<<>>, <<0>>, <<-1>>, <<1>>, <<2>>}}
    \cup
    {[host |-> Plain(<<"b">>), domain |-> Plain(<<"ex">>), rr |-> "TXT",
      ttl |-> ttl, enabled |-> f[1], isAlias |-> f[2], target |-> Text(0, "y"),
      children |-> <<[host |-> Plain(<<"a">>), domain |-> Plain(<<>>),
                      enabled |-> f[3]]>>] :
        ttl \in {<<>>, <<3>>}, f \in [1..3 -> BOOLEAN]}

\* An endpoint that is not written: it has no target.
NoEndpoint == [name |-> Plain(<<"ex">>), rr |-> "A", targets |-> {}, ttl |-> 0,
               setIdentifier |-> FALSE]

ReadInit ==
    /\ e = NoEndpoint
    /\ rows = <<>>
    /\ left = {}

AnyRow ==
    /\ e = NoEndpoint /\ Len(rows) < MaxRows
    /\ \E r \in Various : rows' = Append(rows, r)
    /\ UNCHANGED <<e, left>>

ConvertInit == WriteInit \/ ReadInit
ConvertNext == Write \/ AnyRow

\* foldChanges with the names and values this module says it refuses.
Fold == INSTANCE FoldChanges WITH
    NoZone <- {n \in {normaliseName(m) : m \in NamesIn} : splitName(n).err # ""},
    BadTXT <- {Text(q, b) : q \in 0..2, b \in BadText \cup {"x", "y"}}
              \ {Text(1, b) : b \in {"x", "y"} \ BadText}

\* A name below a configured domain, in labels alone.
Under(n) ==
    /\ \E d \in Configured : IsSuffix(d.labels, n.labels)
    /\ \A d \in Configured : d.labels # n.labels
    /\ ~isWildcard(n)

Described == [key |-> Key, targets |-> e.targets, ttl |-> clampTTL(e.ttl)]

-----------------------------------------------------------------------------

\* Once written, an endpoint is read back as AdjustEndpoints returned it: the
\* same name, type, targets and ttl, so external-dns plans nothing more.
ReadBack ==
    e # NoEndpoint /\ ~Dropped(e) /\ left = {} =>
        LET g == GroupsOf(rows)[Key] IN
        /\ g.targets = e.targets
        /\ g.ttl = AdjustEndpoint(e).ttl
        /\ ~g.differs

\* Of the endpoints that have a target, AdjustEndpoints drops exactly what the
\* write path would refuse, and what has a set identifier: nothing is planned
\* that can never be written, and nothing is lost that could have been.  And the
\* write path takes every name under a configured domain, however the operator
\* spelled the domain and the user the name.
DropsUnwritable ==
    e # NoEndpoint =>
        /\ Dropped(e) <=> e.setIdentifier \/ Fold!Refused(Described, FALSE)
        /\ splitName(normaliseName(e.name)).err = "" <=> Under(e.name)

\* Whatever order rows come in, a record set has the targets of its rows, the
\* smallest explicit ttl, and is reported when its rows disagree.
GroupsOrderFree == Grouped(rows)
=============================================================================
