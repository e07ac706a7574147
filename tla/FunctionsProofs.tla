-------------------------- MODULE FunctionsProofs --------------------------
(***************************************************************************)
(* Proofs about the pure functions of MCFunctions, for plans and tables of *)
(* any length and any delays that fit.                                     *)
(***************************************************************************)
EXTENDS MCFunctions, FoldChangesProofs, SequenceTheorems

-----------------------------------------------------------------------------
(* foldChanges                                                             *)

ItemsTyped == items \in Seq(ItemsOf(Endpoints))

LEMMA ItemsAreTyped == Spec => []ItemsTyped
<1>1. Init => ItemsTyped
  BY DEF Init, NoPlan, ItemsTyped
<1>2. ItemsTyped /\ [Next]_vars => ItemsTyped'
  <2> SUFFICES ASSUME ItemsTyped, [Next]_vars
               PROVE  ItemsTyped'
    OBVIOUS
  <2>1. CASE items' = items
    BY <2>1 DEF ItemsTyped
  <2>2. CASE Extend
    <3>1. PICK x \in Endpoints, empty \in BOOLEAN :
             items' = Append(items, [endpoint |-> x, empty |-> empty])
      BY <2>2 DEF Extend
    <3>2. [endpoint |-> x, empty |-> empty] \in ItemsOf(Endpoints)
      BY DEF ItemsOf
    <3> QED
      BY <3>1, <3>2 DEF ItemsTyped
  <2> QED
    BY <2>1, <2>2 DEF Next, vars
<1> QED
  BY <1>1, <1>2, PTL DEF Spec

\* However long the plan, what foldChanges keeps does not depend on its order.
THEOREM FoldsAgree == Spec => []FoldIsAgreement
<1>1. ItemsTyped => FoldIsAgreement
  BY FoldIsOrderFree DEF ItemsTyped, FoldIsAgreement
<1> QED
  BY <1>1, ItemsAreTyped, PTL

\* However long the plan, foldChanges reports what it drops.
THEOREM FoldsReport == Spec => []DropsReported
<1>1. ItemsTyped => DropsReported
  BY FoldReportsDrops DEF ItemsTyped, DropsReported
<1> QED
  BY <1>1, ItemsAreTyped, PTL

\* However long the plan, foldChanges counts invalid registry values.
THEOREM FoldsCount == Spec => []InvalidTXTCounted
<1>1. ItemsTyped => InvalidTXTCounted
  BY FoldCountsInvalidTXT DEF ItemsTyped, InvalidTXTCounted
<1> QED
  BY <1>1, ItemsAreTyped, PTL

-----------------------------------------------------------------------------
(* Snapshot.Endpoints: the groups of a table say which rows were put into  *)
(* which record sets, whatever the order.                                  *)

\* A row as the firewall returns it.
RowFits(r) ==
    Conv!Read(r) \in BOOLEAN /\ Len(r.children) \in Nat /\ Conv!parseTTL(r.ttl) \in Nat

\* One put: a record set, a target and a ttl.
RowPut(r, k) == <<k, Conv!TargetOf(r), Conv!parseTTL(r.ttl)>>

PutTargets(puts, k) == {p[2] : p \in {q \in puts : q[1] = k}}
PutTTLs(puts, k)    == {p[3] : p \in {q \in puts : q[1] = k}}

\* A group holds all of its targets, knows whether it saw an unset and an
\* explicit ttl, the smallest explicit one, and whether two of them differ.
GroupHolds(g, targets, ttls) ==
    /\ g = [targets |-> g.targets, ttl |-> g.ttl, haveTTL |-> g.haveTTL,
            sawUnset |-> g.sawUnset, differs |-> g.differs]
    /\ g.haveTTL \in BOOLEAN /\ g.sawUnset \in BOOLEAN /\ g.differs \in BOOLEAN
    /\ g.targets = targets
    /\ g.sawUnset <=> 0 \in ttls
    /\ g.haveTTL <=> \E t \in ttls : t # 0
    /\ IF g.haveTTL
       THEN g.ttl \in ttls \ {0} /\ \A t \in ttls \ {0} : g.ttl <= t
       ELSE g.ttl = 0
    /\ g.differs <=> \E s, t \in ttls : s # t

Describes(groups, puts) ==
    /\ groups = [k \in DOMAIN groups |-> groups[k]]
    /\ DOMAIN groups = {p[1] : p \in puts}
    /\ \A p \in puts : p[3] \in Nat
    /\ \A k \in DOMAIN groups :
          GroupHolds(groups[k], PutTargets(puts, k), PutTTLs(puts, k))

LEMMA GroupAddHolds ==
    ASSUME NEW g, NEW targets, NEW ttls \in SUBSET Nat,
           GroupHolds(g, targets, ttls), NEW target, NEW ttl \in Nat
    PROVE  GroupHolds(Conv!GroupAdd(g, target, ttl), targets \cup {target},
                      ttls \cup {ttl})
<1> DEFINE new == Conv!GroupAdd(g, target, ttl)
<1>1. CASE ttl = 0
  <2>1. new = [targets |-> targets \cup {target}, ttl |-> g.ttl,
               haveTTL |-> g.haveTTL, sawUnset |-> TRUE,
               differs |-> g.differs \/ g.haveTTL]
    BY <1>1 DEF GroupHolds, Conv!GroupAdd
  <2> HIDE DEF new
  <2>2. GroupHolds(new, targets \cup {target}, ttls \cup {ttl})
    BY <1>1, <2>1 DEF GroupHolds
  <2> QED
    BY <2>2 DEF new
<1>2. CASE ttl # 0 /\ ~g.haveTTL
  <2>1. new = [targets |-> targets \cup {target}, ttl |-> ttl,
               haveTTL |-> TRUE, sawUnset |-> g.sawUnset,
               differs |-> g.differs \/ g.sawUnset]
    BY <1>2 DEF GroupHolds, Conv!GroupAdd
  <2> HIDE DEF new
  <2>2. GroupHolds(new, targets \cup {target}, ttls \cup {ttl})
    BY <1>2, <2>1 DEF GroupHolds
  <2> QED
    BY <2>2 DEF new
<1>3. CASE ttl # 0 /\ g.haveTTL
  <2>1. new = [targets |-> targets \cup {target},
               ttl |-> IF ttl < g.ttl THEN ttl ELSE g.ttl,
               haveTTL |-> TRUE, sawUnset |-> g.sawUnset,
               differs |-> g.differs \/ ttl # g.ttl]
    BY <1>3 DEF GroupHolds, Conv!GroupAdd
  <2> HIDE DEF new
  <2>2. g.ttl \in ttls \ {0} /\ \A t \in ttls \ {0} : g.ttl <= t
    BY <1>3 DEF GroupHolds
  <2>3. g.differs \/ ttl # g.ttl <=> \E s, t \in ttls \cup {ttl} : s # t
    BY <2>2 DEF GroupHolds
  <2>4. /\ new.ttl \in (ttls \cup {ttl}) \ {0}
        /\ \A t \in (ttls \cup {ttl}) \ {0} : new.ttl <= t
    <3>1. new.ttl = IF ttl < g.ttl THEN ttl ELSE g.ttl
      BY <2>1
    <3>2. g.ttl \in Nat
      BY <2>2
    <3> QED
      BY <1>3, <2>2, <3>1, <3>2
  <2>5. /\ g.sawUnset \in BOOLEAN /\ g.differs \in BOOLEAN
        /\ g.sawUnset <=> 0 \in ttls
    BY DEF GroupHolds
  <2>6. /\ new.haveTTL = TRUE /\ new.sawUnset = g.sawUnset
        /\ new.differs = (g.differs \/ ttl # g.ttl)
        /\ new.targets = targets \cup {target}
        /\ new = [targets |-> new.targets, ttl |-> new.ttl,
                  haveTTL |-> new.haveTTL, sawUnset |-> new.sawUnset,
                  differs |-> new.differs]
    BY <2>1
  <2>7. GroupHolds(new, targets \cup {target}, ttls \cup {ttl})
    BY <1>3, <2>3, <2>4, <2>5, <2>6 DEF GroupHolds
  <2> QED
    BY <2>7 DEF new
<1> QED
  BY <1>1, <1>2, <1>3 DEF GroupHolds

LEMMA NoGroupHolds == GroupHolds(Conv!NoGroup, {}, {})
BY DEF GroupHolds, Conv!NoGroup

LEMMA PutDescribes ==
    ASSUME NEW groups, NEW puts, Describes(groups, puts), NEW k, NEW r, RowFits(r)
    PROVE  Describes(Conv!Put(groups, k, r), puts \cup {RowPut(r, k)})
<1> DEFINE new    == Conv!Put(groups, k, r)
           all    == puts \cup {RowPut(r, k)}
           target == Conv!TargetOf(r)
           ttl    == Conv!parseTTL(r.ttl)
<1>1. ttl \in Nat
  BY DEF RowFits
<1>2. RowPut(r, k)[1] = k /\ RowPut(r, k)[2] = target /\ RowPut(r, k)[3] = ttl
  BY DEF RowPut
<1>3. /\ DOMAIN new = DOMAIN groups \cup {k}
      /\ new = [j \in DOMAIN new |-> new[j]]
      /\ new[k] = Conv!GroupAdd(Conv!GroupOf(groups, k), target, ttl)
      /\ \A j \in DOMAIN groups : j # k => new[j] = groups[j]
  BY DEF Conv!Put
<1>4. /\ PutTargets(all, k) = PutTargets(puts, k) \cup {target}
      /\ PutTTLs(all, k) = PutTTLs(puts, k) \cup {ttl}
  BY <1>2 DEF PutTargets, PutTTLs
<1>5. ASSUME NEW j, j # k
      PROVE  /\ PutTargets(all, j) = PutTargets(puts, j)
             /\ PutTTLs(all, j) = PutTTLs(puts, j)
  BY <1>2, <1>5 DEF PutTargets, PutTTLs
<1>6. GroupHolds(Conv!GroupOf(groups, k), PutTargets(puts, k), PutTTLs(puts, k))
  <2>1. CASE k \in DOMAIN groups
    BY <2>1 DEF Describes, Conv!GroupOf
  <2>2. CASE k \notin DOMAIN groups
    <3>1. PutTargets(puts, k) = {} /\ PutTTLs(puts, k) = {}
      BY <2>2 DEF Describes, PutTargets, PutTTLs
    <3> QED
      BY <2>2, <3>1, NoGroupHolds DEF Conv!GroupOf
  <2> QED
    BY <2>1, <2>2
<1>7. PutTTLs(puts, k) \in SUBSET Nat
  BY DEF Describes, PutTTLs
<1>8. GroupHolds(new[k], PutTargets(all, k), PutTTLs(all, k))
  <2> HIDE DEF target, ttl, new, all
  <2>1. GroupHolds(Conv!GroupAdd(Conv!GroupOf(groups, k), target, ttl),
                   PutTargets(puts, k) \cup {target},
                   PutTTLs(puts, k) \cup {ttl})
    BY <1>1, <1>6, <1>7, GroupAddHolds
  <2> QED
    BY <2>1, <1>3, <1>4
<1>9. DOMAIN new = {p[1] : p \in all}
  BY <1>2, <1>3 DEF Describes
<1>10. \A p \in all : p[3] \in Nat
  BY <1>1, <1>2 DEF Describes
<1>11. \A j \in DOMAIN new :
          GroupHolds(new[j], PutTargets(all, j), PutTTLs(all, j))
  <2> SUFFICES ASSUME NEW j \in DOMAIN new, j # k
               PROVE  GroupHolds(new[j], PutTargets(all, j), PutTTLs(all, j))
    BY <1>8
  <2>1. j \in DOMAIN groups /\ new[j] = groups[j]
    BY <1>3
  <2> QED
    BY <2>1, <1>5 DEF Describes
<1> HIDE DEF new, all
<1>12. Describes(new, all)
  BY <1>3, <1>9, <1>10, <1>11 DEF Describes
<1> QED
  BY <1>12 DEF new, all

\* The steps over the aliases of a row exist.
LEMMA ChildStepsDefined ==
    ASSUME NEW groups, NEW r, Len(r.children) \in Nat
    PROVE  Conv!ChildSteps(groups, r) =
              [n \in 0..Len(r.children) |->
                  IF n = 0 THEN Conv!Put(groups, Conv!OwnKey(r), r)
                  ELSE IF n \in Conv!Shown(r)
                       THEN Conv!Put(Conv!ChildSteps(groups, r)[n - 1],
                                     Conv!ChildKey(r, r.children[n]), r)
                       ELSE Conv!ChildSteps(groups, r)[n - 1]]
<1> DEFINE Step(v, n) == IF n \in Conv!Shown(r)
                         THEN Conv!Put(v, Conv!ChildKey(r, r.children[n]), r)
                         ELSE v
           First == Conv!Put(groups, Conv!OwnKey(r), r)
           Folds(g, m) ==
               g = [n \in 0..m |-> IF n = 0 THEN First ELSE Step(g[n - 1], n)]
           None == {m \in Nat : ~\E g : Folds(g, m)}
<1> HIDE DEF Step, First
<1>1. None = {}
  <2> SUFFICES ASSUME None # {}
               PROVE  FALSE
    OBVIOUS
  <2>1. PICK m \in None : \A y \in None : m <= y
    BY MinIsLeast
  <2>2. CASE m = 0
    <3>1. Folds([n \in 0..m |-> First], m)
      BY <2>2
    <3> QED
      BY <3>1
  <2>3. CASE m # 0
    <3>1. m - 1 \in Nat /\ m - 1 \notin None
      <4>1. m \in Nat
        OBVIOUS
      <4> HIDE DEF None
      <4> QED
        BY <4>1, <2>1, <2>3
    <3>2. PICK g : Folds(g, m - 1)
      BY <3>1
    <3> DEFINE h == [n \in 0..m |-> IF n = m THEN Step(g[m - 1], m) ELSE g[n]]
    <3>3. ASSUME NEW n \in 0..m
          PROVE  h[n] = IF n = 0 THEN First ELSE Step(h[n - 1], n)
      <4>1. CASE n = 0
        BY <4>1, <3>2, <2>3
      <4>2. CASE n # 0 /\ n = m
        BY <4>2
      <4>3. CASE n # 0 /\ n # m
        <5>1. n \in 0..(m - 1) /\ n - 1 \in 0..(m - 1)
          BY <4>3
        <5>2. g[n] = Step(g[n - 1], n)
          BY <5>1, <4>3, <3>2
        <5>3. h[n] = g[n] /\ h[n - 1] = g[n - 1]
          BY <5>1, <4>3
        <5> QED
          BY <5>2, <5>3, <4>3
      <4> QED
        BY <4>1, <4>2, <4>3
    <3>4. Folds(h, m)
      BY <3>3
    <3> QED
      BY <3>4
  <2> QED
    BY <2>2, <2>3
<1>2. PICK g : Folds(g, Len(r.children))
  BY <1>1
<1> QED
  BY <1>2 DEF Conv!ChildSteps, Step, First

\* The puts of a row into its own record set and those of its first n aliases.
AliasPuts(r, n) ==
    {RowPut(r, Conv!OwnKey(r))} \cup
    {RowPut(r, Conv!ChildKey(r, r.children[i])) : i \in Conv!Shown(r) \cap 1..n}

LEMMA ChildrenDescribed ==
    ASSUME NEW groups, NEW puts, Describes(groups, puts), NEW r, RowFits(r)
    PROVE  \A n \in 0..Len(r.children) :
              Describes(Conv!ChildSteps(groups, r)[n], puts \cup AliasPuts(r, n))
<1> DEFINE last == Len(r.children)
           done == Conv!ChildSteps(groups, r)
           Wrong == {n \in 0..last : ~Describes(done[n], puts \cup AliasPuts(r, n))}
<1>1. last \in Nat
  BY DEF RowFits
<1>2. /\ done[0] = Conv!Put(groups, Conv!OwnKey(r), r)
      /\ \A n \in 1..last :
            done[n] = IF n \in Conv!Shown(r)
                      THEN Conv!Put(done[n - 1], Conv!ChildKey(r, r.children[n]), r)
                      ELSE done[n - 1]
  BY <1>1, ChildStepsDefined
<1> HIDE DEF last, done
<1> SUFFICES ASSUME Wrong # {}
             PROVE  FALSE
  BY DEF last, done
<1>3. PICK n \in Wrong : \A y \in Wrong : n <= y
  <2>1. Wrong \in SUBSET Nat
    BY <1>1
  <2> QED
    BY <2>1, MinIsLeast
<1>4. n # 0
  <2> SUFFICES ASSUME n = 0
               PROVE  FALSE
    OBVIOUS
  <2>1. AliasPuts(r, 0) = {RowPut(r, Conv!OwnKey(r))}
    BY DEF AliasPuts
  <2>2. Describes(done[0], puts \cup AliasPuts(r, 0))
    BY <1>2, <2>1, PutDescribes
  <2> QED
    BY <2>2
<1>5. n \in 1..last /\ n - 1 \in 0..last
  BY <1>1, <1>4
<1>6. n - 1 \notin Wrong
  <2>1. n \in Nat
    BY <1>1
  <2> HIDE DEF Wrong
  <2> QED
    BY <2>1, <1>3
<1>7. Describes(done[n - 1], puts \cup AliasPuts(r, n - 1))
  BY <1>5, <1>6
<1>8. \A i : i \in 1..n <=> i \in 1..(n - 1) \/ i = n
  BY <1>5
<1>9. Describes(done[n], puts \cup AliasPuts(r, n))
  <2>1. CASE n \in Conv!Shown(r)
    <3> DEFINE k == Conv!ChildKey(r, r.children[n])
               before == puts \cup AliasPuts(r, n - 1)
    <3>1. Describes(Conv!Put(done[n - 1], k, r), before \cup {RowPut(r, k)})
      <4> HIDE DEF before, k
      <4>1. Describes(done[n - 1], before)
        BY <1>7 DEF before
      <4> QED
        BY <4>1, PutDescribes
    <3>2. AliasPuts(r, n) = AliasPuts(r, n - 1) \cup {RowPut(r, k)}
      BY <1>8, <2>1 DEF AliasPuts
    <3>3. before \cup {RowPut(r, k)} = puts \cup AliasPuts(r, n)
      BY <3>2
    <3>4. done[n] = Conv!Put(done[n - 1], k, r)
      BY <1>2, <1>5, <2>1
    <3> HIDE DEF before, k
    <3> QED
      BY <3>1, <3>3, <3>4
  <2>2. CASE n \notin Conv!Shown(r)
    <3>1. AliasPuts(r, n) = AliasPuts(r, n - 1)
      BY <1>8, <2>2 DEF AliasPuts
    <3> QED
      BY <3>1, <1>2, <1>5, <1>7, <2>2
  <2> QED
    BY <2>1, <2>2
<1> QED
  BY <1>9

\* All puts of a row, and of the first n rows of a table.
RowPuts(r) == {RowPut(r, k) : k \in Conv!Keys(r)}
TablePuts(rs, n) == UNION {RowPuts(rs[i]) : i \in 1..n}

LEMMA RowDescribed ==
    ASSUME NEW groups, NEW puts, Describes(groups, puts), NEW r, RowFits(r)
    PROVE  Describes(Conv!PutRow(groups, r), puts \cup RowPuts(r))
<1>1. CASE Conv!Read(r)
  <2>1. Len(r.children) \in 0..Len(r.children)
    BY DEF RowFits
  <2>2. Conv!Shown(r) \cap 1..Len(r.children) = Conv!Shown(r)
    BY DEF Conv!Shown
  <2>3. RowPuts(r) = AliasPuts(r, Len(r.children))
    BY <1>1, <2>2 DEF RowPuts, AliasPuts, Conv!Keys
  <2> QED
    BY <1>1, <2>1, <2>3, ChildrenDescribed DEF Conv!PutRow
<1>2. CASE ~Conv!Read(r)
  <2>1. RowPuts(r) = {}
    BY <1>2 DEF RowPuts, Conv!Keys
  <2> QED
    BY <1>2, <2>1 DEF Conv!PutRow
<1> QED
  BY <1>1, <1>2

\* The steps over the rows of a table exist.
LEMMA RowStepsDefined ==
    ASSUME NEW rs, Len(rs) \in Nat
    PROVE  Conv!RowSteps(rs) =
              [n \in 0..Len(rs) |->
                  IF n = 0 THEN Conv!NoGroups
                  ELSE Conv!PutRow(Conv!RowSteps(rs)[n - 1], rs[n])]
<1> DEFINE Step(v, n) == Conv!PutRow(v, rs[n])
           First == Conv!NoGroups
           Folds(g, m) ==
               g = [n \in 0..m |-> IF n = 0 THEN First ELSE Step(g[n - 1], n)]
           None == {m \in Nat : ~\E g : Folds(g, m)}
<1> HIDE DEF Step, First
<1>1. None = {}
  <2> SUFFICES ASSUME None # {}
               PROVE  FALSE
    OBVIOUS
  <2>1. PICK m \in None : \A y \in None : m <= y
    BY MinIsLeast
  <2>2. CASE m = 0
    <3>1. Folds([n \in 0..m |-> First], m)
      BY <2>2
    <3> QED
      BY <3>1
  <2>3. CASE m # 0
    <3>1. m - 1 \in Nat /\ m - 1 \notin None
      <4>1. m \in Nat
        OBVIOUS
      <4> HIDE DEF None
      <4> QED
        BY <4>1, <2>1, <2>3
    <3>2. PICK g : Folds(g, m - 1)
      BY <3>1
    <3> DEFINE h == [n \in 0..m |-> IF n = m THEN Step(g[m - 1], m) ELSE g[n]]
    <3>3. ASSUME NEW n \in 0..m
          PROVE  h[n] = IF n = 0 THEN First ELSE Step(h[n - 1], n)
      <4>1. CASE n = 0
        BY <4>1, <3>2, <2>3
      <4>2. CASE n # 0 /\ n = m
        BY <4>2
      <4>3. CASE n # 0 /\ n # m
        <5>1. n \in 0..(m - 1) /\ n - 1 \in 0..(m - 1)
          BY <4>3
        <5>2. g[n] = Step(g[n - 1], n)
          BY <5>1, <4>3, <3>2
        <5>3. h[n] = g[n] /\ h[n - 1] = g[n - 1]
          BY <5>1, <4>3
        <5> QED
          BY <5>2, <5>3, <4>3
      <4> QED
        BY <4>1, <4>2, <4>3
    <3>4. Folds(h, m)
      BY <3>3
    <3> QED
      BY <3>4
  <2> QED
    BY <2>2, <2>3
<1>2. PICK g : Folds(g, Len(rs))
  BY <1>1
<1> QED
  BY <1>2 DEF Conv!RowSteps, Step, First

LEMMA TableDescribed ==
    ASSUME NEW rs, Len(rs) \in Nat, \A i \in 1..Len(rs) : RowFits(rs[i])
    PROVE  Describes(Conv!GroupsOf(rs), TablePuts(rs, Len(rs)))
<1> DEFINE done == Conv!RowSteps(rs)
           Wrong == {n \in 0..Len(rs) : ~Describes(done[n], TablePuts(rs, n))}
<1>1. /\ done[0] = Conv!NoGroups
      /\ \A n \in 1..Len(rs) : done[n] = Conv!PutRow(done[n - 1], rs[n])
  BY RowStepsDefined
<1> HIDE DEF done
<1>2. Wrong = {}
  <2> SUFFICES ASSUME Wrong # {}
               PROVE  FALSE
    OBVIOUS
  <2>1. PICK n \in Wrong : \A y \in Wrong : n <= y
    <3>1. Wrong \in SUBSET Nat
      OBVIOUS
    <3> QED
      BY <3>1, MinIsLeast
  <2>2. n # 0
    <3>1. TablePuts(rs, 0) = {}
      BY DEF TablePuts
    <3>2. Describes(Conv!NoGroups, {})
      BY DEF Describes, Conv!NoGroups
    <3> QED
      BY <1>1, <3>1, <3>2
  <2>3. n \in 1..Len(rs) /\ n - 1 \in 0..Len(rs)
    BY <2>2
  <2>4. n - 1 \notin Wrong
    <3>1. n \in Nat
      OBVIOUS
    <3> HIDE DEF Wrong
    <3> QED
      BY <3>1, <2>1
  <2>5. Describes(done[n - 1], TablePuts(rs, n - 1))
    BY <2>3, <2>4
  <2>6. TablePuts(rs, n) = TablePuts(rs, n - 1) \cup RowPuts(rs[n])
    <3>1. \A i : i \in 1..n <=> i \in 1..(n - 1) \/ i = n
      BY <2>3
    <3> QED
      BY <3>1 DEF TablePuts
  <2>7. Describes(Conv!PutRow(done[n - 1], rs[n]), TablePuts(rs, n))
    BY <2>3, <2>5, <2>6, RowDescribed
  <2> QED
    BY <1>1, <2>3, <2>7
<1>3. Len(rs) \in 0..Len(rs)
  OBVIOUS
<1> QED
  BY <1>2, <1>3 DEF Conv!GroupsOf, done

\* Whatever the rows and their order, a table is grouped by record set: all
\* targets, the smallest explicit ttl, and whether the rows disagree.
THEOREM GroupsAreOrderFree ==
    ASSUME NEW rs, Len(rs) \in Nat, \A i \in 1..Len(rs) : RowFits(rs[i])
    PROVE  Conv!Grouped(rs)
<1> DEFINE groups == Conv!GroupsOf(rs)
           puts   == TablePuts(rs, Len(rs))
<1>1. Describes(groups, puts)
  BY TableDescribed
<1>2. \A i \in 1..Len(rs) : \A k \in Conv!Keys(rs[i]) : RowPut(rs[i], k) \in puts
  BY DEF TablePuts, RowPuts
<1>3. ASSUME NEW p \in puts
      PROVE  \E i \in 1..Len(rs) :
                /\ p[1] \in Conv!Keys(rs[i])
                /\ p[2] = Conv!TargetOf(rs[i])
                /\ p[3] = Conv!parseTTL(rs[i].ttl)
  <2>1. PICK i \in 1..Len(rs) : p \in RowPuts(rs[i])
    BY DEF TablePuts
  <2>2. PICK k \in Conv!Keys(rs[i]) : p = RowPut(rs[i], k)
    BY <2>1 DEF RowPuts
  <2> QED
    BY <2>2 DEF RowPut
<1>4. \A r, k : /\ RowPut(r, k)[1] = k
               /\ RowPut(r, k)[2] = Conv!TargetOf(r)
               /\ RowPut(r, k)[3] = Conv!parseTTL(r.ttl)
  BY DEF RowPut
<1> HIDE DEF groups, puts
<1>5. DOMAIN groups = UNION {Conv!Keys(rs[i]) : i \in 1..Len(rs)}
  <2>1. DOMAIN groups = {p[1] : p \in puts}
    BY <1>1 DEF Describes
  <2>2. ASSUME NEW i \in 1..Len(rs), NEW k \in Conv!Keys(rs[i])
        PROVE  k \in DOMAIN groups
    <3>1. RowPut(rs[i], k) \in puts /\ RowPut(rs[i], k)[1] = k
      BY <1>2, <1>4
    <3> QED
      BY <2>1, <3>1
  <2>3. ASSUME NEW k \in DOMAIN groups
        PROVE  \E i \in 1..Len(rs) : k \in Conv!Keys(rs[i])
    BY <1>3, <2>1
  <2> QED
    BY <2>2, <2>3
<1>6. ASSUME NEW k \in DOMAIN groups
      PROVE  /\ PutTargets(puts, k) =
                  {Conv!TargetOf(rs[i]) : i \in Conv!RowsOf(rs, k)}
             /\ PutTTLs(puts, k) = Conv!TTLsOf(rs, k)
  <2>1. \A i : i \in Conv!RowsOf(rs, k) <=>
                  i \in 1..Len(rs) /\ k \in Conv!Keys(rs[i])
    BY DEF Conv!RowsOf
  <2>2. ASSUME NEW i \in Conv!RowsOf(rs, k)
        PROVE  /\ Conv!TargetOf(rs[i]) \in PutTargets(puts, k)
               /\ Conv!parseTTL(rs[i].ttl) \in PutTTLs(puts, k)
    <3>1. RowPut(rs[i], k) \in puts
      BY <1>2, <2>1
    <3> QED
      BY <1>4, <3>1 DEF PutTargets, PutTTLs
  <2>3. ASSUME NEW p \in puts, p[1] = k
        PROVE  \E i \in Conv!RowsOf(rs, k) :
                  p[2] = Conv!TargetOf(rs[i]) /\ p[3] = Conv!parseTTL(rs[i].ttl)
    BY <1>3, <2>1, <2>3
  <2>4. \A t \in PutTargets(puts, k) :
           t \in {Conv!TargetOf(rs[i]) : i \in Conv!RowsOf(rs, k)}
    BY <2>3 DEF PutTargets
  <2>5. \A t \in PutTTLs(puts, k) : t \in Conv!TTLsOf(rs, k)
    BY <2>3 DEF PutTTLs, Conv!TTLsOf
  <2>6. \A t \in Conv!TTLsOf(rs, k) : t \in PutTTLs(puts, k)
    BY <2>2 DEF Conv!TTLsOf
  <2> QED
    BY <2>2, <2>4, <2>5, <2>6
<1>7. ASSUME NEW k \in DOMAIN groups
      PROVE  LET ttls == Conv!TTLsOf(rs, k)  g == groups[k] IN
             /\ g.targets = {Conv!TargetOf(rs[i]) : i \in Conv!RowsOf(rs, k)}
             /\ g.ttl = IF ttls = {0} THEN 0 ELSE Conv!Min(ttls \ {0})
             /\ g.differs <=> \E s, t \in ttls : s # t
  <2> DEFINE ttls == Conv!TTLsOf(rs, k)
             g    == groups[k]
  <2>1. GroupHolds(g, {Conv!TargetOf(rs[i]) : i \in Conv!RowsOf(rs, k)}, ttls)
    BY <1>1, <1>6 DEF Describes
  <2>2. ttls \in SUBSET Nat
    BY DEF Conv!TTLsOf, Conv!RowsOf, RowFits
  <2>3. ttls # {}
    BY <1>5 DEF Conv!TTLsOf, Conv!RowsOf
  <2> HIDE DEF ttls, g
  <2>4. CASE g.haveTTL
    <3>1. g.ttl \in ttls \ {0} /\ \A t \in ttls \ {0} : g.ttl <= t
      BY <2>1, <2>4 DEF GroupHolds
    <3>2. Conv!Min(ttls \ {0}) = g.ttl
      <4> DEFINE T == ttls \ {0}
      <4>1. T \in SUBSET Nat /\ g.ttl \in T /\ \A t \in T : g.ttl <= t
        BY <2>2, <3>1
      <4> HIDE DEF T
      <4>2. Conv!Min(T) \in T /\ \A t \in T : Conv!Min(T) <= t
        BY <4>1 DEF Conv!Min
      <4>3. Conv!Min(T) \in Nat /\ g.ttl \in Nat
        BY <4>1, <4>2
      <4>4. Conv!Min(T) <= g.ttl /\ g.ttl <= Conv!Min(T)
        BY <4>1, <4>2
      <4>5. Conv!Min(T) = g.ttl
        BY <4>3, <4>4
      <4> QED
        BY <4>5 DEF T
    <3> QED
      BY <2>1, <3>1, <3>2 DEF GroupHolds, ttls, g
  <2>5. CASE ~g.haveTTL
    <3>1. ttls = {0}
      BY <2>1, <2>3, <2>5 DEF GroupHolds
    <3> QED
      BY <2>1, <2>5, <3>1 DEF GroupHolds, ttls, g
  <2> QED
    BY <2>4, <2>5
<1> QED
  BY <1>5, <1>7 DEF Conv!Grouped, groups

-----------------------------------------------------------------------------
(* Names: a name that splitName takes apart is put together by joinName.   *)

\* The provers do not know that a literal is a string: Words is STRING.
Words ==
    STRING \cup {"a", "ex", "sub", "*", "other", "x", "y", "long", "A", "TXT", "CNAME"}

AnyNames == [labels : Seq(Words), upper : BOOLEAN, tail : Seq({".", " "})]

\* A name is its labels, its case and what stands behind it.
Spelling(labels, upper, tail) == [labels |-> labels, upper |-> upper, tail |-> tail]
Lower(labels, tail) == Spelling(labels, FALSE, tail)

LEMMA LowerRelabelled ==
    ASSUME NEW n, NEW labels, NEW tail, n = Lower(labels, tail), NEW v
    PROVE  [n EXCEPT !.labels = v] = Lower(v, tail)
<1>1. ASSUME NEW u, n = Spelling(labels, u, tail)
      PROVE  [n EXCEPT !.labels = v] = Spelling(v, u, tail)
  BY <1>1 DEF Spelling
<1> QED
  BY <1>1 DEF Lower

LEMMA LowerRetailed ==
    ASSUME NEW n, NEW labels, n = Lower(labels, <<>>)
    PROVE  [n EXCEPT !.tail = <<>>] = n
<1>1. ASSUME NEW u, NEW t, n = Spelling(labels, u, t)
      PROVE  [n EXCEPT !.tail = t] = n
  BY <1>1 DEF Spelling
<1> QED
  BY <1>1 DEF Lower

\* The steps of normalising leave the labels alone.
LEMMA TrimSpaceKeepsLabels ==
    ASSUME NEW n, NEW labels, NEW upper, NEW tail, n = Spelling(labels, upper, tail)
    PROVE  \E t : Conv!TrimSpace(n) = Spelling(labels, upper, t)
<1> DEFINE kept == {k \in 0..Len(n.tail) : k = 0 \/ n.tail[k] # " "}
           t    == SubSeq(n.tail, 1, Conv!Max(kept))
<1>1. Conv!TrimSpace(n) = [n EXCEPT !.tail = t]
  BY DEF Conv!TrimSpace
<1> HIDE DEF t
<1>2. [n EXCEPT !.tail = t] = Spelling(labels, upper, t)
  BY DEF Spelling
<1> QED
  BY <1>1, <1>2

LEMMA TrimDotKeepsLabels ==
    ASSUME NEW n, NEW labels, NEW upper, NEW tail, n = Spelling(labels, upper, tail)
    PROVE  \E t : Conv!TrimDot(n) = Spelling(labels, upper, t)
<1> DEFINE t == Conv!Front(n.tail)
<1>1. Conv!TrimDot(n) = [n EXCEPT !.tail = t] \/ Conv!TrimDot(n) = n
  BY DEF Conv!TrimDot
<1> HIDE DEF t
<1>2. [n EXCEPT !.tail = t] = Spelling(labels, upper, t)
  BY DEF Spelling
<1> QED
  BY <1>1, <1>2

LEMMA ToLowerKeepsLabels ==
    ASSUME NEW n, NEW labels, NEW upper, NEW tail, n = Spelling(labels, upper, tail)
    PROVE  Conv!ToLower(n) = Lower(labels, tail)
<1>1. ASSUME NEW v
      PROVE  [n EXCEPT !.upper = v] = Spelling(labels, v, tail)
  BY DEF Spelling
<1> QED
  BY <1>1 DEF Conv!ToLower, Lower

LEMMA NameIsSpelling ==
    ASSUME NEW n \in AnyNames
    PROVE  n = Spelling(n.labels, n.upper, n.tail) /\ n.labels \in Seq(Words)
BY DEF AnyNames, Spelling

LEMMA NormaliseKeepsLabels ==
    ASSUME NEW n \in AnyNames
    PROVE  \E t : Conv!normaliseName(n) = Lower(n.labels, t)
<1> DEFINE m == Conv!TrimSpace(n)
           o == Conv!TrimDot(m)
<1> HIDE DEF m, o
<1>1. n = Spelling(n.labels, n.upper, n.tail)
  BY NameIsSpelling
<1>2. PICK t : m = Spelling(n.labels, n.upper, t)
  BY <1>1, TrimSpaceKeepsLabels DEF m
<1>3. PICK u : o = Spelling(n.labels, n.upper, u)
  BY <1>2, TrimDotKeepsLabels DEF o
<1>4. Conv!ToLower(o) = Lower(n.labels, u)
  BY <1>3, ToLowerKeepsLabels
<1> QED
  BY <1>4 DEF Conv!normaliseName, m, o

\* A name without dots and spaces at the end is only lower-cased.
LEMMA NormalisePlain ==
    ASSUME NEW labels, NEW upper
    PROVE  Conv!normaliseName(Spelling(labels, upper, <<>>))
              = Lower(labels, <<>>)
<1> DEFINE n == Spelling(labels, upper, <<>>)
           kept == {k \in 0..Len(n.tail) : k = 0 \/ n.tail[k] # " "}
<1>1. n.tail = <<>> /\ Len(<<>>) = 0
  BY EmptySeq DEF Spelling
<1>2. kept = {0}
  <2>1. 0..Len(n.tail) = {0}
    <3> HIDE DEF n
    <3> QED
      BY <1>1
  <2> QED
    BY <2>1
<1>3. Conv!Max({0}) = 0
  BY DEF Conv!Max
<1>4. SubSeq(<<>>, 1, 0) = <<>>
  BY SubSeqEmpty
<1>5. Conv!TrimSpace(n) = n
  <2>1. Conv!TrimSpace(n) = [n EXCEPT !.tail = SubSeq(n.tail, 1, Conv!Max(kept))]
    BY DEF Conv!TrimSpace
  <2>2. SubSeq(n.tail, 1, Conv!Max(kept)) = <<>>
    BY <1>1, <1>2, <1>3, <1>4
  <2> HIDE DEF kept
  <2> QED
    BY <2>1, <2>2 DEF Spelling
<1>6. Conv!TrimDot(n) = n
  BY <1>1 DEF Conv!TrimDot
<1>7. Conv!ToLower(n) = Lower(labels, <<>>)
  BY ToLowerKeepsLabels
<1> QED
  BY <1>5, <1>6, <1>7 DEF Conv!normaliseName

\* What is left of a domain is a name in lower case.
LEMMA DomainsAreNames ==
    ASSUME NEW d \in Conv!Domains
    PROVE  \E labels \in Seq(Words) : \E t :
              /\ d = Lower(labels, t)
              /\ labels # <<>> /\ ~\E i \in 1..Len(labels) : labels[i] = "*"
<1>1. PICK c \in Configured : d = Conv!ToLower(Conv!TrimSpace(Conv!TrimDot(c)))
  BY DEF Conv!Domains
<1>2. c \in AnyNames /\ c.labels # <<>> /\ ~Conv!isWildcard(c)
  <2>1. c \in Conv!Names /\ c.labels # <<>> /\ ~Conv!isWildcard(c)
    BY SettingsAssumption DEF Conv!SettingsFit
  <2>2. c.labels \in Seq(STRING)
    BY <2>1 DEF Conv!Names
  <2>3. c.labels \in Seq(Words)
    <3>1. STRING \subseteq Words
      BY DEF Words
    <3> QED
      BY <2>2, <3>1, SeqMonotonic
  <2> QED
    BY <2>1, <2>3 DEF Conv!Names, AnyNames
<1> DEFINE m == Conv!TrimDot(c)
           o == Conv!TrimSpace(m)
<1> HIDE DEF m, o
<1>3. c = Spelling(c.labels, c.upper, c.tail) /\ c.labels \in Seq(Words)
  BY <1>2, NameIsSpelling
<1>4. PICK t : m = Spelling(c.labels, c.upper, t)
  BY <1>3, TrimDotKeepsLabels DEF m
<1>5. PICK u : o = Spelling(c.labels, c.upper, u)
  BY <1>4, TrimSpaceKeepsLabels DEF o
<1>6. d = Lower(c.labels, u)
  BY <1>1, <1>5, ToLowerKeepsLabels DEF m, o
<1> QED
  BY <1>2, <1>3, <1>6 DEF Conv!isWildcard

\* A suffix is what remains after the rest.
LEMMA SuffixSplits ==
    ASSUME NEW S, NEW s \in Seq(S), NEW t \in Seq(S), Conv!IsSuffix(s, t)
    PROVE  LET k == Len(t) - Len(s) IN
           /\ k \in 0..Len(t)
           /\ SubSeq(t, 1, k) \in Seq(S) /\ Len(SubSeq(t, 1, k)) = k
           /\ t = SubSeq(t, 1, k) \o s
<1> DEFINE k == Len(t) - Len(s)
           u == SubSeq(t, 1, k)
<1>1. Len(Conv!Reverse(s)) = Len(s) /\ Len(Conv!Reverse(t)) = Len(t)
  BY DEF Conv!Reverse
<1>2. Len(s) \in Nat /\ Len(t) \in Nat /\ Len(s) <= Len(t)
  BY <1>1 DEF Conv!IsSuffix, Conv!IsPrefix
<1>3. k \in 0..Len(t)
  BY <1>2
<1>4. ASSUME NEW i \in 1..Len(s)
      PROVE  Conv!Reverse(s)[i] = Conv!Reverse(t)[i]
  <2>1. SubSeq(Conv!Reverse(s), 1, Len(s)) = SubSeq(Conv!Reverse(t), 1, Len(s))
    BY <1>1 DEF Conv!IsSuffix, Conv!IsPrefix
  <2>2. Conv!Reverse(s) \in Seq(S) /\ Conv!Reverse(t) \in Seq(S)
    BY <1>2 DEF Conv!Reverse
  <2>3. /\ SubSeq(Conv!Reverse(s), 1, Len(s))[i] = Conv!Reverse(s)[i]
        /\ SubSeq(Conv!Reverse(t), 1, Len(s))[i] = Conv!Reverse(t)[i]
    BY <1>1, <1>2, <2>2, SubSeqProperties
  <2> QED
    BY <2>1, <2>3
<1>5. ASSUME NEW j \in 1..Len(s)
      PROVE  s[j] = t[k + j]
  <2> DEFINE i == Len(s) - j + 1
  <2>1. i \in 1..Len(s) /\ i \in 1..Len(t)
    BY <1>2
  <2>2. Conv!Reverse(s)[i] = s[j]
    <3>1. (Len(s) - i) + 1 = j
      BY <1>2
    <3> QED
      BY <2>1, <3>1 DEF Conv!Reverse
  <2>3. Conv!Reverse(t)[i] = t[k + j]
    <3>1. (Len(t) - i) + 1 = k + j
      BY <1>2
    <3> QED
      BY <2>1, <3>1 DEF Conv!Reverse
  <2> QED
    BY <1>4, <2>1, <2>2, <2>3
<1>6. u \in Seq(S) /\ Len(u) = k /\ \A i \in 1..k : u[i] = t[i]
  BY <1>2, <1>3, SubSeqProperties
<1> DEFINE w == u \o s
<1> HIDE DEF u, k
<1>7. /\ w \in Seq(S) /\ Len(w) = Len(t)
      /\ \A i \in 1..Len(t) : w[i] = IF i <= k THEN u[i] ELSE s[i - k]
  <2>1. k + Len(s) = Len(t)
    BY <1>2 DEF k
  <2> QED
    BY <1>6, <2>1, ConcatProperties
<1> HIDE DEF w
<1>8. ASSUME NEW i \in 1..Len(t)
      PROVE  t[i] = w[i]
  <2>1. CASE i <= k
    <3>1. i \in 1..k
      BY <1>2, <1>3, <2>1
    <3> QED
      BY <1>6, <1>7, <2>1, <3>1
  <2>2. CASE ~(i <= k)
    <3>1. i - k \in 1..Len(s) /\ k + (i - k) = i
      BY <1>2, <1>3, <2>2 DEF k
    <3> QED
      BY <1>5, <1>7, <2>2, <3>1
  <2> QED
    BY <2>1, <2>2
<1>9. t = w
  BY <1>7, <1>8, SeqEqual
<1> QED
  BY <1>3, <1>6, <1>9 DEF u, k, w

HasStar(labels) == \E i \in 1..Len(labels) : labels[i] = "*"

\* Some matching domain is the longest: none is longer than the name.
LEMMA LongestMatches ==
    ASSUME NEW labels \in Seq(Words), NEW n, n = Lower(labels, <<>>)
    PROVE  LET matching == {d \in Conv!Domains : Conv!matchesDomain(n, d)}
           IN  matching # {} =>
                  \E d \in matching :
                     \A c \in matching : Len(d.labels) >= Len(c.labels)
<1> DEFINE matching == {d \in Conv!Domains : Conv!matchesDomain(n, d)}
           lengths  == {Len(d.labels) : d \in matching}
<1> SUFFICES ASSUME matching # {}
             PROVE  \E d \in matching :
                       \A c \in matching : Len(d.labels) >= Len(c.labels)
  OBVIOUS
<1>1. Len(labels) \in Nat
  OBVIOUS
<1>2. n.labels = labels
  BY DEF Lower, Spelling
<1>3. ASSUME NEW d \in matching
      PROVE  Len(d.labels) \in 0..Len(labels)
  <2>1. PICK l \in Seq(Words) : \E t : d = Lower(l, t)
    BY DomainsAreNames
  <2>2. d.labels = l
    BY <2>1 DEF Lower, Spelling
  <2>3. Conv!IsSuffix(l, labels)
    BY <1>2, <2>2 DEF Conv!matchesDomain
  <2>4. Len(labels) - Len(l) \in 0..Len(labels) /\ Len(l) \in Nat
    BY <2>3, SuffixSplits
  <2> QED
    BY <1>1, <2>2, <2>4
<1>4. lengths \in SUBSET (0..Len(labels)) /\ lengths # {}
  BY <1>3
<1>5. IsFiniteSet(lengths)
  <2>1. IsFiniteSet(0..Len(labels))
    BY <1>1, FS_Interval
  <2> HIDE DEF lengths
  <2> QED
    BY <1>4, <2>1, FS_Subset
<1>6. lengths \in SUBSET Nat
  <2> HIDE DEF lengths
  <2> QED
    BY <1>1, <1>4
<1>7. Max(lengths) \in lengths /\ \A y \in lengths : Max(lengths) >= y
  <2> HIDE DEF lengths
  <2> QED
    BY <1>4, <1>5, <1>6, MaxIsGreatest
<1> HIDE DEF matching
<1>8. PICK d \in matching : Len(d.labels) = Max(lengths)
  BY <1>7
<1>9. \A c \in matching : Len(d.labels) >= Len(c.labels)
  BY <1>7, <1>8
<1> QED
  BY <1>9

\* The halves of a name that is split, in lower case and without a wildcard.
LEMMA SplitParts ==
    ASSUME NEW labels \in Seq(Words), NEW n, n = Lower(labels, <<>>),
           Conv!splitName(n).err = ""
    PROVE  \E h, d \in Seq(Words) :
              /\ Conv!splitName(n).host = Lower(h, <<>>)
              /\ Conv!splitName(n).domain = Lower(d, <<>>)
              /\ labels = h \o d /\ h # <<>> /\ d # <<>>
              /\ ~HasStar(h) /\ ~HasStar(d)
<1> DEFINE matching == {d \in Conv!Domains : Conv!matchesDomain(n, d)}
           best == CHOOSE d \in matching :
                      \A c \in matching : Len(d.labels) >= Len(c.labels)
           host == [n EXCEPT !.labels =
                       SubSeq(@, 1, Len(@) - Len(best.labels)), !.tail = <<>>]
<1>n. Conv!splitName(n) = Conv!SplitAtDomain(n)
  BY NormalisePlain DEF Conv!splitName, Lower
<1>1. Conv!splitName(n) =
         IF matching = {} THEN [err |-> "domain"]
         ELSE IF n = best THEN [err |-> "apex"]
         ELSE IF Conv!isWildcard(host) THEN [err |-> "wildcard"]
         ELSE [err |-> "", host |-> host, domain |-> best]
  BY <1>n DEF Conv!SplitAtDomain
<1>2. best \in matching \/ matching = {}
  BY LongestMatches
<1> HIDE DEF best, host
<1>3. /\ matching # {} /\ n # best /\ ~Conv!isWildcard(host)
      /\ Conv!splitName(n).host = host /\ Conv!splitName(n).domain = best
  <2> DEFINE s == Conv!splitName(n)
  <2> HIDE DEF s, matching
  <2>1. s.err = ""
    BY DEF s
  <2>2. matching # {} /\ n # best /\ ~Conv!isWildcard(host)
    <3>1. matching = {} => s = [err |-> "domain"]
      BY <1>1 DEF s
    <3>2. matching # {} /\ n = best => s = [err |-> "apex"]
      BY <1>1 DEF s
    <3>3. matching # {} /\ n # best /\ Conv!isWildcard(host) => s = [err |-> "wildcard"]
      BY <1>1 DEF s
    <3>4. ASSUME NEW v, v # "", s = [err |-> v]
          PROVE  FALSE
      BY <2>1, <3>4
    <3> QED
      BY <3>1, <3>2, <3>3, <3>4
  <2>3. s = [err |-> "", host |-> host, domain |-> best]
    BY <1>1, <2>2 DEF s
  <2>4. s.host = host /\ s.domain = best
    BY <2>3
  <2> QED
    BY <2>2, <2>4 DEF s
<1>4. best \in Conv!Domains /\ Conv!matchesDomain(n, best)
  BY <1>2, <1>3
<1>5. n.labels = labels /\ n.tail = <<>>
  BY DEF Lower, Spelling
<1>d. PICK d \in Seq(Words) : \E v : /\ best = Lower(d, v)
                                      /\ d # <<>> /\ ~HasStar(d)
  BY <1>4, DomainsAreNames DEF HasStar
<1>6. PICK t : best = Lower(d, t) /\ d # <<>> /\ ~HasStar(d)
  BY <1>d
<1>7. best.labels = d /\ best.tail = t
  BY <1>6 DEF Lower, Spelling
<1>8. t = <<>> /\ Conv!IsSuffix(d, labels)
  BY <1>4, <1>5, <1>7 DEF Conv!matchesDomain
<1> DEFINE h == SubSeq(labels, 1, Len(labels) - Len(d))
<1>9. h \in Seq(Words) /\ labels = h \o d
  BY <1>8, SuffixSplits
<1> HIDE DEF h
<1>10. host = Lower(h, <<>>)
  <2>1. host = [n EXCEPT !.labels = h, !.tail = <<>>]
    BY <1>5, <1>7 DEF host, h
  <2>2. [n EXCEPT !.labels = h] = Lower(h, <<>>)
    BY LowerRelabelled
  <2>3. ASSUME NEW m, m = Lower(h, <<>>)
        PROVE  [m EXCEPT !.tail = <<>>] = Lower(h, <<>>)
    BY <2>3, LowerRetailed
  <2> QED
    BY <2>1, <2>2, <2>3
<1>11. h # <<>>
  <2> SUFFICES ASSUME h = <<>>
               PROVE  FALSE
    OBVIOUS
  <2>1. labels = d
    BY <1>9, ConcatEmptySeq
  <2> QED
    BY <1>3, <1>6, <1>8, <2>1
<1>12. ~HasStar(h)
  <2>1. host.labels = h
    BY <1>10 DEF Lower, Spelling
  <2> QED
    BY <1>3, <2>1 DEF Conv!isWildcard, HasStar
<1> QED
  BY <1>3, <1>6, <1>8, <1>9, <1>10, <1>11, <1>12

\* joinName undoes splitName.
LEMMA SplitJoins ==
    ASSUME NEW labels \in Seq(Words), NEW n, n = Lower(labels, <<>>),
           Conv!splitName(n).err = ""
    PROVE  Conv!joinName(Conv!splitName(n).host, Conv!splitName(n).domain) = n
<1>1. PICK h \in Seq(Words), d \in Seq(Words) :
         /\ Conv!splitName(n).host = Lower(h, <<>>)
         /\ Conv!splitName(n).domain = Lower(d, <<>>)
         /\ labels = h \o d /\ h # <<>> /\ d # <<>>
  BY SplitParts
<1>2. /\ Conv!normaliseName(Lower(h, <<>>)) = Lower(h, <<>>)
      /\ Conv!normaliseName(Lower(d, <<>>)) = Lower(d, <<>>)
  BY NormalisePlain DEF Lower
<1>3. Lower(h, <<>>).labels = h /\ Lower(d, <<>>).labels = d
  BY DEF Lower, Spelling
<1>4. [Lower(d, <<>>) EXCEPT !.labels = h \o d] = Lower(h \o d, <<>>)
  BY LowerRelabelled
<1>5. Conv!joinName(Lower(h, <<>>), Lower(d, <<>>)) = Lower(h \o d, <<>>)
  BY <1>1, <1>2, <1>3, <1>4 DEF Conv!joinName
<1> QED
  BY <1>1, <1>5

\* A wildcard label is in one of the halves.
LEMMA StarInHalf ==
    ASSUME NEW h \in Seq(Words), NEW d \in Seq(Words), HasStar(h \o d)
    PROVE  HasStar(h) \/ HasStar(d)
<1> DEFINE w == h \o d
<1>1. /\ Len(w) = Len(h) + Len(d) /\ Len(h) \in Nat /\ Len(d) \in Nat
      /\ \A j \in 1..Len(w) :
            w[j] = IF j <= Len(h) THEN h[j] ELSE d[j - Len(h)]
  BY ConcatProperties
<1>2. HasStar(w)
  OBVIOUS
<1> HIDE DEF w
<1>3. PICK i \in 1..Len(w) : w[i] = "*"
  BY <1>2 DEF HasStar
<1>4. CASE i <= Len(h)
  <2>1. i \in 1..Len(h) /\ h[i] = "*"
    BY <1>1, <1>3, <1>4
  <2> QED
    BY <2>1 DEF HasStar
<1>5. CASE ~(i <= Len(h))
  <2>1. i - Len(h) \in 1..Len(d) /\ d[i - Len(h)] = "*"
    BY <1>1, <1>3, <1>5
  <2> QED
    BY <2>1 DEF HasStar
<1> QED
  BY <1>4, <1>5

\* No name with a wildcard label is split.
LEMMA WildcardsRefused ==
    ASSUME NEW labels \in Seq(Words), NEW n, n = Lower(labels, <<>>),
           Conv!isWildcard(n)
    PROVE  Conv!splitName(n).err # ""
<1> SUFFICES ASSUME Conv!splitName(n).err = ""
             PROVE  FALSE
  OBVIOUS
<1>1. PICK h \in Seq(Words), d \in Seq(Words) :
         labels = h \o d /\ ~HasStar(h) /\ ~HasStar(d)
  BY SplitParts
<1>2. n.labels = labels
  BY DEF Lower, Spelling
<1>3. HasStar(labels)
  BY <1>2 DEF Conv!isWildcard, HasStar
<1> QED
  BY <1>1, <1>3, StarInHalf

\* The configured domains are their labels, in lower case.
LEMMA DomainsSpelled ==
    Conv!Domains = {Lower(c.labels, <<>>) : c \in Configured}
<1>1. ASSUME NEW c \in Configured
      PROVE  Conv!ToLower(Conv!TrimSpace(Conv!TrimDot(c))) = Lower(c.labels, <<>>)
  <2> DEFINE m == Conv!TrimDot(c)
             o == Conv!TrimSpace(m)
  <2>1. c \in Conv!Names /\ o.tail = <<>>
    BY SettingsAssumption DEF Conv!SettingsFit
  <2> HIDE DEF m, o
  <2>2. c = Spelling(c.labels, c.upper, c.tail)
    BY <2>1 DEF Conv!Names, Spelling
  <2>3. PICK t : m = Spelling(c.labels, c.upper, t)
    BY <2>2, TrimDotKeepsLabels DEF m
  <2>4. PICK u : o = Spelling(c.labels, c.upper, u)
    BY <2>3, TrimSpaceKeepsLabels DEF o
  <2>5. Spelling(c.labels, c.upper, u).tail = u
    BY DEF Spelling
  <2>6. o = Spelling(c.labels, c.upper, <<>>)
    BY <2>1, <2>4, <2>5
  <2> QED
    BY <2>6, ToLowerKeepsLabels DEF m, o
<1> QED
  BY <1>1 DEF Conv!Domains

LEMMA SuffixOfItself ==
    ASSUME NEW s
    PROVE  Conv!IsSuffix(s, s)
BY DEF Conv!IsSuffix, Conv!IsPrefix

\* splitName takes exactly the names below a configured domain.
LEMMA SplitIsUnder ==
    ASSUME NEW labels \in Seq(Words), NEW n, n = Lower(labels, <<>>)
    PROVE  Conv!splitName(n).err = "" <=> Conv!Under(n)
<1> DEFINE matching == {d \in Conv!Domains : Conv!matchesDomain(n, d)}
           best == CHOOSE d \in matching :
                      \A c \in matching : Len(d.labels) >= Len(c.labels)
           host == [n EXCEPT !.labels =
                       SubSeq(@, 1, Len(@) - Len(best.labels)), !.tail = <<>>]
<1>n. Conv!splitName(n) = Conv!SplitAtDomain(n)
  BY NormalisePlain DEF Conv!splitName, Lower
<1>1. Conv!splitName(n) =
         IF matching = {} THEN [err |-> "domain"]
         ELSE IF n = best THEN [err |-> "apex"]
         ELSE IF Conv!isWildcard(host) THEN [err |-> "wildcard"]
         ELSE [err |-> "", host |-> host, domain |-> best]
  BY <1>n DEF Conv!SplitAtDomain
<1> DEFINE s == Conv!splitName(n)
<1>2. n.labels = labels /\ n.tail = <<>>
  BY DEF Lower, Spelling
<1>3. \A l : Lower(l, <<>>).labels = l /\ Lower(l, <<>>).tail = <<>>
  BY DEF Lower, Spelling
<1>4. \A c \in Configured :
         Lower(c.labels, <<>>) \in matching <=> Conv!IsSuffix(c.labels, labels)
  BY <1>2, <1>3, DomainsSpelled DEF Conv!matchesDomain
<1>5. ASSUME matching # {}
      PROVE  /\ best \in matching
             /\ \A c \in matching : Len(best.labels) >= Len(c.labels)
  BY <1>5, LongestMatches
<1>6. \A d \in matching : \E c \in Configured : d = Lower(c.labels, <<>>)
  BY DomainsSpelled
<1>7. matching # {} <=> \E c \in Configured : Conv!IsSuffix(c.labels, labels)
  BY <1>4, <1>6
<1> HIDE DEF matching, best, host, s
<1>8. s.err = "" <=> matching # {} /\ n # best /\ ~Conv!isWildcard(host)
  <2>1. ASSUME NEW v, v # "", s = [err |-> v]
        PROVE  s.err # ""
    BY <2>1
  <2>2. ASSUME s = [err |-> "", host |-> host, domain |-> best]
        PROVE  s.err = ""
    BY <2>2
  <2> QED
    BY <1>1, <2>1, <2>2 DEF s
<1>9. ASSUME s.err = ""
      PROVE  Conv!Under(n)
  <2>1. matching # {} /\ n # best
    BY <1>8, <1>9
  <2>2. ASSUME NEW c \in Configured, c.labels = labels
        PROVE  FALSE
    <3>1. n \in matching
      BY <1>4, <2>2, SuffixOfItself
    <3>2. PICK d \in Configured : best = Lower(d.labels, <<>>)
      BY <1>5, <1>6, <2>1
    <3>3. d.labels \in Seq(Words) /\ Conv!IsSuffix(d.labels, labels)
      <4>1. \E l \in Seq(Words) : \E t : best = Lower(l, t)
        BY <1>5, <2>1, DomainsAreNames DEF matching
      <4>2. PICK l \in Seq(Words) : \E t : best = Lower(l, t)
        BY <4>1
      <4>3. best.labels = l
        BY <4>2 DEF Lower, Spelling
      <4> QED
        BY <1>3, <1>4, <1>5, <2>1, <3>2, <4>3
    <3>4. Len(d.labels) >= Len(labels)
      BY <1>2, <1>3, <1>5, <2>1, <3>1, <3>2
    <3>5. d.labels = labels
      <4> DEFINE k == Len(labels) - Len(d.labels)
                 u == SubSeq(labels, 1, k)
      <4>1. /\ k \in 0..Len(labels) /\ u \in Seq(Words) /\ Len(u) = k
            /\ labels = u \o d.labels
        BY <3>3, SuffixSplits
      <4>2. Len(d.labels) \in Nat /\ Len(labels) \in Nat
        BY <3>3
      <4> HIDE DEF u
      <4>3. k = 0
        BY <3>4, <4>1, <4>2
      <4>4. u = <<>>
        BY <4>1, <4>3, EmptySeq
      <4> QED
        BY <3>3, <4>1, <4>4, ConcatEmptySeq
    <3> QED
      BY <2>1, <3>2, <3>5
  <2>3. ~Conv!isWildcard(n)
    BY <1>9, WildcardsRefused DEF s
  <2> QED
    BY <1>2, <1>7, <2>1, <2>2, <2>3 DEF Conv!Under
<1>10. ASSUME Conv!Under(n)
       PROVE  s.err = ""
  <2>1. matching # {} /\ ~Conv!isWildcard(n)
    BY <1>2, <1>7, <1>10 DEF Conv!Under
  <2>2. PICK d \in Configured : best = Lower(d.labels, <<>>)
    BY <1>5, <1>6, <2>1
  <2>3. n # best
    BY <1>2, <1>3, <1>10, <2>2 DEF Conv!Under
  <2>4. best.labels = d.labels /\ Conv!IsSuffix(d.labels, labels)
    BY <1>3, <1>4, <1>5, <2>1, <2>2
  <2>5. d.labels \in Seq(Words)
    <3>1. \E l \in Seq(Words) : \E t : best = Lower(l, t)
      BY <1>5, <2>1, DomainsAreNames DEF matching
    <3>2. PICK l \in Seq(Words) : \E t : best = Lower(l, t)
      BY <3>1
    <3>3. best.labels = l
      BY <3>2 DEF Lower, Spelling
    <3> QED
      BY <2>4, <3>3
  <2> DEFINE h == SubSeq(labels, 1, Len(labels) - Len(d.labels))
  <2>6. h \in Seq(Words) /\ labels = h \o d.labels
    BY <2>4, <2>5, SuffixSplits
  <2>7. host.labels = h
    <3>1. host = [n EXCEPT !.labels = h, !.tail = <<>>]
      BY <1>2, <2>4 DEF host
    <3> HIDE DEF h
    <3>2. n = Spelling(labels, FALSE, <<>>)
      BY DEF Lower
    <3> QED
      BY <3>1, <3>2 DEF Spelling
  <2> HIDE DEF h
  <2>8. ~HasStar(h)
    <3>1. ASSUME NEW i \in 1..Len(h), h[i] = "*"
          PROVE  FALSE
      <4>1. i \in 1..Len(labels) /\ labels[i] = "*"
        BY <2>5, <2>6, <3>1, ConcatProperties
      <4> QED
        BY <1>2, <2>1, <4>1 DEF Conv!isWildcard
    <3> QED
      BY <3>1 DEF HasStar
  <2>9. ~Conv!isWildcard(host)
    BY <2>7, <2>8 DEF Conv!isWildcard, HasStar
  <2> QED
    BY <1>8, <2>1, <2>3, <2>9
<1> QED
  BY <1>9, <1>10 DEF s

-----------------------------------------------------------------------------
(* What AdjustEndpoints keeps, and how it is read back                     *)

Texts == [quotes : Nat, body : Words]
EndpointShapes ==
    [name : AnyNames, rr : Words, targets : SUBSET Texts, ttl : Int,
     setIdentifier : BOOLEAN]

KeyOf(x) == <<Conv!normaliseName(x.name), x.rr>>

\* An endpoint with a name that normalising leaves nothing behind.
Tidy(x) == x \in EndpointShapes /\ Conv!normaliseName(x.name).tail = <<>>

LEMMA TidyName ==
    ASSUME NEW x, Tidy(x)
    PROVE  \E labels \in Seq(Words) :
              Conv!normaliseName(x.name) = Lower(labels, <<>>)
<1>1. x.name \in AnyNames
  BY DEF Tidy, EndpointShapes
<1>2. PICK t : Conv!normaliseName(x.name) = Lower(x.name.labels, t)
  BY <1>1, NormaliseKeepsLabels
<1>3. x.name.labels \in Seq(Words)
  BY <1>1, NameIsSpelling
<1>4. Lower(x.name.labels, t).tail = t
  BY DEF Lower, Spelling
<1> QED
  BY <1>2, <1>3, <1>4 DEF Tidy

LEMMA Adjusted ==
    ASSUME NEW x \in EndpointShapes
    PROVE  /\ Conv!AdjustEndpoint(x).name = Conv!normaliseName(x.name)
           /\ Conv!AdjustEndpoint(x).rr = x.rr
           /\ Conv!AdjustEndpoint(x).ttl = Conv!clampTTL(x.ttl)
BY DEF Conv!AdjustEndpoint, EndpointShapes

\* What is not dropped can be written.
LEMMA KeptIsWritable ==
    ASSUME NEW x, Tidy(x), ~Conv!Dropped(x)
    PROVE  /\ x.rr \in {"A", "AAAA", "TXT"}
           /\ Conv!splitName(Conv!normaliseName(x.name)).err = ""
           /\ x.rr = "TXT" => \A t \in x.targets : Conv!validTXT(t)
BY DEF Conv!Dropped, Conv!dropReason, Conv!SupportedTypes

LEMMA TTLsRoundTrip ==
    ASSUME NEW ttl \in Int
    PROVE  /\ Conv!clampTTL(ttl) \in Nat
           /\ Conv!parseTTL(Conv!ttlField(Conv!clampTTL(ttl))) = Conv!clampTTL(ttl)
<1>1. MaxTTL \in Nat
  BY SettingsAssumption DEF Conv!SettingsFit
<1>2. Conv!clampTTL(ttl) \in Nat
  BY <1>1 DEF Conv!clampTTL
<1> DEFINE c == Conv!clampTTL(ttl)
<1> HIDE DEF c
<1>3. c \in Nat
  BY <1>2 DEF c
<1>4. Conv!parseTTL(Conv!ttlField(c)) = c
  BY <1>3 DEF Conv!parseTTL, Conv!ttlField
<1> QED
  BY <1>3, <1>4 DEF c

LEMMA TargetsRoundTrip ==
    ASSUME NEW t \in Texts, Conv!validTXT(t)
    PROVE  Conv!restoreTXTQuotes(Conv!bareTXT(t)) = t
<1>1. t = [quotes |-> t.quotes, body |-> t.body] /\ t.quotes = 1
  BY DEF Texts, Conv!validTXT
<1>2. Conv!bareTXT(t) = [quotes |-> 0, body |-> t.body]
  BY <1>1 DEF Conv!bareTXT
<1> DEFINE b == Conv!bareTXT(t)
<1> HIDE DEF b
<1>3. b = [quotes |-> 0, body |-> t.body]
  BY <1>2 DEF b
<1>4. [b EXCEPT !.quotes = 1] = [quotes |-> 1, body |-> t.body]
  BY <1>3
<1>5. ~(b.quotes >= 1)
  BY <1>3
<1>6. Conv!restoreTXTQuotes(b) = [quotes |-> 1, body |-> t.body]
  BY <1>4, <1>5 DEF Conv!restoreTXTQuotes
<1> QED
  BY <1>1, <1>6 DEF b

\* The row written for a target is read as that target of that record set,
\* with the adjusted ttl.
LEMMA WrittenRow ==
    ASSUME NEW x, Tidy(x), ~Conv!Dropped(x), NEW t \in x.targets
    PROVE  LET r == Conv!fields(Conv!AdjustEndpoint(x), t) IN
           /\ RowFits(r)
           /\ Conv!Keys(r) = {KeyOf(x)}
           /\ Conv!TargetOf(r) = t
           /\ Conv!parseTTL(r.ttl) = Conv!clampTTL(x.ttl)
<1> DEFINE n == Conv!normaliseName(x.name)
           a == Conv!AdjustEndpoint(x)
           r == Conv!fields(a, t)
<1>1. x \in EndpointShapes /\ t \in Texts /\ x.ttl \in Int
  BY DEF Tidy, EndpointShapes
<1>2. a.name = n /\ a.rr = x.rr /\ a.ttl = Conv!clampTTL(x.ttl)
  BY <1>1, Adjusted
<1> HIDE DEF a
<1>3. /\ r.host = Conv!splitName(n).host /\ r.domain = Conv!splitName(n).domain
      /\ r.rr = x.rr /\ r.ttl = Conv!ttlField(Conv!clampTTL(x.ttl))
      /\ r.enabled = TRUE /\ r.isAlias = FALSE /\ r.children = <<>>
      /\ r.target = IF x.rr = "TXT" THEN Conv!bareTXT(t) ELSE t
  BY <1>2 DEF Conv!fields
<1> HIDE DEF r
<1>4. /\ x.rr \in {"A", "AAAA", "TXT"} /\ Conv!splitName(n).err = ""
      /\ x.rr = "TXT" => Conv!validTXT(t)
  BY KeptIsWritable
<1>5. Conv!joinName(r.host, r.domain) = n
  <2>1. PICK labels \in Seq(Words) : n = Lower(labels, <<>>)
    BY TidyName
  <2> HIDE DEF n
  <2> QED
    BY <1>3, <1>4, <2>1, SplitJoins
<1>6. Conv!Read(r)
  BY <1>3, <1>4 DEF Conv!Read, Conv!ReadTypes
<1>7. Conv!Shown(r) = {}
  <2>1. Len(r.children) = 0
    BY <1>3, EmptySeq
  <2> QED
    BY <2>1 DEF Conv!Shown
<1>8. Conv!Keys(r) = {KeyOf(x)}
  BY <1>3, <1>5, <1>6, <1>7 DEF Conv!Keys, Conv!OwnKey, KeyOf
<1>9. Conv!TargetOf(r) = t
  BY <1>1, <1>3, <1>4, TargetsRoundTrip DEF Conv!TargetOf
<1>10. Conv!parseTTL(r.ttl) = Conv!clampTTL(x.ttl) /\ Conv!clampTTL(x.ttl) \in Nat
  BY <1>1, <1>3, TTLsRoundTrip
<1>11. RowFits(r)
  <2>1. Len(r.children) \in Nat
    BY <1>3, EmptySeq
  <2> QED
    BY <1>6, <1>10, <2>1 DEF RowFits
<1> QED
  BY <1>8, <1>9, <1>10, <1>11 DEF r, a

\* An endpoint whose rows are exactly those written for it is read back as it
\* was adjusted, whatever else the table holds and in whatever order.
THEOREM WrittenIsReadBack ==
    ASSUME NEW x, Tidy(x), ~Conv!Dropped(x), x.targets # {},
           NEW rs, Len(rs) \in Nat, \A i \in 1..Len(rs) : RowFits(rs[i]),
           {rs[i] : i \in Conv!RowsOf(rs, KeyOf(x))} =
              {Conv!fields(Conv!AdjustEndpoint(x), t) : t \in x.targets}
    PROVE  LET g == Conv!GroupsOf(rs)[KeyOf(x)] IN
           g.targets = x.targets /\ g.ttl = Conv!clampTTL(x.ttl) /\ ~g.differs
<1> DEFINE k == KeyOf(x)
           c == Conv!clampTTL(x.ttl)
           Row(t) == Conv!fields(Conv!AdjustEndpoint(x), t)
           Is == Conv!RowsOf(rs, k)
<1>1. \A t \in x.targets : /\ Conv!TargetOf(Row(t)) = t
                           /\ Conv!parseTTL(Row(t).ttl) = c
  BY WrittenRow
<1> HIDE DEF Row, k, c, Is
<1>2. {rs[i] : i \in Is} = {Row(t) : t \in x.targets}
  BY DEF Row, Is, k
<1>3. \A i \in Is : \E t \in x.targets : rs[i] = Row(t)
  BY <1>2
<1>4. \A t \in x.targets : \E i \in Is : rs[i] = Row(t)
  BY <1>2
<1>5. {Conv!TargetOf(rs[i]) : i \in Is} = x.targets
  <2>1. \A i \in Is : Conv!TargetOf(rs[i]) \in x.targets
    BY <1>1, <1>3
  <2>2. \A t \in x.targets : \E i \in Is : Conv!TargetOf(rs[i]) = t
    BY <1>1, <1>4
  <2> QED
    BY <2>1, <2>2
<1>6. Conv!TTLsOf(rs, k) = {c}
  <2>1. Conv!TTLsOf(rs, k) = {Conv!parseTTL(rs[i].ttl) : i \in Is}
    BY DEF Conv!TTLsOf, Is
  <2>2. \A i \in Is : Conv!parseTTL(rs[i].ttl) = c
    BY <1>1, <1>3
  <2>3. \E i \in Is : TRUE
    BY <1>4
  <2> QED
    BY <2>1, <2>2, <2>3
<1>7. c \in Nat
  <2>1. x.ttl \in Int
    BY DEF Tidy, EndpointShapes
  <2> QED
    BY <2>1, TTLsRoundTrip DEF c
<1>8. Conv!Grouped(rs)
  BY GroupsAreOrderFree
<1>9. k \in DOMAIN Conv!GroupsOf(rs)
  <2>1. PICK i \in Is : TRUE
    BY <1>4
  <2>2. i \in 1..Len(rs) /\ k \in Conv!Keys(rs[i])
    BY <2>1 DEF Is, Conv!RowsOf
  <2> QED
    BY <1>8, <2>2 DEF Conv!Grouped
<1> DEFINE g == Conv!GroupsOf(rs)[k]
<1>10. /\ g.targets = {Conv!TargetOf(rs[i]) : i \in Is}
       /\ g.ttl = IF Conv!TTLsOf(rs, k) = {0} THEN 0
                  ELSE Conv!Min(Conv!TTLsOf(rs, k) \ {0})
       /\ g.differs <=> \E s, t \in Conv!TTLsOf(rs, k) : s # t
  BY <1>8, <1>9 DEF Conv!Grouped, Is
<1> HIDE DEF g
<1>11. g.targets = x.targets
  BY <1>5, <1>10
<1>12. ~g.differs
  BY <1>6, <1>10
<1>13. g.ttl = c
  <2>1. CASE c = 0
    BY <1>6, <1>10, <2>1
  <2>2. CASE c # 0
    <3>1. {c} # {0} /\ {c} \ {0} = {c}
      BY <2>2
    <3>2. Conv!Min({c}) = c
      BY <1>7 DEF Conv!Min
    <3> QED
      BY <1>6, <1>10, <3>1, <3>2
  <2> QED
    BY <2>1, <2>2
<1> QED
  BY <1>11, <1>12, <1>13 DEF g, k, c

-----------------------------------------------------------------------------
(* The behaviours of MCFunctions                                           *)

Contents(rs) == {rs[i] : i \in 1..Len(rs)}

LEMMA ContentsOfConcat ==
    ASSUME NEW S, NEW s \in Seq(S), NEW t \in Seq(S)
    PROVE  Contents(s \o t) = Contents(s) \cup Contents(t)
<1> DEFINE w == s \o t
<1>1. /\ Len(w) = Len(s) + Len(t) /\ Len(s) \in Nat /\ Len(t) \in Nat
      /\ \A j \in 1..Len(w) :
            w[j] = IF j <= Len(s) THEN s[j] ELSE t[j - Len(s)]
  BY ConcatProperties
<1> HIDE DEF w
<1>2. ASSUME NEW j \in 1..Len(w)
      PROVE  w[j] \in Contents(s) \cup Contents(t)
  <2>1. CASE j <= Len(s)
    <3>1. j \in 1..Len(s) /\ w[j] = s[j]
      BY <1>1, <2>1
    <3> QED
      BY <3>1 DEF Contents
  <2>2. CASE ~(j <= Len(s))
    <3>1. j - Len(s) \in 1..Len(t) /\ w[j] = t[j - Len(s)]
      BY <1>1, <2>2
    <3> QED
      BY <3>1 DEF Contents
  <2> QED
    BY <2>1, <2>2
<1>3. ASSUME NEW j \in 1..Len(s)
      PROVE  s[j] \in Contents(w)
  <2>1. j \in 1..Len(w) /\ w[j] = s[j]
    BY <1>1
  <2> QED
    BY <2>1 DEF Contents
<1>4. ASSUME NEW j \in 1..Len(t)
      PROVE  t[j] \in Contents(w)
  <2>1. /\ j + Len(s) \in 1..Len(w) /\ ~(j + Len(s) <= Len(s))
        /\ (j + Len(s)) - Len(s) = j
    BY <1>1
  <2>2. w[j + Len(s)] = t[j]
    BY <1>1, <2>1
  <2> QED
    BY <2>1, <2>2 DEF Contents
<1>5. Contents(w) = Contents(s) \cup Contents(t)
  BY <1>2, <1>3, <1>4 DEF Contents
<1> QED
  BY <1>5 DEF w

LEMMA ContentsOfInsert ==
    ASSUME NEW S, NEW s \in Seq(S), NEW r \in S, NEW at \in 0..Len(s)
    PROVE  /\ Conv!InsertAt(s, at + 1, r) \in Seq(S)
           /\ Contents(Conv!InsertAt(s, at + 1, r)) = Contents(s) \cup {r}
<1> DEFINE u == SubSeq(s, 1, at)
           v == SubSeq(s, at + 1, Len(s))
           m == <<r>>
<1>1. (at + 1) - 1 = at /\ Len(s) \in Nat
  OBVIOUS
<1>2. Conv!InsertAt(s, at + 1, r) = (u \o m) \o v
  BY <1>1 DEF Conv!InsertAt
<1>3. u \in Seq(S) /\ v \in Seq(S) /\ m \in Seq(S)
  <2>1. \A i \in 1..at : s[i] \in S
    BY <1>1
  <2>2. \A i \in (at + 1)..Len(s) : s[i] \in S
    BY <1>1
  <2>3. u \in Seq(S)
    BY <2>1, SubSeqProperties
  <2>4. v \in Seq(S)
    BY <1>1, <2>2, SubSeqProperties
  <2> QED
    BY <2>3, <2>4
<1>4. u \o v = s
  <2>1. /\ 1 \in 1..Len(s) + 1 /\ at \in (1 - 1)..Len(s) /\ Len(s) \in at..Len(s)
    BY <1>1
  <2>2. u \o v = SubSeq(s, 1, Len(s))
    BY <2>1, ConcatAdjacentSubSeq
  <2> QED
    BY <2>2, SubSeqFull
<1>5. Contents(m) = {r}
  BY DEF Contents
<1> HIDE DEF u, v, m
<1>6. u \o m \in Seq(S) /\ (u \o m) \o v \in Seq(S)
  BY <1>3, ConcatProperties
<1>7. Contents(u \o m) = Contents(u) \cup Contents(m)
  BY <1>3, ContentsOfConcat
<1>8. Contents((u \o m) \o v) = Contents(u \o m) \cup Contents(v)
  BY <1>3, <1>6, ContentsOfConcat
<1>9. Contents(s) = Contents(u) \cup Contents(v)
  BY <1>3, <1>4, ContentsOfConcat
<1>10. Contents((u \o m) \o v) = Contents(s) \cup {r}
  BY <1>5, <1>7, <1>8, <1>9
<1> QED
  BY <1>2, <1>6, <1>10

\* The rows of a table that some behaviour reaches.
TableRows ==
    Conv!Others \cup Conv!Various \cup
    UNION {{Conv!fields(Conv!AdjustEndpoint(x), t) : t \in x.targets} :
              x \in {y \in Conv!EndpointsIn : ~Conv!Dropped(y)}}

\* The endpoint, the table, and which rows the endpoint is responsible for:
\* those of the targets written so far.
TableInv ==
    /\ \/ e = Conv!NoEndpoint /\ left = {}
       \/ /\ e \in Conv!EndpointsIn /\ left \subseteq e.targets
          /\ Conv!Dropped(e) => left = {}
    /\ rows \in Seq(TableRows)
    /\ e # Conv!NoEndpoint /\ ~Conv!Dropped(e) =>
          {r \in Contents(rows) : KeyOf(e) \in Conv!Keys(r)} =
             {Conv!fields(Conv!AdjustEndpoint(e), t) : t \in e.targets \ left}

LEMMA FirstOfSeq ==
    ASSUME NEW S, NEW s \in Seq(S), Len(s) = 2
    PROVE  SubSeq(s, 1, 1) = <<s[1]>>
<1> DEFINE u == SubSeq(s, 1, 1)
           v == <<s[1]>>
<1>1. s[1] \in S
  OBVIOUS
<1>2. u \in Seq(S) /\ Len(u) = 1 /\ u[1] = s[1]
  <2>1. \A i \in 1..1 : s[i] \in S
    BY <1>1
  <2>2. /\ u \in Seq(S) /\ Len(u) = IF 1 <= 1 THEN 1 - 1 + 1 ELSE 0
        /\ \A i \in 1..(1 - 1 + 1) : u[i] = s[1 + i - 1]
    BY <2>1, SubSeqProperties
  <2> HIDE DEF u
  <2> QED
    BY <2>2
<1>3. v \in Seq(S) /\ Len(v) = 1 /\ v[1] = s[1]
  BY <1>1
<1> HIDE DEF u, v
<1>4. u = v
  BY <1>2, <1>3, SeqEqual
<1> QED
  BY <1>4 DEF u, v

LEMMA NamesAreTidy ==
    ASSUME NEW n \in Conv!NamesIn
    PROVE  n \in AnyNames /\ Conv!normaliseName(n).tail = <<>>
<1>1. ASSUME NEW l \in Seq(Words), n = Conv!Plain(l)
      PROVE  n \in AnyNames /\ Conv!normaliseName(n).tail = <<>>
  <2>1. n = [labels |-> l, upper |-> FALSE, tail |-> <<>>]
    BY <1>1 DEF Conv!Plain, Conv!Spelled
  <2>2. n \in AnyNames
    BY <2>1, EmptySeq DEF AnyNames
  <2>3. Conv!normaliseName(n) = Lower(l, <<>>)
    BY <2>1, NormalisePlain DEF Spelling
  <2>4. Lower(l, <<>>).tail = <<>>
    BY DEF Lower, Spelling
  <2> QED
    BY <2>2, <2>3, <2>4
<1>2. CASE n = Conv!Spelled(<<"a", "sub", "ex">>, TRUE, <<".", " ">>)
  <2> DEFINE l == <<"a", "sub", "ex">>
             t == <<".", " ">>
             kept == {k \in 0..Len(t) : k = 0 \/ t[k] # " "}
  <2>1. l \in Seq(Words) /\ t \in Seq({".", " "}) /\ Len(t) = 2
    BY DEF Words
  <2>2. n = Spelling(l, TRUE, t) /\ n.tail = t
    BY <1>2 DEF Conv!Spelled, Spelling
  <2>3. n \in AnyNames
    BY <1>2, <2>1 DEF AnyNames, Conv!Spelled
  <2>4. kept = {0, 1}
    <3>1. 0..Len(t) = {0, 1, 2}
      BY <2>1
    <3>2. t[1] # " " /\ t[2] = " "
      OBVIOUS
    <3> QED
      BY <3>1, <3>2
  <2>5. Conv!Max({0, 1}) = 1
    BY DEF Conv!Max
  <2>6. SubSeq(t, 1, 1) = <<".">>
    <3>1. t[1] = "."
      OBVIOUS
    <3> HIDE DEF t
    <3> QED
      BY <2>1, <3>1, FirstOfSeq
  <2> HIDE DEF l, t, kept
  <2>7. Conv!TrimSpace(n) = [n EXCEPT !.tail = <<".">>]
    <3>1. Conv!TrimSpace(n) = [n EXCEPT !.tail = SubSeq(n.tail, 1, Conv!Max(kept))]
      BY <2>2 DEF Conv!TrimSpace, kept
    <3>2. SubSeq(n.tail, 1, Conv!Max(kept)) = <<".">>
      BY <2>2, <2>4, <2>5, <2>6
    <3> QED
      BY <3>1, <3>2
  <2> DEFINE m == Conv!TrimSpace(n)
  <2>8. \A u : [n EXCEPT !.tail = u].tail = u
    BY <2>2 DEF Spelling
  <2>9. m.tail = <<".">>
    BY <2>7, <2>8
  <2>10. PICK u : m = Spelling(l, TRUE, u)
    BY <2>2, TrimSpaceKeepsLabels
  <2> HIDE DEF m
  <2>11. Conv!Last(<<".">>) = "." /\ Conv!Front(<<".">>) = <<>> /\ <<".">> # <<>>
    BY SubSeqEmpty DEF Conv!Last, Conv!Front
  <2>12. Conv!TrimDot(m) = [m EXCEPT !.tail = <<>>]
    BY <2>9, <2>11 DEF Conv!TrimDot
  <2>13. ASSUME NEW v
         PROVE  [m EXCEPT !.tail = v] = Spelling(l, TRUE, v)
    <3>1. ASSUME NEW up, m = Spelling(l, up, u)
          PROVE  [m EXCEPT !.tail = v] = Spelling(l, up, v)
      BY <3>1 DEF Spelling
    <3> QED
      BY <2>10, <3>1
  <2>14. Conv!TrimDot(m) = Spelling(l, TRUE, <<>>)
    BY <2>12, <2>13
  <2>15. Conv!normaliseName(n) = Lower(l, <<>>)
    BY <2>14, ToLowerKeepsLabels DEF Conv!normaliseName, m
  <2>16. Lower(l, <<>>).tail = <<>>
    BY DEF Lower, Spelling
  <2> QED
    BY <2>3, <2>15, <2>16
<1>3. <<"a", "ex">> \in Seq(Words) /\ <<"a", "sub", "ex">> \in Seq(Words)
      /\ <<"ex">> \in Seq(Words) /\ <<"sub", "ex">> \in Seq(Words)
      /\ <<"*", "ex">> \in Seq(Words) /\ <<"a", "other">> \in Seq(Words)
  BY DEF Words
<1> QED
  BY <1>1, <1>2, <1>3 DEF Conv!NamesIn

LEMMA EndpointsAreTidy ==
    ASSUME NEW x \in Conv!EndpointsIn
    PROVE  Tidy(x) /\ x.targets # {} /\ x # Conv!NoEndpoint
<1>1. PICK rr \in {"A", "TXT", "CNAME"} :
         x \in [name : Conv!NamesIn, rr : {rr}, targets : Conv!TargetsIn(rr),
                ttl : {-1, 0, 1, MaxTTL + 1}, setIdentifier : BOOLEAN]
  BY DEF Conv!EndpointsIn
<1>2. /\ x.name \in Conv!NamesIn /\ x.rr = rr /\ x.targets \in Conv!TargetsIn(rr)
      /\ x.ttl \in {-1, 0, 1, MaxTTL + 1} /\ x.setIdentifier \in BOOLEAN
      /\ x = [name |-> x.name, rr |-> x.rr, targets |-> x.targets, ttl |-> x.ttl,
              setIdentifier |-> x.setIdentifier]
  BY <1>1
<1>3. x.name \in AnyNames /\ Conv!normaliseName(x.name).tail = <<>>
  BY <1>2, NamesAreTidy
<1>4. x.ttl \in Int
  BY <1>2, SettingsAssumption DEF Conv!SettingsFit
<1>5. x.targets \in SUBSET Texts /\ x.targets # {}
  <2>1. \A q \in {0, 1, 2}, b \in {"x", "y", "long"} : Conv!Text(q, b) \in Texts
    BY DEF Conv!Text, Texts, Words
  <2> QED
    BY <1>2, <2>1 DEF Conv!TargetsIn
<1>6. x.rr \in Words
  BY <1>2 DEF Words
<1>7. x \in EndpointShapes
  BY <1>2, <1>3, <1>4, <1>5, <1>6 DEF EndpointShapes
<1>8. Conv!NoEndpoint.targets = {}
  BY DEF Conv!NoEndpoint
<1> QED
  BY <1>3, <1>5, <1>7, <1>8 DEF Tidy

LEMMA TableRowsFit ==
    ASSUME NEW r \in TableRows
    PROVE  RowFits(r)
<1>1. Conv!Read(r) \in BOOLEAN
  BY DEF Conv!Read
<1>2. CASE r \in Conv!Others
  <2>1. PICK ttl \in {<<>>, <<2>>}, kids \in Conv!Aliases :
           r.ttl = ttl /\ r.children = kids
    BY <1>2 DEF Conv!Others
  <2>2. Conv!parseTTL(r.ttl) \in Nat
    BY <2>1 DEF Conv!parseTTL
  <2>3. Len(r.children) \in Nat
    BY <2>1 DEF Conv!Aliases
  <2> QED
    BY <1>1, <2>2, <2>3 DEF RowFits
<1>3. CASE r \in Conv!Various
  <2>1. /\ r.ttl \in {<<>>, <<0>>, <<-1>>, <<1>>, <<2>>, <<3>>}
        /\ Len(r.children) \in Nat
    BY <1>3 DEF Conv!Various
  <2>2. Conv!parseTTL(r.ttl) \in Nat
    BY <2>1 DEF Conv!parseTTL
  <2> QED
    BY <1>1, <2>1, <2>2 DEF RowFits
<1>4. CASE ~(r \in Conv!Others \/ r \in Conv!Various)
  <2>1. PICK x \in Conv!EndpointsIn :
           /\ ~Conv!Dropped(x)
           /\ \E t \in x.targets : r = Conv!fields(Conv!AdjustEndpoint(x), t)
    BY <1>4 DEF TableRows
  <2> QED
    BY <2>1, EndpointsAreTidy, WrittenRow
<1> QED
  BY <1>2, <1>3, <1>4

LEMMA TableFits ==
    ASSUME NEW rs \in Seq(TableRows)
    PROVE  Len(rs) \in Nat /\ \A i \in 1..Len(rs) : RowFits(rs[i])
<1>1. Len(rs) \in Nat /\ \A i \in 1..Len(rs) : rs[i] \in TableRows
  OBVIOUS
<1> QED
  BY <1>1, TableRowsFit

LEMMA RowsOfKey ==
    ASSUME NEW rs, NEW k
    PROVE  {rs[i] : i \in Conv!RowsOf(rs, k)} =
              {r \in Contents(rs) : k \in Conv!Keys(r)}
BY DEF Conv!RowsOf, Contents

LEMMA TableStart == Init => TableInv
<1> SUFFICES ASSUME Init
             PROVE  TableInv
  OBVIOUS
<1>1. CASE Conv!ReadInit
  <2>1. rows \in Seq(TableRows)
    BY <1>1, EmptySeq DEF Conv!ReadInit
  <2> QED
    BY <1>1, <2>1 DEF Conv!ReadInit, TableInv
<1>2. CASE Conv!WriteInit
  <2>1. /\ e \in Conv!EndpointsIn
        /\ rows \in {<<>>} \cup {<<r>> : r \in Conv!Others}
        /\ ~Conv!InOthers(rows, KeyOf(e))
        /\ left = IF Conv!Dropped(e) THEN {} ELSE e.targets
    BY <1>2 DEF Conv!WriteInit, Conv!Key, KeyOf
  <2>2. rows \in Seq(TableRows)
    <3>1. ASSUME NEW r \in Conv!Others
          PROVE  <<r>> \in Seq(TableRows)
      <4>1. r \in TableRows
        BY DEF TableRows
      <4> QED
        BY <4>1
    <3>2. <<>> \in Seq(TableRows)
      BY EmptySeq
    <3> QED
      BY <2>1, <3>1, <3>2
  <2>3. {r \in Contents(rows) : KeyOf(e) \in Conv!Keys(r)} = {}
    BY <2>1 DEF Conv!InOthers, Contents
  <2>4. ~Conv!Dropped(e) => e.targets \ left = {}
    BY <2>1
  <2>5. ~Conv!Dropped(e) =>
           {Conv!fields(Conv!AdjustEndpoint(e), t) : t \in e.targets \ left} = {}
    BY <2>4
  <2> QED
    BY <2>1, <2>2, <2>3, <2>5 DEF TableInv
<1> QED
  BY <1>1, <1>2 DEF Init, Conv!ConvertInit, NoRows

LEMMA TableKept == TableInv /\ [Next]_vars => TableInv'
<1> SUFFICES ASSUME TableInv, [Next]_vars
             PROVE  TableInv'
  OBVIOUS
<1>1. CASE UNCHANGED <<e, rows, left>>
  BY <1>1 DEF TableInv, KeyOf
<1>2. CASE Conv!AnyRow
  <2>1. PICK r \in Conv!Various : rows' = Append(rows, r)
    BY <1>2 DEF Conv!AnyRow
  <2>2. e = Conv!NoEndpoint /\ e' = e /\ left' = left
    BY <1>2 DEF Conv!AnyRow
  <2>3. left = {}
    BY <2>2, EndpointsAreTidy DEF TableInv
  <2>4. rows' \in Seq(TableRows)
    <3>1. r \in TableRows /\ rows \in Seq(TableRows)
      BY DEF TableRows, TableInv
    <3> QED
      BY <2>1, <3>1
  <2> QED
    BY <2>2, <2>3, <2>4 DEF TableInv
<1>3. CASE Conv!Write
  <2>1. PICK t \in left, at \in 0..Len(rows) :
           /\ rows' = Conv!InsertAt(rows, at + 1,
                                    Conv!fields(Conv!AdjustEndpoint(e), t))
           /\ left' = left \ {t}
           /\ e' = e
    BY <1>3 DEF Conv!Write
  <2>2. /\ e \in Conv!EndpointsIn /\ left \subseteq e.targets
        /\ ~Conv!Dropped(e) /\ t \in e.targets
    BY <2>1 DEF TableInv
  <2>3. Tidy(e) /\ e # Conv!NoEndpoint
    BY <2>2, EndpointsAreTidy
  <2> DEFINE Row(u) == Conv!fields(Conv!AdjustEndpoint(e), u)
             k == KeyOf(e)
  <2>4. k \in Conv!Keys(Row(t))
    BY <2>2, <2>3, WrittenRow
  <2>5. Row(t) \in TableRows /\ rows \in Seq(TableRows)
    BY <2>2 DEF TableRows, TableInv
  <2>6. {r \in Contents(rows) : k \in Conv!Keys(r)} =
           {Row(u) : u \in e.targets \ left}
    BY <2>2, <2>3 DEF TableInv
  <2> HIDE DEF Row, k
  <2>7. rows' = Conv!InsertAt(rows, at + 1, Row(t))
    BY <2>1 DEF Row
  <2>8. rows' \in Seq(TableRows) /\ Contents(rows') = Contents(rows) \cup {Row(t)}
    <3> DEFINE r == Row(t)
               new == Conv!InsertAt(rows, at + 1, r)
    <3>1. r \in TableRows /\ rows \in Seq(TableRows)
      BY <2>5
    <3> HIDE DEF r
    <3>2. new \in Seq(TableRows) /\ Contents(new) = Contents(rows) \cup {r}
      BY <3>1, ContentsOfInsert
    <3>3. rows' = new
      BY <2>7 DEF r
    <3> HIDE DEF new
    <3> QED
      BY <3>2, <3>3 DEF r
  <2>9. {r \in Contents(rows') : k \in Conv!Keys(r)} =
           {Row(u) : u \in e.targets \ left} \cup {Row(t)}
    BY <2>4, <2>6, <2>8
  <2>10. {Row(u) : u \in e.targets \ left} \cup {Row(t)} =
            {Row(u) : u \in e.targets \ left'}
    <3>1. e.targets \ left' = (e.targets \ left) \cup {t}
      BY <2>1, <2>2
    <3> QED
      BY <3>1
  <2>11. {r \in Contents(rows') : KeyOf(e) \in Conv!Keys(r)} =
            {Conv!fields(Conv!AdjustEndpoint(e), u) : u \in e.targets \ left'}
    BY <2>9, <2>10 DEF Row, k
  <2> QED
    BY <2>1, <2>2, <2>8, <2>11 DEF TableInv, KeyOf
<1> QED
  BY <1>1, <1>2, <1>3 DEF Next, vars, Conv!ConvertNext

LEMMA TableStays == Spec => []TableInv
BY TableStart, TableKept, PTL DEF Spec

\* Every table a behaviour reaches is grouped to the same record sets in any
\* order of its rows.
THEOREM GroupsStayOrderFree == Spec => []GroupsOrderFree
<1>1. TableInv => GroupsOrderFree
  <2> SUFFICES ASSUME TableInv
               PROVE  Conv!Grouped(rows)
    BY DEF GroupsOrderFree, Conv!GroupsOrderFree
  <2>1. rows \in Seq(TableRows)
    BY DEF TableInv
  <2> QED
    BY <2>1, TableFits, GroupsAreOrderFree
<1> QED
  BY <1>1, TableStays, PTL

\* What AdjustEndpoints keeps is read back unchanged once it is written, for
\* every configuration of domains and every maximum ttl.
THEOREM WritesAreReadBack == Spec => []ReadBack
<1>1. TableInv => ReadBack
  <2> SUFFICES ASSUME TableInv, e # Conv!NoEndpoint, ~Conv!Dropped(e), left = {}
               PROVE  LET g == Conv!GroupsOf(rows)[Conv!Key] IN
                      /\ g.targets = e.targets
                      /\ g.ttl = Conv!AdjustEndpoint(e).ttl
                      /\ ~g.differs
    BY DEF ReadBack, Conv!ReadBack
  <2>1. e \in Conv!EndpointsIn /\ rows \in Seq(TableRows)
    BY DEF TableInv
  <2>2. Tidy(e) /\ e.targets # {}
    BY <2>1, EndpointsAreTidy
  <2>3. Len(rows) \in Nat /\ \A i \in 1..Len(rows) : RowFits(rows[i])
    BY <2>1, TableFits
  <2>4. {rows[i] : i \in Conv!RowsOf(rows, KeyOf(e))} =
           {Conv!fields(Conv!AdjustEndpoint(e), t) : t \in e.targets}
    <3>1. e.targets \ left = e.targets
      OBVIOUS
    <3>2. {r \in Contents(rows) : KeyOf(e) \in Conv!Keys(r)} =
             {Conv!fields(Conv!AdjustEndpoint(e), t) : t \in e.targets \ left}
      BY DEF TableInv
    <3> QED
      BY <3>1, <3>2, RowsOfKey
  <2>5. LET g == Conv!GroupsOf(rows)[KeyOf(e)] IN
        g.targets = e.targets /\ g.ttl = Conv!clampTTL(e.ttl) /\ ~g.differs
    BY <2>2, <2>3, <2>4, WrittenIsReadBack
  <2>6. Conv!AdjustEndpoint(e).ttl = Conv!clampTTL(e.ttl)
    BY <2>2, Adjusted DEF Tidy
  <2> QED
    BY <2>5, <2>6 DEF Conv!Key, KeyOf
<1> QED
  BY <1>1, TableStays, PTL

\* AdjustEndpoints drops what foldChanges would refuse, and what has a set
\* identifier, for every configuration of domains.
THEOREM DropsAreUnwritable == Spec => []DropsUnwritable
<1>1. ASSUME NEW x \in Conv!EndpointsIn
      PROVE  Conv!Dropped(x) <=>
                \/ x.setIdentifier
                \/ Conv!Fold!Refused([key |-> KeyOf(x), targets |-> x.targets,
                                      ttl |-> Conv!clampTTL(x.ttl)], FALSE)
  <2> DEFINE n == Conv!normaliseName(x.name)
             d == [key |-> KeyOf(x), targets |-> x.targets,
                   ttl |-> Conv!clampTTL(x.ttl)]
  <2>1. Tidy(x) /\ x.targets # {} /\ x.name \in Conv!NamesIn
    BY EndpointsAreTidy DEF Conv!EndpointsIn
  <2>2. PICK labels \in Seq(Words) : n = Lower(labels, <<>>)
    BY <2>1, TidyName
  <2>3. /\ d.key[1] = n /\ d.key[2] = x.rr /\ d.targets = x.targets
    BY DEF KeyOf
  <2> HIDE DEF d
  <2>4. Conv!Fold!NoName(d) <=> Conv!splitName(n).err # ""
    BY <2>1, <2>3 DEF Conv!Fold!NoName, Conv!Fold!NameOf
  <2>5. Conv!isWildcard(n) => Conv!splitName(n).err # ""
    <3> HIDE DEF n
    <3> QED
      BY <2>2, WildcardsRefused
  <2>6. ~Conv!Fold!NoTargets(d, FALSE)
    BY <2>1, <2>3 DEF Conv!Fold!NoTargets
  <2>7. Conv!Fold!Unsupported(d, FALSE) <=> x.rr \notin Conv!SupportedTypes
    BY <2>3 DEF Conv!Fold!Unsupported, Conv!Fold!TypeOf,
                Conv!Fold!SupportedTypes, Conv!SupportedTypes
  <2>8. Conv!Fold!InvalidTXT(d, FALSE) <=>
           x.rr = "TXT" /\ \E t \in x.targets : ~Conv!validTXT(t)
    <3> DEFINE Bad ==
            {Conv!Text(q, b) : q \in 0..2, b \in BadText \cup {"x", "y"}}
            \ {Conv!Text(1, b) : b \in {"x", "y"} \ BadText}
    <3>1. Conv!Fold!InvalidTXT(d, FALSE) <=> x.rr = "TXT" /\ x.targets \cap Bad # {}
      BY <2>3 DEF Conv!Fold!InvalidTXT, Conv!Fold!isTXT, Conv!Fold!TypeOf
    <3>2. ASSUME NEW q \in 0..2, NEW b, q = 1 \/ b \in {"x", "y"}
          PROVE  Conv!Text(q, b) \in Bad <=> ~Conv!validTXT(Conv!Text(q, b))
      <4>1. \A r \in 0..2 : \A c : Conv!Text(q, b) = Conv!Text(r, c) <=> q = r /\ b = c
        BY DEF Conv!Text
      <4>2. Conv!validTXT(Conv!Text(q, b)) <=> q = 1 /\ b \notin BadText
        BY DEF Conv!validTXT, Conv!Text
      <4>3. Conv!Text(q, b) \in Bad <=>
               /\ b \in BadText \cup {"x", "y"}
               /\ ~(q = 1 /\ b \in {"x", "y"} \ BadText)
        BY <4>1
      <4> QED
        BY <3>2, <4>2, <4>3
    <3>3. ASSUME x.rr = "TXT", NEW t \in x.targets
          PROVE  \E q \in 0..2 : \E b :
                    t = Conv!Text(q, b) /\ (q = 1 \/ b \in {"x", "y"})
      <4>1. x.targets \in Conv!TargetsIn("TXT")
        BY <3>3 DEF Conv!EndpointsIn
      <4> QED
        BY <4>1 DEF Conv!TargetsIn
    <3> HIDE DEF Bad
    <3>4. x.rr = "TXT" => \A t \in x.targets : t \in Bad <=> ~Conv!validTXT(t)
      BY <3>2, <3>3
    <3> QED
      BY <3>1, <3>4
  <2>9. Conv!Dropped(x) <=>
           \/ x.rr \notin Conv!SupportedTypes
           \/ x.setIdentifier
           \/ Conv!isWildcard(n)
           \/ Conv!splitName(n).err # ""
           \/ x.rr = "TXT" /\ \E t \in x.targets : ~Conv!validTXT(t)
    BY DEF Conv!Dropped, Conv!dropReason
  <2>10. Conv!Fold!Refused(d, FALSE) <=>
            \/ Conv!splitName(n).err # ""
            \/ x.rr \notin Conv!SupportedTypes
            \/ x.rr = "TXT" /\ \E t \in x.targets : ~Conv!validTXT(t)
    BY <2>4, <2>6, <2>7, <2>8 DEF Conv!Fold!Refused
  <2> QED
    BY <2>5, <2>9, <2>10 DEF d
<1>2. TableInv => DropsUnwritable
  <2> SUFFICES ASSUME TableInv, e # Conv!NoEndpoint
               PROVE  /\ Conv!Dropped(e) <=>
                            \/ e.setIdentifier
                            \/ Conv!Fold!Refused(Conv!Described, FALSE)
                      /\ Conv!splitName(Conv!normaliseName(e.name)).err = ""
                            <=> Conv!Under(e.name)
    BY DEF DropsUnwritable, Conv!DropsUnwritable
  <2>1. e \in Conv!EndpointsIn
    BY DEF TableInv
  <2> DEFINE n == Conv!normaliseName(e.name)
  <2>2. Tidy(e) /\ e.name \in AnyNames
    BY <2>1, EndpointsAreTidy DEF Tidy, EndpointShapes
  <2>3. PICK t : n = Lower(e.name.labels, t)
    BY <2>2, NormaliseKeepsLabels
  <2>4. PICK l \in Seq(Words) : n = Lower(l, <<>>)
    BY <2>2, TidyName
  <2> HIDE DEF n
  <2>5. n.labels = e.name.labels
    BY <2>3 DEF Lower, Spelling
  <2>6. Conv!splitName(n).err = "" <=> Conv!Under(n)
    BY <2>4, SplitIsUnder
  <2>7. Conv!Under(n) <=> Conv!Under(e.name)
    BY <2>5 DEF Conv!Under, Conv!isWildcard
  <2>8. Conv!Dropped(e) <=>
           e.setIdentifier \/ Conv!Fold!Refused(Conv!Described, FALSE)
    BY <1>1, <2>1 DEF Conv!Described, Conv!Key, KeyOf
  <2> QED
    BY <2>6, <2>7, <2>8 DEF n
<1> QED
  BY <1>2, TableStays, PTL

-----------------------------------------------------------------------------
(* Backoff                                                                 *)

\* A value of up to twice the range wraps to itself or to no positive number.
LEMMA WrapFits ==
    ASSUME NEW n \in -Half..(2 * Half), Half \in Nat \ {0}
    PROVE  /\ n < Half => Call!Wrap(n) = n
           /\ n >= Half => Call!Wrap(n) <= 0
           /\ Call!Wrap(n) \in Int
<1>1. n < Half => (n + Half) % (2 * Half) = n + Half
  OBVIOUS
<1>2. n >= Half /\ n < 2 * Half => (n + Half) % (2 * Half) = n - Half
  OBVIOUS
<1>3. n = 2 * Half => (n + Half) % (2 * Half) = Half
  OBVIOUS
<1> QED
  BY <1>1, <1>2, <1>3 DEF Call!Wrap

\* The delay before jitter is the exponential delay as far as the maximum
\* allows, although the shift overflows.
LEMMA BaseIsDue ==
    ASSUME Call!DelaysFit, NEW i \in Initials, NEW m \in Maxima,
           NEW a \in 0..(Attempts - 2)
    PROVE  /\ i * 2^a \in Nat
           /\ Call!base(i, m, a) = Call!Smallest(i * 2^a, m)
<1> DEFINE s == i * 2^a
<1>1. s \in 1..(2 * Half) /\ Half \in Nat \ {0} /\ m \in Nat /\ m < Half
  BY DEF Call!DelaysFit
<1>2. /\ s < Half => Call!Wrap(s) = s
      /\ s >= Half => Call!Wrap(s) <= 0
      /\ Call!Wrap(s) \in Int
  <2> HIDE DEF s
  <2>1. s \in -Half..(2 * Half)
    BY <1>1
  <2> QED
    BY <1>1, <2>1, WrapFits
<1>3. Call!base(i, m, a) =
         IF Call!Wrap(s) <= 0 \/ Call!Wrap(s) > m THEN m ELSE Call!Wrap(s)
  BY DEF Call!base
<1> HIDE DEF s
<1>4. Call!base(i, m, a) = Call!Smallest(s, m)
  BY <1>1, <1>2, <1>3 DEF Call!Smallest
<1> QED
  BY <1>1, <1>4 DEF s

\* What is read from a header is what it asks for, or reaches every maximum.
LEMMA HintIsAsked ==
    ASSUME Call!DelaysFit, NEW h \in Call!Headers, NEW m \in Maxima
    PROVE  /\ Call!Asked(h) \in Nat
           /\ Call!parseRetryAfter(h) \in Nat
           /\ Call!parseRetryAfter(h) >= Call!Smallest(m, Call!Asked(h))
<1>1. /\ Half \in Nat \ {0} /\ Second \in Nat /\ maxRetryAfterSeconds \in Nat
      /\ maxRetryAfterSeconds * Second < Half
      /\ m \in Nat /\ m <= maxRetryAfterSeconds * Second
  BY DEF Call!DelaysFit
<1>2. CASE h = Call!NoHeader
  BY <1>1, <1>2
  DEF Call!NoHeader, Call!Asked, Call!parseRetryAfter, Call!Smallest
<1>3. ASSUME NEW n \in Int, h = Call!Seconds(n)
      PROVE  /\ Call!Asked(h) \in Nat
             /\ Call!parseRetryAfter(h) \in Nat
             /\ Call!parseRetryAfter(h) >= Call!Smallest(m, Call!Asked(h))
  <2>1. h.form = "seconds" /\ h.value = n
    BY <1>3 DEF Call!Seconds
  <2>2. CASE n < 0
    <3>1. n * Second <= 0
      BY <1>1, <2>2
    <3> QED
      BY <1>1, <2>1, <2>2, <3>1
      DEF Call!Asked, Call!parseRetryAfter, Call!Smallest, Call!Largest
  <2>3. CASE n >= 0
    <3> DEFINE c == Call!Smallest(n, maxRetryAfterSeconds)
    <3>1. c \in Nat /\ c <= n /\ c <= maxRetryAfterSeconds
          /\ (c = n \/ c = maxRetryAfterSeconds)
      BY <1>1, <2>3 DEF Call!Smallest
    <3> HIDE DEF c
    <3>2. /\ c * Second \in Nat /\ n * Second \in Nat
          /\ c * Second <= maxRetryAfterSeconds * Second
      BY <1>1, <2>3, <3>1
    <3>3. Call!Wrap(c * Second) = c * Second
      <4>1. c * Second \in -Half..(2 * Half) /\ c * Second < Half
        BY <1>1, <3>2
      <4> QED
        BY <1>1, <4>1, WrapFits
    <3>4. Call!parseRetryAfter(h) = c * Second
      BY <2>1, <2>3, <3>3 DEF Call!parseRetryAfter, c
    <3>5. Call!Asked(h) = n * Second
      BY <2>1, <3>2 DEF Call!Asked, Call!Largest
    <3> QED
      BY <1>1, <3>1, <3>2, <3>4, <3>5 DEF Call!Smallest
  <2> QED
    BY <2>2, <2>3
<1>4. ASSUME NEW d \in Int, h = Call!Date(d)
      PROVE  /\ Call!Asked(h) \in Nat
             /\ Call!parseRetryAfter(h) \in Nat
             /\ Call!parseRetryAfter(h) >= Call!Smallest(m, Call!Asked(h))
  BY <1>1, <1>4
  DEF Call!Date, Call!Asked, Call!parseRetryAfter, Call!Smallest, Call!Largest
<1>5. -1 \in Int /\ maxRetryAfterSeconds + 1 \in Int /\ Half - 1 \in Int
  BY <1>1
<1> QED
  BY <1>1, <1>2, <1>3, <1>4, <1>5 DEF Call!Headers

\* A wait reaches what is due and not more than the maximum.
LEMMA WaitIsDue ==
    ASSUME Call!DelaysFit, NEW i \in Initials, NEW m \in Maxima,
           NEW a \in 0..(Attempts - 2), NEW h \in Call!Headers,
           NEW j \in Call!Jitters(Call!base(i, m, a))
    PROVE  LET w == Call!backoff(Call!base(i, m, a), m,
                                 Call!parseRetryAfter(h), j)
           IN  w <= m /\ w >= Call!Due(i, m, a, h)
<1> DEFINE b == Call!base(i, m, a)
           s == i * 2^a
           hint == Call!parseRetryAfter(h)
           asked == Call!Asked(h)
<1>1. s \in Nat /\ b = Call!Smallest(s, m)
  BY BaseIsDue
<1>2. asked \in Nat /\ hint \in Nat /\ hint >= Call!Smallest(m, asked)
  BY HintIsAsked
<1>3. m \in Nat /\ m + m \div 2 < Half /\ Half \in Nat \ {0}
  BY DEF Call!DelaysFit
<1>4. Call!Due(i, m, a, h) = Call!Smallest(m, Call!Largest(s, asked))
  BY DEF Call!Due
<1> HIDE DEF b, s, hint, asked
<1>5. b \in Nat /\ b <= m
  BY <1>1, <1>3 DEF Call!Smallest
<1>6. j \in Nat /\ j <= b \div 2
  BY <1>5 DEF Call!Jitters, b
<1>7. b + j < Half /\ b + j \in Nat
  BY <1>3, <1>5, <1>6
<1>8. Call!Wrap(b + j) = b + j
  BY <1>3, <1>7, WrapFits
<1> QED
  BY <1>1, <1>2, <1>3, <1>4, <1>5, <1>6, <1>7, <1>8
  DEF Call!backoff, Call!Smallest, Call!Largest, b, hint

\* The delays and the attempts of a call that is being repeated.
RetryState(i, m, a, h, w) ==
    [initial |-> i, maxDelay |-> m, attempt |-> a, header |-> h, wait |-> w]

RetryInv ==
    \/ NoRetry
    \/ \E i \in Initials, m \in Maxima, a \in Nat, h \in Call!Headers :
          \E w : retry = RetryState(i, m, a, h, w)

\* The waits of a call lie between what is due and the maximum, for all delays
\* whose arithmetic fits a duration, any number of attempts and any header.
THEOREM WaitsInRange == Spec => []WaitInRange
<1> USE DelayAssumption
<1>1. Init => RetryInv /\ WaitInRange
  <2>1. CASE NoRetry
    BY <2>1 DEF NoRetry, RetryInv, WaitInRange, Call!WaitInRange
  <2>2. CASE Call!Init
    <3>1. PICK i \in Initials, m \in Maxima :
             /\ m >= i
             /\ retry = RetryState(i, m, 0, Call!NoHeader, i)
      BY <2>2 DEF Call!Init, RetryState
    <3>2. RetryInv
      BY <3>1 DEF RetryInv, Call!Headers
    <3>3. retry.wait = i /\ retry.maxDelay = m /\ retry.attempt = 0
      BY <3>1 DEF RetryState
    <3>4. WaitInRange
      BY <3>1, <3>3 DEF WaitInRange, Call!WaitInRange, Call!DelaysFit
    <3> QED
      BY <3>2, <3>4
  <2> QED
    BY <2>1, <2>2 DEF Init
<1>2. ASSUME RetryInv, WaitInRange, [Next]_vars
      PROVE  RetryInv' /\ WaitInRange'
  <2>1. CASE retry' = retry
    BY <1>2, <2>1 DEF RetryInv, WaitInRange, Call!WaitInRange, NoRetry
  <2>2. CASE ~NoRetry /\ Call!Wait
    <3>1. PICK i \in Initials, m \in Maxima, a \in Nat, h \in Call!Headers :
             \E u : retry = RetryState(i, m, a, h, u)
      BY <1>2, <2>2 DEF RetryInv
    <3>w. PICK w : retry = RetryState(i, m, a, h, w)
      BY <3>1
    <3>2. /\ retry.initial = i /\ retry.maxDelay = m /\ retry.attempt = a
          /\ a < Attempts - 1
      BY <2>2, <3>w DEF RetryState, Call!Wait
    <3>3. a \in 0..(Attempts - 2)
      BY <3>1, <3>2 DEF Call!DelaysFit
    <3>4. PICK g \in Call!Headers, j \in Call!Jitters(Call!base(i, m, a)) :
             retry' = [retry EXCEPT
                         !.attempt = a + 1, !.header = g,
                         !.wait = Call!backoff(Call!base(i, m, a), m,
                                               Call!parseRetryAfter(g), j)]
      BY <2>2, <3>2 DEF Call!Wait
    <3> DEFINE v == Call!backoff(Call!base(i, m, a), m,
                                 Call!parseRetryAfter(g), j)
    <3>5. v <= m /\ v >= Call!Due(i, m, a, g)
      BY <3>3, WaitIsDue
    <3>6. retry' = RetryState(i, m, a + 1, g, v)
      BY <3>w, <3>4 DEF RetryState
    <3> HIDE DEF v
    <3>7. RetryInv'
      BY <3>6 DEF RetryInv
    <3>8. /\ retry'.initial = i /\ retry'.maxDelay = m /\ retry'.wait = v
          /\ retry'.header = g /\ retry'.attempt = a + 1
      BY <3>6 DEF RetryState
    <3>9. retry'.attempt - 1 = a
      BY <3>8
    <3>10. WaitInRange'
      BY <3>5, <3>8, <3>9 DEF WaitInRange, Call!WaitInRange
    <3> QED
      BY <3>7, <3>10
  <2> QED
    BY <1>2, <2>1, <2>2 DEF Next, vars
<1> QED
  BY <1>1, <1>2, PTL DEF Spec
============================================================================
