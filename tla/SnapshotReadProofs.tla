------------------------- MODULE SnapshotReadProofs -------------------------
(***************************************************************************)
(* A paged read that is accepted is whole, for every table, page size and  *)
(* number of attempts, unless rows were both added and deleted meanwhile.  *)
(***************************************************************************)
EXTENDS SnapshotRead, FiniteSetTheorems, TLAPS

\* Sets of rows are finite, so their sizes are numbers that decide equality.
LEMMA RowSets ==
    ASSUME NEW S \in SUBSET UUIDs, NEW T \in SUBSET S
    PROVE  /\ Cardinality(S) \in Nat
           /\ Cardinality(S) = Cardinality(T) => S = T
<1>1. IsFiniteSet(S)
      BY ReadAssumption, FS_Subset
<1> QED BY <1>1, FS_Subset, FS_CardinalityType

\* A page holds rows of the table.
LEMMA PageOfTable == PageRows(current) \subseteq Present /\ Present \subseteq UUIDs
BY DEF PageRows, Present

-----------------------------------------------------------------------------

LEMMA ReadTypeInit == Init => TypeOK
BY ReadAssumption DEF Init, TypeOK

LEMMA ReadTypeNext == TypeOK /\ [Next]_vars => TypeOK'
<1> SUFFICES ASSUME TypeOK, [Next]_vars
             PROVE  TypeOK'
    OBVIOUS
<1> USE ReadAssumption DEF TypeOK, table, ghost
<1>1. Total \in Nat /\ Collected \subseteq UUIDs /\ Present \subseteq UUIDs
      BY PageOfTable, RowSets DEF Total, PageTotal, Collected
<1>2. CASE PageMore
  <2>1. first' \subseteq UUIDs /\ came' \subseteq UUIDs /\ gone' \subseteq UUIDs
        BY <1>1, <1>2 DEF PageMore, Observe
  <2>2. current' \in Nat \ {0} /\ total' \in Nat /\ seen' \subseteq UUIDs
        BY <1>1, <1>2 DEF PageMore
  <2> QED BY <1>2, <2>1, <2>2 DEF PageMore
<1>3. CASE PageComplete BY <1>1, <1>3 DEF PageComplete, Observe
<1>4. CASE RestartRead  BY <1>4 DEF RestartRead
<1>5. CASE GiveUp       BY <1>5 DEF GiveUp
<1>6. CASE PageFailed   BY <1>6 DEF PageFailed
<1>7. CASE NextRead     BY <1>7 DEF NextRead
<1>8. ASSUME NEW u \in UUIDs, AddRow(u)    PROVE TypeOK'
      BY <1>8 DEF AddRow
<1>9. ASSUME NEW u \in UUIDs, DeleteRow(u) PROVE TypeOK'
      BY <1>9 DEF DeleteRow
<1>10. ASSUME NEW u \in UUIDs, SetRow(u)   PROVE TypeOK'
      BY <1>10 DEF SetRow
<1>11. CASE UNCHANGED vars BY <1>11 DEF vars
<1> QED BY <1>2, <1>3, <1>4, <1>5, <1>6, <1>7, <1>8, <1>9, <1>10, <1>11
        DEF Next, Read, Edit

-----------------------------------------------------------------------------

\* The attempt so far, relative to the rows there were at its first page: with
\* nothing deleted they are all still there and so is everything collected;
\* with nothing added there are no others.
AttemptInv ==
    result = "reading" =>
        /\ total = NoTotal => seen = {}
        /\ total # NoTotal => total = Cardinality(first)
        /\ total # NoTotal /\ gone = {} =>
              first \subseteq Present /\ seen \subseteq Present
        /\ total # NoTotal /\ came = {} =>
              Present \subseteq first /\ seen \subseteq first

WholeInv == TypeOK /\ AttemptInv /\ AcceptedIsWhole

\* Across a page that is not inconsistent the total has not changed; if rows
\* only came or only went the table is that of the first page, and what has
\* been collected is part of it.
LEMMA GoodPage ==
    ASSUME WholeInv, result = "reading", ~Inconsistent, total # NoTotal,
           came = {} \/ gone = {}
    PROVE  Present = first /\ Collected \subseteq Present
<1> USE DEF WholeInv, TypeOK, AttemptInv
<1>1. Cardinality(Present) = Cardinality(first)
      BY DEF Inconsistent, PageTotal, Total
<1>2. Present = first
  <2>1. CASE gone = {}
        BY <1>1, <2>1, PageOfTable, RowSets
  <2>2. CASE came = {}
        BY <1>1, <2>2, PageOfTable, RowSets
  <2> QED BY <2>1, <2>2
<1> QED BY <1>2, PageOfTable DEF Collected

LEMMA WholeInit == Init => WholeInv
BY ReadTypeInit DEF Init, WholeInv, AttemptInv, AcceptedIsWhole

LEMMA WholeNext == WholeInv /\ [Next]_vars => WholeInv'
<1> SUFFICES ASSUME WholeInv, [Next]_vars
             PROVE  AttemptInv' /\ AcceptedIsWhole'
    BY ReadTypeNext DEF WholeInv
<1> USE DEF WholeInv, AttemptInv, AcceptedIsWhole, table, ghost
<1>0. ASSUME UNCHANGED rank PROVE Present' = Present
      BY <1>0 DEF Present
<1>1. CASE PageMore
  <2>1. CASE total = NoTotal
    <3>1. /\ total' = Cardinality(Present) /\ total' # NoTotal
          /\ first' = Present
          BY <1>1, <2>1, PageOfTable, RowSets, ReadAssumption
          DEF PageMore, Observe, Total, PageTotal
    <3>2. seen' \subseteq Present
          BY <1>1, <2>1, PageOfTable DEF PageMore, Collected
    <3>3. Present' = Present /\ result' = "reading"
          BY <1>0, <1>1 DEF PageMore
    <3> QED BY <3>1, <3>2, <3>3
  <2>2. CASE total # NoTotal
    <3>1. PageRows(current) \subseteq Present
          BY PageOfTable
    <3> QED BY <1>0, <1>1, <2>2, <3>1
            DEF PageMore, Observe, Total, Collected
  <2> QED BY <2>1, <2>2
<1>2. CASE PageComplete
  <2>1. AttemptInv'
        BY <1>2 DEF PageComplete
  <2>2. ASSUME came' = {} \/ gone' = {}
        PROVE  seen' = Present'
    <3>1. Collected \subseteq Present
      <4>1. CASE total = NoTotal
            BY <1>2, <4>1, PageOfTable DEF PageComplete, Collected
      <4>2. CASE total # NoTotal
            BY <1>2, <2>2, <4>2, GoodPage DEF PageComplete, Observe
      <4> QED BY <4>1, <4>2
    <3>2. Cardinality(Collected) = Cardinality(Present)
          BY <1>2 DEF PageComplete, Inconsistent, PageTotal
    <3>3. Collected = Present
          BY <3>1, <3>2, PageOfTable, RowSets
    <3> QED BY <1>0, <1>2, <3>3 DEF PageComplete
  <2> QED BY <2>1, <2>2
<1>3. CASE RestartRead BY <1>3 DEF RestartRead
<1>4. CASE GiveUp      BY <1>4 DEF GiveUp
<1>5. CASE PageFailed  BY <1>5 DEF PageFailed
<1>6. CASE NextRead    BY <1>6 DEF NextRead
<1>7. ASSUME NEW u \in UUIDs, AddRow(u)
      PROVE  AttemptInv' /\ AcceptedIsWhole'
  <2>1. Present \subseteq Present' /\ came' # {}
        BY <1>7 DEF AddRow, Present, TypeOK
  <2> QED BY <1>7, <2>1 DEF AddRow
<1>8. ASSUME NEW u \in UUIDs, DeleteRow(u)
      PROVE  AttemptInv' /\ AcceptedIsWhole'
  <2>1. Present' \subseteq Present /\ gone' # {}
        BY <1>8 DEF DeleteRow, Present, TypeOK
  <2> QED BY <1>8, <2>1 DEF DeleteRow
<1>9. ASSUME NEW u \in UUIDs, SetRow(u)
      PROVE  AttemptInv' /\ AcceptedIsWhole'
  <2>1. Present' = Present
        BY <1>9 DEF SetRow, Present, TypeOK
  <2> QED BY <1>9, <2>1 DEF SetRow
<1>10. CASE UNCHANGED vars
      BY <1>0, <1>10 DEF vars
<1> QED BY <1>1, <1>2, <1>3, <1>4, <1>5, <1>6, <1>7, <1>8, <1>9, <1>10
        DEF Next, Read, Edit

\* A table Snapshot returns is the whole table at its last page, for any table
\* and page size, unless the attempt saw rows both come and go.
THEOREM AcceptedReadIsWhole == Spec => []AcceptedIsWhole
<1>1. WholeInv => AcceptedIsWhole
      BY DEF WholeInv
<1> QED BY WholeInit, WholeNext, <1>1, PTL DEF Spec

\* Every variable of the read keeps its type, the attempts their bound.
THEOREM ReadTypeCorrect == Spec => []TypeOK
BY ReadTypeInit, ReadTypeNext, PTL DEF Spec

-----------------------------------------------------------------------------
(* The number of pages                                                     *)

\* The page after the last one the total allows for is empty.
LEMMA NoRowsBehind ==
    ASSUME TypeOK, PageTotal = Total, current >= MaxPages
    PROVE  PageRows(current) = {}
<1> SUFFICES ASSUME NEW u \in PageRows(current)
             PROVE  FALSE
    OBVIOUS
<1> DEFINE ahead == {v \in Present : Before(v, u)}
           pages == (Total + PageSize - 1) \div PageSize
<1>1. u \in Present /\ Present \subseteq UUIDs /\ IsFiniteSet(Present)
      BY PageOfTable, ReadAssumption, FS_Subset
<1>2. u \notin ahead
      BY <1>1, ReadAssumption DEF Before, TypeOK
<1>3. Cardinality(ahead) < Cardinality(Present)
  <2>1. ahead \subseteq Present /\ ahead # Present
        BY <1>1, <1>2
  <2> QED BY <1>1, <2>1, FS_Subset, FS_CardinalityType
<1>4. Position(u) < Total /\ Position(u) \in Nat /\ Total \in Nat
  <2>1. Cardinality(ahead) \in Nat /\ Cardinality(Present) \in Nat
        BY <1>1, FS_Subset, FS_CardinalityType
  <2> QED BY <1>3, <2>1 DEF Position, PageTotal
<1>5. (current - 1) * PageSize <= Position(u)
      BY DEF PageRows
<1>6. Total <= pages * PageSize /\ pages \in Nat
      BY <1>4, ReadAssumption
<1>7. pages <= current - 1
      BY <1>4, <1>6 DEF MaxPages, TypeOK
<1>8. pages * PageSize <= (current - 1) * PageSize
      BY <1>6, <1>7, ReadAssumption DEF TypeOK
<1> QED BY <1>4, <1>5, <1>6, <1>8, ReadAssumption DEF TypeOK

LEMMA PagesNext == TypeOK /\ PagesBounded /\ [Next]_vars => PagesBounded'
<1> SUFFICES ASSUME TypeOK, PagesBounded, [Next]_vars
             PROVE  PagesBounded'
    OBVIOUS
<1> USE ReadAssumption DEF PagesBounded, table, ghost
<1>1. CASE PageMore
  <2>1. Total \in Nat /\ Total' = Total /\ MaxPages' = MaxPages
    <3>1. Total \in Nat
          BY PageOfTable, RowSets DEF Total, PageTotal, TypeOK
    <3> QED BY <1>1, <3>1 DEF PageMore, Total, MaxPages
  <2>2. PageRows(current) # {}
        BY <1>1 DEF PageMore, Inconsistent, Collected
  <2>3. MaxPages \in Int
        BY <2>1 DEF MaxPages
  <2>4. current < MaxPages
        BY <1>1, <2>2, <2>3, NoRowsBehind DEF PageMore, Inconsistent, TypeOK
  <2> QED BY <1>1, <2>1, <2>3, <2>4 DEF PageMore, TypeOK
<1>2. CASE PageComplete \/ GiveUp \/ PageFailed
      BY <1>2 DEF PageComplete, GiveUp, PageFailed
<1>3. CASE RestartRead \/ NextRead
      BY <1>3 DEF RestartRead, NextRead
<1>4. CASE Edit \/ UNCHANGED vars
      BY <1>4 DEF Edit, AddRow, DeleteRow, SetRow, vars, MaxPages, Total
<1> QED BY <1>1, <1>2, <1>3, <1>4 DEF Next, Read

\* No read asks for more pages than its total allows for, whatever the table
\* does under it: a page that could lead further is empty and inconsistent.
THEOREM PagesAreBounded == Spec => []PagesBounded
<1>1. Init => PagesBounded
      BY DEF Init, PagesBounded
<1> QED BY <1>1, ReadTypeInit, ReadTypeNext, PagesNext, PTL DEF Spec
=============================================================================
