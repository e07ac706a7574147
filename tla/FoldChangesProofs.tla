-------------------------- MODULE FoldChangesProofs --------------------------
(***************************************************************************)
(* Proofs about foldChanges, for plans of any length: induction over the   *)
(* number of endpoints folded, which rests on every set of numbers having  *)
(* a least element.                                                        *)
(***************************************************************************)
EXTENDS FoldChanges, FiniteSets, WellFoundedInduction, FiniteSetTheorems, TLAPS

(* Least and greatest numbers                                              *)

Less == {ss \in Nat \X Nat : ss[1] < ss[2]}

LEMMA LessIsWellFounded == IsWellFoundedOn(Less, Nat)
BY NatLessThanWellFounded DEF OpToRel, Less

\* Every set of numbers that is not empty has a least element, which Min
\* returns.
LEMMA MinIsLeast ==
    ASSUME NEW T \in SUBSET Nat, T # {}
    PROVE  Min(T) \in T /\ \A y \in T : Min(T) <= y
<1>1. PICK x \in T : \A y \in T : <<y, x>> \notin Less
  BY LessIsWellFounded, WFMin
<1>2. \A y \in T : ~(y < x)
  BY <1>1 DEF Less
<1>3. \A y \in T : x <= y
  BY <1>2
<1> QED
  BY <1>3 DEF Min

\* Every finite set of numbers that is not empty has a greatest element, which
\* Max returns.
LEMMA MaxIsGreatest ==
    ASSUME NEW T \in SUBSET Nat, T # {}, IsFiniteSet(T)
    PROVE  Max(T) \in T /\ \A y \in T : Max(T) >= y
<1> DEFINE Unbounded == {S \in SUBSET T : /\ S # {}
                                         /\ ~\E m \in S : \A y \in S : m >= y}
<1>1. Unbounded = {}
  <2> SUFFICES ASSUME Unbounded # {}
               PROVE  FALSE
    OBVIOUS
  <2>1. IsWellFoundedOn(StrictSubsetOrdering(T), SUBSET T)
    BY FS_StrictSubsetOrderingWellFounded, FS_FiniteSubsetsOfFinite
  <2>2. PICK S \in Unbounded :
           \A R \in Unbounded : <<R, S>> \notin StrictSubsetOrdering(T)
    <3> HIDE DEF Unbounded
    <3>1. Unbounded \subseteq SUBSET T
      BY DEF Unbounded
    <3> QED
      BY <2>1, <3>1, WFMin
  <2>3. PICK x \in S : TRUE
    OBVIOUS
  <2>4. S \ {x} \notin Unbounded
    BY <2>2, <2>3 DEF StrictSubsetOrdering
  <2>5. CASE S \ {x} = {}
    BY <2>3, <2>5
  <2>6. CASE S \ {x} # {}
    <3>1. PICK m \in S \ {x} : \A y \in S \ {x} : m >= y
      BY <2>4, <2>6
    <3> QED
      BY <3>1, <2>3
  <2> QED
    BY <2>5, <2>6
<1> QED
  BY <1>1 DEF Max

-----------------------------------------------------------------------------
(* The fold                                                                *)

\* The steps of the fold exist: each is Define of the one before.
LEMMA FoldStepsDefined ==
    ASSUME NEW items, Len(items) \in Nat
    PROVE  FoldSteps(items) =
              [n \in 0..Len(items) |->
                  IF n = 0 THEN Nothing
                  ELSE Define(FoldSteps(items)[n - 1], items[n].endpoint,
                              items[n].empty)]
<1> DEFINE Step(v, n) == Define(v, items[n].endpoint, items[n].empty)
           Folds(g, m) ==
               g = [n \in 0..m |-> IF n = 0 THEN Nothing ELSE Step(g[n - 1], n)]
           None == {m \in Nat : ~\E g : Folds(g, m)}
<1> HIDE DEF Step
<1>1. None = {}
  <2> SUFFICES ASSUME None # {}
               PROVE  FALSE
    OBVIOUS
  <2>1. PICK m \in None : \A y \in None : m <= y
    BY MinIsLeast
  <2>2. CASE m = 0
    <3>1. Folds([n \in 0..m |-> Nothing], m)
      BY <2>2
    <3> QED
      BY <3>1
  <2>3. CASE m # 0
    <3>1. m - 1 \in Nat /\ m - 1 \notin None
      <4>1. m \in Nat
        OBVIOUS
      <4> HIDE DEF None
      <4> QED
        BY <4>1, <2>1, <2>3
    <3>2. PICK g : Folds(g, m - 1)
      BY <3>1
    <3> DEFINE h == [n \in 0..m |-> IF n = m THEN Step(g[m - 1], m) ELSE g[n]]
    <3>3. ASSUME NEW n \in 0..m
          PROVE  h[n] = IF n = 0 THEN Nothing ELSE Step(h[n - 1], n)
      <4>1. CASE n = 0
        BY <4>1, <3>2, <2>3
      <4>2. CASE n # 0 /\ n = m
        BY <4>2
      <4>3. CASE n # 0 /\ n # m
        <5>1. n \in 0..(m - 1) /\ n - 1 \in 0..(m - 1)
          BY <4>3
        <5>2. g[n] = Step(g[n - 1], n)
          BY <5>1, <4>3, <3>2
        <5>3. h[n] = g[n] /\ h[n - 1] = g[n - 1]
          BY <5>1, <4>3
        <5> QED
          BY <5>2, <5>3, <4>3
      <4> QED
        BY <4>1, <4>2, <4>3
    <3>4. Folds(h, m)
      BY <3>3
    <3> QED
      BY <3>4
  <2> QED
    BY <2>2, <2>3
<1>2. PICK g : Folds(g, Len(items))
  BY <1>1
<1> QED
  BY <1>2 DEF FoldSteps, Step

\* The acceptable definitions of a key among the first n endpoints.
Accepted(items, n, k) ==
    {desiredSet(items[i].endpoint, items[i].empty) :
        i \in {j \in 1..n : /\ items[j].endpoint.key = k
                            /\ ~Refused(items[j].endpoint, items[j].empty)}}

Disputed(items, n, k) ==
    \E c, d \in Accepted(items, n, k) : c # d

\* The fold's state is a record of a function, two sets and a number.
FoldShape(st) ==
    /\ st = [sets |-> st.sets, conflicted |-> st.conflicted,
             rejected |-> st.rejected, errs |-> st.errs]
    /\ st.sets = [k \in DOMAIN st.sets |-> st.sets[k]]
    /\ st.errs \in Nat

\* After n endpoints the fold holds the keys with one acceptable definition.
FoldAgrees(items, n, st) ==
    \A k : /\ k \in st.conflicted <=> Disputed(items, n, k)
           /\ k \in DOMAIN st.sets <=> /\ Accepted(items, n, k) # {}
                                       /\ k \notin st.conflicted
           /\ k \in DOMAIN st.sets => st.sets[k] \in Accepted(items, n, k)

\* After n endpoints everything dropped is on record.
FoldReports(items, n, st) ==
    /\ \/ st.rejected # {} \/ st.conflicted # {}
       \/ \E j \in 1..n : Refused(items[j].endpoint, items[j].empty)
       => st.errs > 0
    /\ \A j \in 1..n :
          /\ InvalidTXT(items[j].endpoint, items[j].empty)
          /\ ~NoName(items[j].endpoint)
          => items[j].endpoint.key \in st.rejected \cup st.conflicted

FoldInv(items, n, st) ==
    FoldShape(st) /\ FoldAgrees(items, n, st) /\ FoldReports(items, n, st)

\* An item of a plan: an endpoint, and whether it is a deletion.
ItemsOf(E) == [endpoint : E, empty : BOOLEAN]

LEMMA AcceptedStep ==
    ASSUME NEW items, NEW n \in Nat, NEW k
    PROVE  LET e == items[n + 1].endpoint  empty == items[n + 1].empty IN
           Accepted(items, n + 1, k) =
              Accepted(items, n, k) \cup
                 IF e.key = k /\ ~Refused(e, empty) THEN {desiredSet(e, empty)}
                 ELSE {}
<1>1. \A j : j \in 1..(n + 1) <=> j \in 1..n \/ j = n + 1
  OBVIOUS
<1> QED
  BY <1>1 DEF Accepted

\* Define keeps the invariant of the fold.
LEMMA DefineStep ==
    ASSUME NEW E, NEW items \in Seq(ItemsOf(E)), NEW n \in Nat,
           n + 1 \in 1..Len(items), NEW st, FoldInv(items, n, st)
    PROVE  FoldInv(items, n + 1,
                   Define(st, items[n + 1].endpoint, items[n + 1].empty))
<1> DEFINE e     == items[n + 1].endpoint
           empty == items[n + 1].empty
           set   == desiredSet(e, empty)
           new   == Define(st, e, empty)
<1>1. empty \in BOOLEAN
  <2>1. items[n + 1] \in ItemsOf(E)
    OBVIOUS
  <2> QED
    BY <2>1 DEF ItemsOf
<1>2. \A j : j \in 1..(n + 1) <=> j \in 1..n \/ j = n + 1
  OBVIOUS
<1>3. ASSUME NEW k
      PROVE  Accepted(items, n + 1, k) =
                Accepted(items, n, k) \cup
                   IF e.key = k /\ ~Refused(e, empty) THEN {set} ELSE {}
  BY AcceptedStep
<1> HIDE DEF e, empty, set
<1>4. CASE Refused(e, empty)
  <2>1. \A k : Accepted(items, n + 1, k) = Accepted(items, n, k)
    BY <1>3, <1>4
  <2>2. /\ FoldShape(new)
        /\ new.sets = st.sets /\ new.conflicted = st.conflicted
        /\ st.rejected \subseteq new.rejected
        /\ new.errs > 0
        /\ InvalidTXT(e, empty) /\ ~NoName(e) =>
              e.key \in new.rejected \cup new.conflicted
    <3>1. CASE NoName(e) \/ NoTargets(e, empty)
      <4>1. new = [st EXCEPT !.errs = @ + 1]
        BY <3>1 DEF Define, Fault
      <4>2. ~(InvalidTXT(e, empty) /\ ~NoName(e))
        BY <3>1 DEF InvalidTXT, NoTargets
      <4> QED
        BY <4>1, <4>2 DEF FoldInv, FoldShape
    <3>2. CASE /\ ~(NoName(e) \/ NoTargets(e, empty)) /\ e.key \in st.conflicted
      <4>1. new = st
        BY <3>2 DEF Define
      <4> QED
        BY <4>1, <3>2 DEF FoldInv, FoldReports
    <3>3. CASE /\ ~(NoName(e) \/ NoTargets(e, empty)) /\ e.key \notin st.conflicted
               /\ InvalidTXT(e, empty)
      <4>1. new = [Fault(st) EXCEPT !.rejected = @ \cup {e.key}]
        BY <3>3 DEF Define
      <4>2. new = [sets |-> st.sets, conflicted |-> st.conflicted,
                   rejected |-> st.rejected \cup {e.key}, errs |-> st.errs + 1]
        BY <4>1 DEF Fault, FoldInv, FoldShape
      <4> HIDE DEF new
      <4> QED
        BY <4>2 DEF FoldInv, FoldShape
    <3>4. CASE /\ ~(NoName(e) \/ NoTargets(e, empty)) /\ e.key \notin st.conflicted
               /\ ~InvalidTXT(e, empty)
      <4>1. new = [st EXCEPT !.errs = @ + 1]
        BY <3>4, <1>4 DEF Define, Fault, Refused
      <4> QED
        BY <4>1, <3>4 DEF FoldInv, FoldShape
    <3> QED
      BY <3>1, <3>2, <3>3, <3>4
  <2> HIDE DEF new
  <2>3. FoldAgrees(items, n + 1, new)
    BY <2>1, <2>2 DEF FoldInv, FoldAgrees, Disputed
  <2>4. FoldReports(items, n + 1, new)
    BY <2>2, <1>2 DEF FoldInv, FoldReports, e, empty
  <2> QED
    BY <2>2, <2>3, <2>4 DEF FoldInv, new, e, empty
<1>5. CASE ~Refused(e, empty)
  <2>1. /\ \A k : k # e.key => Accepted(items, n + 1, k) = Accepted(items, n, k)
        /\ Accepted(items, n + 1, e.key) = Accepted(items, n, e.key) \cup {set}
    BY <1>3, <1>5
  <2>2. ~InvalidTXT(e, empty)
    BY <1>5 DEF Refused
  <2>3. CASE e.key \in st.conflicted
    <3>1. new = st
      BY <2>3, <1>5 DEF Define, Refused
    <3>2. FoldAgrees(items, n + 1, st)
      BY <2>1, <2>3 DEF FoldInv, FoldAgrees, Disputed
    <3>3. FoldReports(items, n + 1, st)
      BY <2>2, <2>3, <1>2, <1>5 DEF FoldInv, FoldReports, e, empty
    <3> QED
      BY <3>1, <3>2, <3>3 DEF FoldInv, e, empty
  <2>4. CASE e.key \notin st.conflicted /\ Disagrees(st, e.key, set)
    <3>0. new = Fault(Drop(st, e.key))
      BY <2>4, <1>5 DEF Define, Refused, set
    <3>1. new = [sets |-> Without(st.sets, e.key),
                 conflicted |-> st.conflicted \cup {e.key},
                 rejected |-> st.rejected, errs |-> st.errs + 1]
      BY <3>0 DEF Fault, Drop, FoldInv, FoldShape
    <3> HIDE DEF new
    <3>2. /\ FoldShape(new)
          /\ DOMAIN new.sets = DOMAIN st.sets \ {e.key}
          /\ \A k \in DOMAIN new.sets : new.sets[k] = st.sets[k]
          /\ new.conflicted = st.conflicted \cup {e.key}
          /\ new.rejected = st.rejected
          /\ new.errs > 0
      BY <3>1 DEF FoldInv, FoldShape, Without
    <3>3. Disputed(items, n + 1, e.key)
      BY <2>1, <2>4 DEF FoldInv, FoldAgrees, Disputed, Disagrees
    <3>4. FoldAgrees(items, n + 1, new)
      BY <2>1, <3>2, <3>3 DEF FoldInv, FoldAgrees, Disputed
    <3>5. FoldReports(items, n + 1, new)
      BY <3>2, <2>2, <1>2 DEF FoldInv, FoldReports, e, empty
    <3> QED
      BY <3>2, <3>4, <3>5 DEF FoldInv, new, e, empty
  <2>5. CASE e.key \notin st.conflicted /\ ~Disagrees(st, e.key, set)
    <3> DEFINE grown == With(st.sets, e.key, set)
    <3>0. new = Keep(st, e.key, set)
      BY <2>5, <1>5 DEF Define, Refused, set
    <3>1. new = [sets |-> grown, conflicted |-> st.conflicted,
                 rejected |-> st.rejected, errs |-> st.errs]
      BY <3>0 DEF Keep, FoldInv, FoldShape
    <3> HIDE DEF new
    <3>2. /\ grown = [k \in DOMAIN grown |-> grown[k]]
          /\ DOMAIN grown = DOMAIN st.sets \cup {e.key}
          /\ \A k \in DOMAIN st.sets \ {e.key} : grown[k] = st.sets[k]
          /\ grown[e.key] = set
      BY DEF With
    <3> HIDE DEF grown
    <3>3. new.sets = grown /\ new.conflicted = st.conflicted
          /\ new.rejected = st.rejected /\ new.errs = st.errs
      BY <3>1
    <3>4. st.errs \in Nat
      BY DEF FoldInv, FoldShape
    <3>5. /\ FoldShape(new)
          /\ DOMAIN new.sets = DOMAIN st.sets \cup {e.key}
          /\ \A k \in DOMAIN st.sets \ {e.key} : new.sets[k] = st.sets[k]
          /\ new.sets[e.key] = set
          /\ new.conflicted = st.conflicted
          /\ new.rejected = st.rejected
          /\ new.errs = st.errs
      BY <3>1, <3>2, <3>3, <3>4 DEF FoldShape
    <3>6. ~Disputed(items, n + 1, e.key)
      BY <2>1, <2>5 DEF FoldInv, FoldAgrees, Disputed, Disagrees
    <3>7. FoldAgrees(items, n + 1, new)
      BY <2>1, <2>5, <3>5, <3>6 DEF FoldInv, FoldAgrees, Disputed
    <3>8. FoldReports(items, n + 1, new)
      BY <3>5, <2>2, <1>2, <1>5 DEF FoldInv, FoldReports, e, empty
    <3> QED
      BY <3>5, <3>7, <3>8 DEF FoldInv, new, e, empty
  <2> QED
    BY <2>3, <2>4, <2>5
<1> QED
  BY <1>4, <1>5

\* The invariant holds after every number of endpoints.
LEMMA FoldInvariant ==
    ASSUME NEW E, NEW items \in Seq(ItemsOf(E)), NEW n \in 0..Len(items)
    PROVE  FoldInv(items, n, FoldSteps(items)[n])
<1> DEFINE Wrong == {m \in Nat : /\ m \in 0..Len(items)
                                 /\ ~FoldInv(items, m, FoldSteps(items)[m])}
<1>1. FoldSteps(items)[0] = Nothing
  BY FoldStepsDefined
<1>2. \A m \in Nat : m + 1 \in 0..Len(items) =>
         FoldSteps(items)[m + 1] =
            Define(FoldSteps(items)[m], items[m + 1].endpoint, items[m + 1].empty)
  BY FoldStepsDefined
<1>3. FoldInv(items, 0, Nothing)
  <2>1. \A k : Accepted(items, 0, k) = {}
    BY DEF Accepted
  <2>2. FoldShape(Nothing)
    BY DEF FoldShape, Nothing
  <2> QED
    BY <2>1, <2>2 DEF FoldInv, FoldAgrees, FoldReports, Disputed, Nothing
<1>4. ASSUME NEW m \in Nat, m + 1 \in 0..Len(items),
             FoldInv(items, m, FoldSteps(items)[m])
      PROVE  FoldInv(items, m + 1, FoldSteps(items)[m + 1])
  <2>1. m + 1 \in 1..Len(items)
    BY <1>4
  <2> QED
    BY <1>2, <1>4, <2>1, DefineStep
<1>5. Wrong = {}
  <2> SUFFICES ASSUME Wrong # {}
               PROVE  FALSE
    OBVIOUS
  <2>1. PICK m \in Wrong : \A y \in Wrong : m <= y
    BY MinIsLeast
  <2>2. m \in Nat /\ m \in 0..Len(items)
    OBVIOUS
  <2>3. m # 0
    BY <1>1, <1>3
  <2>4. m - 1 \in Nat /\ m - 1 \in 0..Len(items) /\ m - 1 \notin Wrong
    <3> HIDE DEF Wrong
    <3> QED
      BY <2>1, <2>2, <2>3
  <2>5. FoldInv(items, m - 1, FoldSteps(items)[m - 1])
    BY <2>4
  <2>6. (m - 1) + 1 = m
    BY <2>2
  <2> QED
    BY <1>4, <2>2, <2>4, <2>5, <2>6
<1> QED
  BY <1>5

LEMMA FoldAllInvariant ==
    ASSUME NEW E, NEW items \in Seq(ItemsOf(E))
    PROVE  FoldInv(items, Len(items), FoldAll(items))
BY FoldInvariant DEF FoldAll

LEMMA AcceptedAll ==
    ASSUME NEW items, NEW k
    PROVE  Definitions(items, k) = Accepted(items, Len(items), k)
BY DEF Definitions, Accepted

-----------------------------------------------------------------------------
(* What the fold computes                                                  *)

\* foldChanges keeps a key exactly when the plan's acceptable definitions of
\* it agree, with the definition they agree on: for plans of any length, in
\* any order, over any names and targets.
THEOREM FoldIsOrderFree ==
    \A E : \A items \in Seq(ItemsOf(E)) : Agrees(items)
<1> SUFFICES ASSUME NEW E, NEW items \in Seq(ItemsOf(E))
             PROVE  Agrees(items)
  OBVIOUS
<1> DEFINE st == FoldAll(items)
<1>1. FoldShape(st) /\ FoldAgrees(items, Len(items), st)
  BY FoldAllInvariant DEF FoldInv
<1> HIDE DEF st
<1>2. ASSUME NEW k
      PROVE  Definitions(items, k) # {} => k \in PlannedKeys(items)
  BY DEF Definitions, PlannedKeys
<1>3. ASSUME NEW k
      PROVE  k \in DOMAIN st.sets <=>
                \E d \in Definitions(items, k) : Definitions(items, k) = {d}
  BY <1>1, AcceptedAll DEF FoldAgrees, Disputed
<1>4. DOMAIN st.sets = DOMAIN Agreed(items)
  BY <1>2, <1>3 DEF Agreed
<1>5. ASSUME NEW k \in DOMAIN st.sets
      PROVE  st.sets[k] = CHOOSE d \in Definitions(items, k) : TRUE
  <2>1. st.sets[k] \in Definitions(items, k)
    BY <1>1, AcceptedAll DEF FoldAgrees
  <2> QED
    BY <2>1, <1>3
<1>6. st.sets = Agreed(items)
  BY <1>1, <1>4, <1>5 DEF FoldShape, Agreed
<1> QED
  BY <1>6 DEF Agrees, st

\* Every key of a plan that foldChanges does not keep leaves an error, so the
\* apply fails and external-dns plans again.
THEOREM FoldReportsDrops ==
    \A E : \A items \in Seq(ItemsOf(E)) : Reported(items)
<1> SUFFICES ASSUME NEW E, NEW items \in Seq(ItemsOf(E)),
                    NEW k \in PlannedKeys(items),
                    k \notin DOMAIN FoldAll(items).sets
             PROVE  FoldAll(items).errs > 0
  BY DEF Reported
<1>1. FoldInv(items, Len(items), FoldAll(items))
  BY FoldAllInvariant
<1>2. CASE k \in FoldAll(items).conflicted
  BY <1>1, <1>2 DEF FoldInv, FoldReports
<1>3. CASE k \notin FoldAll(items).conflicted
  <2>1. Accepted(items, Len(items), k) = {}
    BY <1>1, <1>3 DEF FoldInv, FoldAgrees
  <2>2. PICK j \in 1..Len(items) : items[j].endpoint.key = k
    BY DEF PlannedKeys
  <2>3. Refused(items[j].endpoint, items[j].empty)
    BY <2>1, <2>2 DEF Accepted
  <2> QED
    BY <2>3, <1>1 DEF FoldInv, FoldReports
<1> QED
  BY <1>2, <1>3

\* A registry key with an invalid target is counted against the TXT phase or
\* has been dropped for a disagreement, whether or not another definition of
\* it was acceptable.
THEOREM FoldCountsInvalidTXT ==
    \A E : \A items \in Seq(ItemsOf(E)) : Counted(items)
BY FoldAllInvariant DEF Counted, FoldInv, FoldReports
=============================================================================
