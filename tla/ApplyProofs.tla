----------------------------- MODULE ApplyProofs -----------------------------
(***************************************************************************)
(* Proofs about Apply: whatever calls are refused, lost or unanswered, the *)
(* table keeps the invariants I1, I2 and I3 of the design, and a run that  *)
(* reports success has done what the plan asked for.                       *)
(***************************************************************************)
EXTENDS Apply, FoldChangesProofs, SequenceTheorems

\* The key of a uuid that the snapshot or the table holds a row for.
KeyAt(u) == IF snap[u] # NoRow THEN snap[u].key ELSE saved[u].key

\* The phase that writes, respectively removes, the rows of k is over.
Added(k)   == IF isTXT(k) THEN phase > TXTAdd ELSE phase > DataAdd
Removed(k) == IF isTXT(k) THEN phase > TXTRemove ELSE phase > DataRemove

\* The keys a phase may write for.
Touched(ph) == {k \in Selected(ph) : Adding(ph) => Desired(k) # {}}

\* A uuid belongs to one key, whatever became of the calls that name it.
OneKey ==
    \A u \in UUIDs : saved[u] # NoRow /\ snap[u] # NoRow =>
        saved[u].key = snap[u].key

\* Where table and snapshot differ, the key is marked, or the snapshot holds
\* a row as the plan wants it that was never saved, or lacks a row that the
\* plan does not want and that was not deleted.
Explained(u, k) ==
    \/ k \in failed
    \/ /\ snap[u] # NoRow
       /\ snap[u].target \in Desired(k) /\ snap[u].ttl = sets[k].ttl
       /\ saved[u] # NoRow /\ saved[u].target \in Desired(k) =>
             saved[u].target = snap[u].target
    \/ snap[u] = NoRow /\ saved[u].target \notin Desired(k)

DifferencesExplained ==
    \A u \in UUIDs : saved[u] # snap[u] =>
        \E k \in Keys : KeyAt(u) = k /\ Explained(u, k)

\* A row is created only when no unwanted row is left to take over.
CreatedLast ==
    \A u \in UUIDs, k \in Keys :
        snap[u] # NoRow /\ snap[u].key = k /\ saved[u] = NoRow =>
            k \in failed \/ Surplus(k) = {}

\* What an add phase leaves undone is marked.
AddedOrMarked ==
    \A k \in Keys : /\ Added(k) /\ k \notin failed => Missing(k) = {}
                    /\ ~Added(k) /\ k \in failed => k \in stopped

\* What belongs to the phase now running.
PhaseLocal ==
    /\ stopped \subseteq Touched(phase)
    /\ \A w \in writes : w.key \in Touched(phase)
    /\ phase = 5 \/ Gated(phase) => stopped = {} /\ writes = {}
    /\ \A ph \in failures : ph < phase \/ ph = TXTAdd

\* A difference is on record: as a failed key, as an acknowledged write that
\* reads back otherwise, or as a failure of a phase.
Recorded(u, k) ==
    \/ k \in stopped
    \/ \E w \in LostWrites : w.uuid = u /\ w.key = k
    \/ \E ph \in failures : k \in Touched(ph)

DifferencesRecorded ==
    \A u \in UUIDs : saved[u] # snap[u] =>
        blind \/ \E k \in Keys : KeyAt(u) = k /\ Recorded(u, k)

\* The snapshot holds every target wanted of k, with the TTL wanted.
Settled(k) ==
    \A t \in Desired(k) : \E u \in Rows(snap, k) :
        snap[u].target = t /\ snap[u].ttl = sets[k].ttl

\* Nothing was marked, what had to be written is there as the plan wants it,
\* and what had to go is gone.
Clean ==
    /\ failed = {} /\ failures = {}
    /\ \A k \in Keys : /\ Added(k) => Settled(k)
                       /\ Removed(k) => Surplus(k) = {}

RunInv ==
    phase # 0 => /\ OneKey /\ DifferencesExplained /\ CreatedLast
                 /\ AddedOrMarked /\ PhaseLocal

RecordInv == phase # 0 => DifferencesRecorded

ErrInv == phase # 0 => errs \/ Clean

\* Registry rows stand while data rows may be written, and the data rows of a
\* deleted name are gone before its registry row is.
RegistryInv ==
    phase # 0 /\ ~blind =>
        /\ plan.rejected # {} => TXTAdd \in failures
        /\ phase > TXTAdd /\ TXTAdd \notin failures =>
              \A k \in Keys : isTXT(k) /\ Desired(k) # {} => Rows(saved, k) # {}
        /\ phase > DataRemove /\ DataRemove \notin failures =>
              \A k \in Keys : isData(k) /\ Desired(k) = {} => Rows(saved, k) = {}

\* What foldChanges makes of any plan, and of a plan of the registry.
FoldTyped(f) ==
    /\ FoldShape(f)
    /\ DOMAIN f.sets \subseteq RowKeys
    /\ \A k \in DOMAIN f.sets : f.sets[k] \in [targets : SUBSET Nat, ttl : Nat]
    /\ f.rejected # {} => f.errs > 0

FoldRegistered(f) ==
    \A k \in DOMAIN f.sets :
        /\ isData(k) /\ f.sets[k].targets # {} =>
              \/ f.rejected # {}
              \/ /\ <<NameOf(k), "TXT">> \in DOMAIN f.sets
                 /\ f.sets[<<NameOf(k), "TXT">>].targets # {}
        /\ isTXT(k) /\ f.sets[k].targets = {} =>
              /\ <<NameOf(k), "A">> \in DOMAIN f.sets
              /\ f.sets[<<NameOf(k), "A">>].targets = {}

PlanTyped == FoldTyped(plan)
PlanRegistered == FoldRegistered(plan)

-----------------------------------------------------------------------------
(* What the apply takes from foldChanges                                   *)

LEMMA OrderedItems ==
    ASSUME NEW p \in AllPlans
    PROVE  Ordered(p) \in Seq(ItemsOf(Endpoints))
<1> DEFINE Listed(s, empty) ==
              [i \in 1..Len(s) |-> [endpoint |-> s[i], empty |-> empty]]
<1>1. ASSUME NEW s \in Seq(Endpoints), NEW empty \in BOOLEAN
      PROVE  Listed(s, empty) \in Seq(ItemsOf(Endpoints))
  <2>1. \A i \in 1..Len(s) : Listed(s, empty)[i] \in ItemsOf(Endpoints)
    BY DEF ItemsOf
  <2>2. Len(s) \in Nat
    OBVIOUS
  <2>3. Listed(s, empty) \in [1..Len(s) -> ItemsOf(Endpoints)]
    BY <2>1
  <2> QED
    BY <2>2, <2>3, SeqDef
<1>2. /\ p.Delete \in Seq(Endpoints) /\ p.Create \in Seq(Endpoints)
      /\ p.UpdateNew \in Seq(Endpoints)
  BY DEF AllPlans
<1>3. Ordered(p) = Listed(p.Delete, TRUE) \o Listed(p.Create, FALSE)
                      \o Listed(p.UpdateNew, FALSE)
  BY DEF Ordered
<1> HIDE DEF Listed
<1>4. /\ Listed(p.Delete, TRUE) \in Seq(ItemsOf(Endpoints))
      /\ Listed(p.Create, FALSE) \in Seq(ItemsOf(Endpoints))
      /\ Listed(p.UpdateNew, FALSE) \in Seq(ItemsOf(Endpoints))
  BY <1>1, <1>2
<1>5. \A a, b \in Seq(ItemsOf(Endpoints)) : a \o b \in Seq(ItemsOf(Endpoints))
  BY ConcatProperties
<1>6. Listed(p.Delete, TRUE) \o Listed(p.Create, FALSE)
         \in Seq(ItemsOf(Endpoints))
  BY <1>4, <1>5, Zenon
<1> QED
  BY <1>3, <1>4, <1>5, <1>6, Zenon

\* What the fold of a plan holds is what an endpoint of the plan describes.
LEMMA FoldedFromItem ==
    ASSUME NEW p \in AllPlans, NEW k \in DOMAIN foldChanges(p).sets
    PROVE  \E x \in ToSet(Ordered(p)) :
              /\ x \in ItemsOf(Endpoints)
              /\ x.endpoint.key = k /\ ~Refused(x.endpoint, x.empty)
              /\ foldChanges(p).sets[k] = desiredSet(x.endpoint, x.empty)
<1> DEFINE items == Ordered(p)
<1>1. items \in Seq(ItemsOf(Endpoints))
  BY OrderedItems
<1>2. foldChanges(p) = FoldAll(items)
  BY DEF foldChanges
<1> HIDE DEF items
<1>3. foldChanges(p).sets[k] \in Accepted(items, Len(items), k)
  BY <1>1, <1>2, FoldAllInvariant DEF FoldInv, FoldAgrees
<1>4. PICK j \in 1..Len(items) :
         /\ items[j].endpoint.key = k
         /\ ~Refused(items[j].endpoint, items[j].empty)
         /\ foldChanges(p).sets[k] = desiredSet(items[j].endpoint, items[j].empty)
  BY <1>3 DEF Accepted
<1>5. items[j] \in ToSet(items) /\ items[j] \in ItemsOf(Endpoints)
  BY <1>1 DEF ToSet
<1> QED
  BY <1>4, <1>5 DEF items

LEMMA FoldIsTyped ==
    ASSUME NEW p \in AllPlans
    PROVE  FoldTyped(foldChanges(p))
<1>1. ASSUME NEW k \in DOMAIN foldChanges(p).sets
      PROVE  /\ k \in RowKeys
             /\ foldChanges(p).sets[k] \in [targets : SUBSET Nat, ttl : Nat]
  <2>1. PICK x \in ItemsOf(Endpoints) :
           /\ x.endpoint.key = k
           /\ foldChanges(p).sets[k] = desiredSet(x.endpoint, x.empty)
    BY FoldedFromItem
  <2>2. x.endpoint \in Endpoints /\ x.empty \in BOOLEAN
    BY DEF ItemsOf
  <2>3. clampTTL(x.endpoint.ttl) \in Nat
    BY <2>2, ApplyAssumption DEF Endpoints, clampTTL
  <2> QED
    BY <2>1, <2>2, <2>3 DEF Endpoints, desiredSet
<1>2. FoldInv(Ordered(p), Len(Ordered(p)), foldChanges(p))
  BY OrderedItems, FoldAllInvariant DEF foldChanges
<1> QED
  BY <1>1, <1>2 DEF FoldTyped, FoldInv, FoldReports

\* A plan of the registry that describes nothing in two ways: what is folded
\* into a data record set has its registry row in the fold or rejected, and a
\* registry row is deleted together with its data rows.
LEMMA FoldIsRegistered ==
    ASSUME NEW p \in AllPlans, RegistryPlan(p), Undisputed(p)
    PROVE  FoldRegistered(foldChanges(p))
<1> DEFINE items == Ordered(p)
           f == foldChanges(p)
<1>1. items \in Seq(ItemsOf(Endpoints))
  BY OrderedItems
<1>2. FoldInv(items, Len(items), f)
  BY <1>1, FoldAllInvariant DEF foldChanges
<1>3. ASSUME NEW x \in ToSet(items)
      PROVE  /\ x.empty \in BOOLEAN
             /\ x.endpoint.key \in RowKeys
             /\ \E j \in 1..Len(items) : items[j] = x
  <2>1. PICK j \in 1..Len(items) : items[j] = x
    BY <1>1 DEF ToSet
  <2>2. x \in ItemsOf(Endpoints)
    BY <1>1, <2>1
  <2> QED
    BY <2>1, <2>2 DEF ItemsOf, Endpoints
<1> HIDE DEF items
\* An endpoint that no other endpoint contradicts.
<1>4. ASSUME NEW x \in ToSet(items), ~NoName(x.endpoint),
             isTXT(x.endpoint.key) \/ x.empty,
             ~x.empty => x.endpoint.targets # {}
      PROVE  \/ ~x.empty /\ f.rejected # {}
             \/ /\ x.endpoint.key \in DOMAIN f.sets
                /\ f.sets[x.endpoint.key] = desiredSet(x.endpoint, x.empty)
  <2> DEFINE k == x.endpoint.key
  <2>1. PICK j \in 1..Len(items) : items[j] = x
    BY <1>3
  <2>2. \A y \in ToSet(items) : y.endpoint.key = k =>
           desiredSet(y.endpoint, y.empty) = desiredSet(x.endpoint, x.empty)
    BY <1>4 DEF Undisputed, items
  <2>3. \A i \in 1..Len(items) : items[i] \in ToSet(items)
    BY <1>1 DEF ToSet
  <2>4. \A d \in Accepted(items, Len(items), k) :
           d = desiredSet(x.endpoint, x.empty)
    BY <2>2, <2>3 DEF Accepted
  <2>5. k \notin f.conflicted
    BY <2>4, <1>2 DEF FoldInv, FoldAgrees, Disputed
  <2>6. CASE InvalidTXT(x.endpoint, x.empty)
    BY <2>1, <2>5, <2>6, <1>2, <1>4 DEF FoldInv, FoldReports, InvalidTXT
  <2>7. CASE ~InvalidTXT(x.endpoint, x.empty)
    <3>1. ~Refused(x.endpoint, x.empty)
      BY <2>7, <1>3, <1>4
      DEF Refused, NoTargets, Unsupported, SupportedTypes, isTXT
    <3>2. Accepted(items, Len(items), k) # {}
      BY <3>1, <2>1 DEF Accepted
    <3> QED
      BY <3>2, <2>4, <2>5, <1>2 DEF FoldInv, FoldAgrees
  <2> QED
    BY <2>6, <2>7
<1> SUFFICES ASSUME NEW k \in DOMAIN f.sets
             PROVE  /\ isData(k) /\ f.sets[k].targets # {} =>
                         \/ f.rejected # {}
                         \/ /\ <<NameOf(k), "TXT">> \in DOMAIN f.sets
                            /\ f.sets[<<NameOf(k), "TXT">>].targets # {}
                    /\ isTXT(k) /\ f.sets[k].targets = {} =>
                         /\ <<NameOf(k), "A">> \in DOMAIN f.sets
                         /\ f.sets[<<NameOf(k), "A">>].targets = {}
  BY DEF FoldRegistered
<1>5. PICK x \in ToSet(items) :
         /\ x.endpoint.key = k /\ ~Refused(x.endpoint, x.empty)
         /\ f.sets[k] = desiredSet(x.endpoint, x.empty)
  BY FoldedFromItem DEF items
<1>6. k \in RowKeys /\ x.empty \in BOOLEAN /\ ~NoName(x.endpoint)
  BY <1>3, <1>5 DEF Refused
<1>7. ASSUME isData(k), f.sets[k].targets # {}, f.rejected = {}
      PROVE  /\ <<NameOf(k), "TXT">> \in DOMAIN f.sets
             /\ f.sets[<<NameOf(k), "TXT">>].targets # {}
  <2>1. ~x.empty
    BY <1>5, <1>6, <1>7 DEF desiredSet
  <2>2. PICK y \in ToSet(items) :
           ~y.empty /\ y.endpoint.key = <<NameOf(k), "TXT">>
    BY <2>1, <1>5, <1>7 DEF RegistryPlan, items
  <2>3. isTXT(y.endpoint.key) /\ ~NoName(y.endpoint)
    BY <2>2, <1>5, <1>6 DEF isTXT, TypeOf, NoName, NameOf
  <2>4. y.endpoint.targets # {}
    BY <2>2, <2>3 DEF RegistryPlan, items
  <2>5. /\ y.endpoint.key \in DOMAIN f.sets
        /\ f.sets[y.endpoint.key] = desiredSet(y.endpoint, y.empty)
    BY <1>4, <1>7, <2>3, <2>4
  <2> QED
    BY <2>2, <2>4, <2>5 DEF desiredSet
<1>8. ASSUME isTXT(k), f.sets[k].targets = {}
      PROVE  /\ <<NameOf(k), "A">> \in DOMAIN f.sets
             /\ f.sets[<<NameOf(k), "A">>].targets = {}
  <2>1. x.empty
    BY <1>5, <1>6, <1>8 DEF desiredSet, Refused, NoTargets
  <2>2. PICK y \in ToSet(items) :
           y.empty /\ y.endpoint.key = <<NameOf(k), "A">>
    BY <2>1, <1>5, <1>8 DEF RegistryPlan, items
  <2>3. ~NoName(y.endpoint)
    BY <2>2, <1>5, <1>6 DEF NoName, NameOf
  <2>4. /\ y.endpoint.key \in DOMAIN f.sets
        /\ f.sets[y.endpoint.key] = desiredSet(y.endpoint, y.empty)
    BY <1>4, <2>2, <2>3
  <2> QED
    BY <2>2, <2>4 DEF desiredSet
<1> QED
  BY <1>7, <1>8

-----------------------------------------------------------------------------
(* What a worker can ask of the firewall                                   *)

Fixes(op, k, u, row) ==
    /\ op = "update" /\ Adding(phase)
    /\ u \in Rows(snap, k)
    /\ snap[u].target \in Desired(k) /\ snap[u].ttl # sets[k].ttl
    /\ row = Row(k, snap[u].target, snap[u].child)

Reuses(op, k, u, row) ==
    /\ op = "update" /\ Adding(phase)
    /\ u \in Surplus(k)
    /\ \E t \in Missing(k) : row = Row(k, t, snap[u].child)

Creates(op, k, u, row) ==
    /\ op = "create" /\ Adding(phase)
    /\ u \in Free /\ Surplus(k) = {}
    /\ \E t \in Missing(k) : row = Row(k, t, FALSE)

Deletes(op, k, u, row) ==
    /\ op = "delete" /\ Removing(phase)
    /\ ~Kept(k) /\ u \in Surplus(k)
    /\ row = NoRow

IsWrite(op, k, u, row) ==
    /\ phase \in 1..4 /\ ~Gated(phase)
    /\ k \in Selected(phase) \ stopped
    /\ u \in UUIDs
    /\ \/ Fixes(op, k, u, row) \/ Reuses(op, k, u, row)
       \/ Creates(op, k, u, row) \/ Deletes(op, k, u, row)

TypeInv == TypeOK /\ PlanTyped

LEMMA RowsAreUUIDs ==
    ASSUME NEW t, NEW k
    PROVE  /\ Rows(t, k) \in SUBSET UUIDs
           /\ Rows(t, k) \in SUBSET Nat
           /\ \A S \in SUBSET Rows(t, k) : IsFiniteSet(S) /\ S \in SUBSET Nat
BY ApplyAssumption, FS_Subset DEF Rows

\* A step of converge is a write of one of the four kinds, or the refusal to
\* delete a row with alias children.
LEMMA ConvergeWrites ==
    ASSUME TypeInv, NEW k \in Keys, Converge(k)
    PROVE  \/ DeleteBlocked(k)
           \/ \E op, u, row : IsWrite(op, k, u, row) /\ Call(op, k, u, row)
<1>1. Desired(k) \in SUBSET Nat
  BY DEF TypeInv, TypeOK
<1>2. Active(k) => /\ phase \in 1..4 /\ ~Gated(phase)
                   /\ k \in Selected(phase) \ stopped
  BY DEF Active, Work
<1>3. CASE FixRow(k)
  <2> DEFINE t == Min(Stale(k))
             u == Holder(k, t)
             row == Row(k, t, snap[u].child)
  <2>1. Stale(k) \in SUBSET Nat /\ Stale(k) # {}
    BY <1>1, <1>3 DEF FixRow, Stale
  <2>2. t \in Stale(k)
    BY <2>1, MinIsLeast
  <2>3. {v \in Rows(snap, k) : snap[v].target = t} # {}
    BY <2>2 DEF Stale, TargetsOf
  <2>4. u \in Rows(snap, k) /\ snap[u].target = t
    BY <2>3, RowsAreUUIDs, MaxIsGreatest DEF Holder
  <2>5. Fixes("update", k, u, row)
    BY <2>2, <2>4, <1>3 DEF Fixes, Stale, FixRow
  <2>6. u \in UUIDs
    BY <2>4, RowsAreUUIDs
  <2>7. IsWrite("update", k, u, row)
    BY <1>2, <1>3, <2>5, <2>6 DEF IsWrite, FixRow
  <2> QED
    BY <2>7, <1>3 DEF FixRow
<1>4. ASSUME Missing(k) # {}
      PROVE  Min(Missing(k)) \in Missing(k)
  BY <1>1, <1>4, MinIsLeast DEF Missing
<1>5. ASSUME Surplus(k) # {}
      PROVE  Min(Surplus(k)) \in Surplus(k) /\ Min(Surplus(k)) \in UUIDs
  <2>1. Surplus(k) \in SUBSET Rows(snap, k)
    BY DEF Surplus
  <2> QED
    BY <1>5, <2>1, RowsAreUUIDs, MinIsLeast
<1>6. CASE ReuseRow(k)
  <2> DEFINE u == Min(Surplus(k))
             row == Row(k, Min(Missing(k)), snap[u].child)
  <2>1. Reuses("update", k, u, row)
    BY <1>4, <1>5, <1>6 DEF Reuses, ReuseRow
  <2>2. IsWrite("update", k, u, row)
    BY <1>2, <1>5, <1>6, <2>1 DEF IsWrite, ReuseRow
  <2> QED
    BY <2>2, <1>6 DEF ReuseRow
<1>7. CASE CreateRow(k)
  <2> DEFINE row == Row(k, Min(Missing(k)), FALSE)
  <2>1. Free \in SUBSET Nat /\ Free # {} /\ Free \subseteq UUIDs
    BY <1>7, ApplyAssumption DEF CreateRow, Free
  <2>2. Fresh \in Free
    BY <2>1, MinIsLeast DEF Fresh
  <2>3. Creates("create", k, Fresh, row)
    BY <1>4, <1>7, <2>2 DEF Creates, CreateRow
  <2>4. IsWrite("create", k, Fresh, row)
    BY <1>2, <1>7, <2>1, <2>2, <2>3 DEF IsWrite, CreateRow
  <2> QED
    BY <2>4, <1>7 DEF CreateRow
<1>8. CASE DeleteRow(k)
  <2> DEFINE u == Min(Surplus(k))
  <2>1. ~Kept(k) /\ Surplus(k) # {}
    BY <1>8 DEF DeleteRow, Active, Work, Adding, Removing,
                TXTAdd, DataAdd, DataRemove, TXTRemove
  <2>2. Deletes("delete", k, u, NoRow)
    BY <1>5, <1>8, <2>1 DEF Deletes, DeleteRow
  <2>3. IsWrite("delete", k, u, NoRow)
    BY <1>2, <1>5, <1>8, <2>1, <2>2 DEF IsWrite, DeleteRow
  <2> QED
    BY <2>3, <1>8 DEF DeleteRow
<1> QED
  BY <1>3, <1>6, <1>7, <1>8 DEF Converge

-----------------------------------------------------------------------------
(* Types                                                                   *)

USE DEF TXTAdd, DataAdd, DataRemove, TXTRemove

LEMMA WriteTyped ==
    ASSUME TypeInv, NEW op, NEW k, NEW u, NEW row, IsWrite(op, k, u, row)
    PROVE  /\ op \in {"create", "update", "delete"}
           /\ k \in Keys /\ k \notin stopped /\ u \in UUIDs
           /\ row \in HostRows \cup {NoRow}
<1>1. k \in Keys /\ k \in RowKeys /\ sets[k].ttl \in Nat /\ Desired(k) \subseteq Nat
  BY DEF IsWrite, Selected, TypeInv, TypeOK
<1>2. \A v \in UUIDs : snap[v] # NoRow => snap[v] \in HostRows
  BY DEF TypeInv, TypeOK, AllTables
<1>3. \A t \in Desired(k), c \in BOOLEAN : Row(k, t, c) \in HostRows
  BY <1>1 DEF Row, HostRows
<1>4. \A v \in Rows(snap, k) : snap[v].child \in BOOLEAN
  BY <1>2 DEF Rows, HostRows
<1>5. Missing(k) \subseteq Desired(k) /\ Surplus(k) \subseteq Rows(snap, k)
  BY DEF Missing, Surplus
<1>6. row \in HostRows \cup {NoRow}
  BY <1>3, <1>4, <1>5 DEF IsWrite, Fixes, Reuses, Creates, Deletes
<1> QED
  BY <1>1, <1>6 DEF IsWrite, Fixes, Reuses, Creates, Deletes

\* The plan of a later reconcile is the plan without some TXT deletions.
LEMMA ReplannedIsPart ==
    ASSUME PlanTyped
    PROVE  /\ FoldTyped(Replanned)
           /\ Replanned.rejected = plan.rejected /\ Replanned.errs = plan.errs
           /\ DOMAIN Replanned.sets \subseteq Keys
           /\ \A k \in DOMAIN Replanned.sets : Replanned.sets[k] = sets[k]
           /\ \A k \in Keys : isData(k) \/ Desired(k) # {} =>
                 k \in DOMAIN Replanned.sets
<1> DEFINE orphans == {k \in Keys : /\ isTXT(k) /\ Desired(k) = {}
                                    /\ Rows(saved, <<NameOf(k), "A">>) = {}}
           part == [k \in Keys \ orphans |-> sets[k]]
<1>1. CASE result = "none"
  BY <1>1 DEF Replanned, PlanTyped, sets, Keys
<1>2. CASE result # "none"
  <2>1. Replanned = [plan EXCEPT !.sets = part]
    BY <1>2 DEF Replanned
  <2>2. ASSUME NEW k \in Keys, isData(k) \/ Desired(k) # {}
        PROVE  k \notin orphans
    BY <2>2 DEF isData, isTXT
  <2> HIDE DEF orphans
  <2>3. /\ DOMAIN part = Keys \ orphans
        /\ \A k \in DOMAIN part : part[k] = sets[k]
    OBVIOUS
  <2> HIDE DEF part
  <2>4. Replanned = [sets |-> part, conflicted |-> plan.conflicted,
                     rejected |-> plan.rejected, errs |-> plan.errs]
    BY <2>1 DEF PlanTyped, FoldTyped, FoldShape
  <2>5. FoldShape(Replanned)
    BY <2>3, <2>4 DEF PlanTyped, FoldTyped, FoldShape, part
  <2> QED
    BY <2>2, <2>3, <2>4, <2>5 DEF PlanTyped, FoldTyped, sets, Keys
<1> QED
  BY <1>1, <1>2

\* A worker's call keeps the types, whatever its outcome.
LEMMA CallTyped ==
    ASSUME TypeInv, NEW op, NEW k, NEW u, NEW row,
           IsWrite(op, k, u, row), Call(op, k, u, row)
    PROVE  TypeInv'
<1>1. /\ op \in {"create", "update", "delete"}
      /\ k \in Keys /\ u \in UUIDs /\ row \in HostRows \cup {NoRow}
  BY WriteTyped
<1>2. UNCHANGED <<plan, phase, failures, expired, result, blind>>
  BY DEF Call
<1>3. PlanTyped' /\ Keys' = Keys /\ sets' = sets
  BY <1>2 DEF TypeInv, PlanTyped, Keys, sets
<1>4. wrote' \in BOOLEAN /\ pending' \in BOOLEAN
  BY DEF Call, MarkWrite, TypeInv, TypeOK
<1>5. CASE Done(op, k, u, row) \/ Lost(op, k, u, row)
  <2>1. /\ saved' \in AllTables /\ snap' \in AllTables
        /\ UNCHANGED <<stopped, failed, errs>>
        /\ writes' = writes \cup
                        {[op |-> op, key |-> k, uuid |-> u, want |-> row]}
    BY <1>1, <1>5 DEF Done, Lost, Acknowledge, TypeInv, TypeOK, AllTables
  <2>2. faults' \in 0..MaxFaults
    BY <1>5, ApplyAssumption DEF Done, Lost, Misbehave, TypeInv, TypeOK
  <2> QED
    BY <1>1, <1>2, <1>3, <1>4, <2>1, <2>2 DEF TypeInv, TypeOK, Desired
<1>6. CASE Unanswered(k, u, row) \/ Rejected(k)
  <2>1. /\ saved' \in AllTables /\ snap' = snap /\ writes' = writes
        /\ stopped' = stopped \cup {k} /\ failed' = failed \cup {k}
        /\ errs' = TRUE
    BY <1>1, <1>6 DEF Unanswered, Rejected, Fail, TypeInv, TypeOK, AllTables
  <2>2. faults' \in 0..MaxFaults
    BY <1>6, ApplyAssumption DEF Unanswered, Rejected, Misbehave, TypeInv, TypeOK
  <2> QED
    BY <1>1, <1>2, <1>3, <1>4, <2>1, <2>2 DEF TypeInv, TypeOK, Desired
<1> QED
  BY <1>5, <1>6 DEF Call

LEMMA TypeStep ==
    ASSUME TypeInv, [Next]_vars
    PROVE  TypeInv'
<1>1. CASE ApplyBegin
  <2>1. FoldTyped(Replanned) /\ plan' = Replanned
    BY <1>1, ReplannedIsPart DEF ApplyBegin, TypeInv
  <2>2. PlanTyped'
    BY <2>1 DEF PlanTyped
  <2>3. /\ Keys' \subseteq RowKeys
        /\ \A k \in Keys' : Desired(k)' \subseteq Nat /\ sets'[k].ttl \in Nat
    BY <2>2 DEF PlanTyped, FoldTyped, Keys, Desired, sets
  <2>4. saved' \in AllTables /\ snap' \in AllTables /\ phase' \in 0..5
    BY <1>1 DEF ApplyBegin, TypeInv, TypeOK
  <2>5. /\ failed' \subseteq Keys' /\ stopped' \subseteq failed'
        /\ failures' \subseteq 1..4 /\ writes' = {}
    BY <1>1 DEF ApplyBegin
  <2>6. /\ errs' \in BOOLEAN /\ wrote' = FALSE /\ expired' = FALSE
        /\ pending' \in BOOLEAN /\ blind' \in BOOLEAN
        /\ result' \in {"none", "ok", "error"} /\ faults' \in 0..MaxFaults
    BY <1>1 DEF ApplyBegin, TypeInv, TypeOK
  <2>7. TypeOK'
    BY <2>3, <2>4, <2>5, <2>6 DEF TypeOK
  <2> QED
    BY <2>2, <2>7 DEF TypeInv
<1>2. ASSUME plan' = plan, TypeOK'
      PROVE  TypeInv'
  BY <1>2 DEF TypeInv, PlanTyped
<1> USE DEF TypeOK, Keys, Desired, sets
<1>3. CASE ApplyNoSnapshot
  BY <1>2, <1>3, ApplyAssumption DEF ApplyNoSnapshot, Misbehave, TypeInv, run
<1>4. ASSUME NEW k \in Keys, Converge(k)
      PROVE  TypeInv'
  <2>1. CASE DeleteBlocked(k)
    BY <1>2, <2>1 DEF DeleteBlocked, Fail, TypeInv
  <2> QED
    BY <1>4, <2>1, ConvergeWrites, CallTyped
<1>5. CASE SkipPhase
  BY <1>2, <1>5 DEF SkipPhase, Selected, TypeInv
<1>6. CASE EndPhase
  BY <1>2, <1>6 DEF EndPhase, NextPhase, LostWrites, TypeInv
<1>7. CASE EndPhaseUnverified
  BY <1>2, <1>7, ApplyAssumption
  DEF EndPhaseUnverified, NextPhase, Misbehave, TypeInv
<1>8. CASE Deadline
  BY <1>2, <1>8, ApplyAssumption DEF Deadline, Misbehave, TypeInv
<1>9. ASSUME NEW ok \in BOOLEAN, Finish(ok)
      PROVE  TypeInv'
  BY <1>2, <1>9, ApplyAssumption DEF Finish, Misbehave, TypeInv, run
<1>10. CASE UNCHANGED vars
  BY <1>2, <1>10 DEF vars, run, TypeInv
<1> QED
  BY <1>1, <1>3, <1>4, <1>5, <1>6, <1>7, <1>8, <1>9, <1>10 DEF Next

LEMMA TypeInit == Init => TypeInv
<1> SUFFICES ASSUME Init
             PROVE  TypeInv
  OBVIOUS
<1>1. PICK p \in Plans : plan = foldChanges(p)
  BY DEF Init
<1>2. FoldTyped(plan)
  BY <1>1, FoldIsTyped, ApplyAssumption
<1>3. saved \in AllTables /\ snap \in AllTables
  BY ApplyAssumption DEF Init, AllTables
<1>4. /\ Keys \subseteq RowKeys
      /\ \A k \in Keys : Desired(k) \subseteq Nat /\ sets[k].ttl \in Nat
  BY <1>2 DEF FoldTyped, Keys, Desired, sets
<1>5. phase \in 0..5 /\ failed \subseteq Keys /\ stopped \subseteq failed
    /\ failures \subseteq 1..4
  BY DEF Init
<1>6. \A w \in writes : /\ w.op \in {"create", "update", "delete"}
                         /\ w.key \in Keys /\ w.uuid \in UUIDs
                         /\ w.want \in HostRows \cup {NoRow}
  BY DEF Init
<1>7. errs \in BOOLEAN /\ wrote \in BOOLEAN /\ expired \in BOOLEAN
    /\ pending \in BOOLEAN /\ blind \in BOOLEAN
    /\ result \in {"none", "ok", "error"}
  BY DEF Init
<1>8. faults \in 0..MaxFaults
  BY ApplyAssumption DEF Init
<1>9. TypeOK
  BY <1>3, <1>4, <1>5, <1>6, <1>7, <1>8 DEF TypeOK
<1> QED
  BY <1>2, <1>9 DEF TypeInv, PlanTyped

LEMMA TypesKept == Spec => []TypeInv
<1>1. TypeInv /\ [Next]_vars => TypeInv'
  BY TypeStep
<1> QED
  BY <1>1, TypeInit, PTL DEF Spec

\* Tables, desired sets and the bookkeeping of a run have their types in every
\* state, and a key stopped in a phase is marked as failed.
THEOREM ApplyTypeCorrect == Spec => []TypeOK
<1>1. TypeInv => TypeOK
  BY DEF TypeInv
<1> QED
  BY <1>1, TypesKept, PTL

-----------------------------------------------------------------------------
(* The invariant of a run                                                  *)

\* The four outcomes of a call, in terms of what the invariant looks at.
Outcome(op, k, u, row) ==
    /\ UNCHANGED <<plan, phase, failures, blind>>
    /\ saved' \in {saved, [saved EXCEPT ![u] = row]}
    /\ snap' \in {snap, [snap EXCEPT ![u] = row]}
    /\ \/ /\ snap' = [snap EXCEPT ![u] = row]
          /\ writes' = writes \cup
                          {[op |-> op, key |-> k, uuid |-> u, want |-> row]}
          /\ UNCHANGED <<stopped, failed, errs>>
       \/ /\ snap' = snap
          /\ Fail(k) /\ UNCHANGED writes

LEMMA CallOutcome ==
    ASSUME NEW op, NEW k, NEW u, NEW row, Call(op, k, u, row)
    PROVE  Outcome(op, k, u, row)
BY DEF Call, Done, Lost, Unanswered, Rejected, Acknowledge, Outcome

\* What a worker writes to holds a row of its key, and the table and the
\* snapshot agree about it, unless the key is a deletion that failed before.
LEMMA WriteInSync ==
    ASSUME TypeInv, RunInv, NEW op, NEW k, NEW u, NEW row,
           IsWrite(op, k, u, row)
    PROVE  /\ ~Deletes(op, k, u, row) => k \notin failed
           /\ k \in failed \/ saved[u] = snap[u]
           /\ snap[u] # NoRow => snap[u].key = k
           /\ saved[u] # NoRow => saved[u].key = k
           /\ k \in Touched(phase)
<1>1. k \in Keys /\ u \in UUIDs /\ k \notin stopped /\ phase # 0
  BY WriteTyped DEF IsWrite
<1>2. /\ OneKey /\ DifferencesExplained /\ AddedOrMarked
  BY <1>1 DEF RunInv
<1>3. ASSUME Adding(phase)
      PROVE  k \notin failed
  <2>1. ~Added(k)
    BY <1>3 DEF IsWrite, Added, Adding, Selected, isData, isTXT
  <2> QED
    BY <2>1, <1>1, <1>2 DEF AddedOrMarked
<1>4. \/ u \in Rows(snap, k) /\ (snap[u].target \in Desired(k) =>
                                  snap[u].ttl # sets[k].ttl)
      \/ snap[u] = NoRow /\ saved[u] = NoRow
  BY DEF IsWrite, Fixes, Reuses, Creates, Deletes, Surplus, Free
<1>5. snap[u] # NoRow => snap[u].key = k
  BY <1>4 DEF Rows
<1>6. saved[u] # NoRow => saved[u].key = k
  BY <1>1, <1>2, <1>4, <1>5 DEF OneKey, Rows
<1>7. k \in failed \/ saved[u] = snap[u]
  <2> SUFFICES ASSUME saved[u] # snap[u]
               PROVE  k \in failed
    OBVIOUS
  <2>1. snap[u] # NoRow /\ KeyAt(u) = k
    BY <1>4, <1>5 DEF KeyAt, Rows
  <2>2. PICK j \in Keys : KeyAt(u) = j /\ Explained(u, j)
    BY <1>1, <1>2 DEF DifferencesExplained
  <2>3. j = k
    BY <2>1, <2>2
  <2> QED
    BY <1>4, <2>1, <2>2, <2>3 DEF Explained, Rows
<1>8. k \in Touched(phase)
  <2>1. k \in Selected(phase)
    BY DEF IsWrite
  <2>2. Missing(k) \subseteq Desired(k)
    BY DEF Missing
  <2>3. Fixes(op, k, u, row) => Desired(k) # {}
    BY DEF Fixes
  <2>4. Reuses(op, k, u, row) \/ Creates(op, k, u, row) => Desired(k) # {}
    BY <2>2 DEF Reuses, Creates
  <2>5. Deletes(op, k, u, row) => ~Adding(phase)
    BY DEF Deletes, Adding, Removing
  <2> QED
    BY <2>1, <2>3, <2>4, <2>5 DEF Touched, IsWrite
<1>9. ~Deletes(op, k, u, row) => Adding(phase)
  BY DEF IsWrite, Fixes, Reuses, Creates
<1> QED
  BY <1>3, <1>5, <1>6, <1>7, <1>8, <1>9

\* Nothing a worker writes makes work for itself or for another key.
LEMMA WorkShrinks ==
    ASSUME TypeInv, RunInv, NEW op, NEW k, NEW u, NEW row,
           IsWrite(op, k, u, row), Outcome(op, k, u, row), NEW j \in Keys
    PROVE  Missing(j)' \subseteq Missing(j) /\ Surplus(j)' \subseteq Surplus(j)
<1>1. sets' = sets /\ \A i : Desired(i)' = Desired(i)
  BY DEF Outcome, sets, Desired
<1>2. CASE snap' = snap
  BY <1>1, <1>2 DEF Missing, Surplus, TargetsOf, Rows
<1>3. CASE snap' = [snap EXCEPT ![u] = row]
  <2>1. /\ u \in UUIDs /\ snap' \in [UUIDs -> HostRows \cup {NoRow}]
        /\ snap'[u] = row /\ \A v \in UUIDs : v # u => snap'[v] = snap[v]
    BY <1>3, WriteTyped DEF TypeInv, TypeOK, AllTables
  <2>2. snap[u] # NoRow => snap[u].key = k
    BY WriteInSync
  <2>3. row # NoRow => row.key = k /\ row.target \in Desired(k)
    BY DEF IsWrite, Fixes, Reuses, Creates, Deletes, Row, Missing
  <2>4. u \in Rows(snap, k) /\ snap[u].target \in Desired(k) =>
           row # NoRow /\ row.target = snap[u].target
    <3>1. CASE Fixes(op, k, u, row)
      <4>1. row # NoRow
        <5>1. Row(k, snap[u].target, snap[u].child) \in HostRows
          <6>1. /\ k \in RowKeys /\ sets[k].ttl \in Nat
                /\ snap[u] \in HostRows
            BY <3>1, WriteTyped DEF TypeInv, TypeOK, AllTables, Fixes, Rows
          <6> QED
            BY <6>1 DEF Row, HostRows
        <5> QED
          BY <5>1, <3>1, ApplyAssumption DEF Fixes
      <4> QED
        BY <3>1, <4>1 DEF Fixes, Row
    <3>2. CASE ~Fixes(op, k, u, row)
      BY <3>2 DEF IsWrite, Reuses, Creates, Deletes, Surplus, Free, Rows
    <3> QED
      BY <3>1, <3>2
  <2>5. Surplus(j)' \subseteq Surplus(j)
    BY <1>1, <2>1, <2>3 DEF Surplus, Rows
  <2>6. Desired(j) \cap TargetsOf(snap, j) \subseteq TargetsOf(snap, j)'
    BY <2>1, <2>2, <2>3, <2>4 DEF TargetsOf, Rows
  <2> QED
    BY <1>1, <2>5, <2>6 DEF Missing
<1> QED
  BY <1>2, <1>3 DEF Outcome

\* A call keeps the invariant of the run, whatever its outcome.
LEMMA CallKeepsRunInv ==
    ASSUME TypeInv, RunInv, NEW op, NEW k, NEW u, NEW row,
           IsWrite(op, k, u, row), Outcome(op, k, u, row)
    PROVE  RunInv'
<1>1. /\ k \in Keys /\ u \in UUIDs /\ row \in HostRows \cup {NoRow}
      /\ phase \in 1..4 /\ ~Gated(phase) /\ k \in Selected(phase)
  BY WriteTyped DEF IsWrite
<1>2. /\ OneKey /\ DifferencesExplained /\ CreatedLast /\ AddedOrMarked
      /\ PhaseLocal
  BY <1>1 DEF RunInv
<1>3. /\ ~Deletes(op, k, u, row) => k \notin failed
      /\ k \in failed \/ saved[u] = snap[u]
      /\ snap[u] # NoRow => snap[u].key = k
      /\ saved[u] # NoRow => saved[u].key = k
      /\ k \in Touched(phase)
  BY WriteInSync
<1>4. \A j \in Keys : Missing(j)' \subseteq Missing(j)
                      /\ Surplus(j)' \subseteq Surplus(j)
  BY WorkShrinks
<1>5. /\ phase' = phase /\ failures' = failures
      /\ sets' = sets /\ Keys' = Keys
      /\ \A j : Desired(j)' = Desired(j)
      /\ \A ph : Selected(ph)' = Selected(ph) /\ Touched(ph)' = Touched(ph)
      /\ \A ph : Gated(ph)' = Gated(ph)
      /\ \A j : Added(j)' = Added(j)
  BY DEF Outcome, sets, Keys, Desired, Selected, Touched, Gated, Added
<1>6. /\ saved \in [UUIDs -> HostRows \cup {NoRow}]
      /\ snap \in [UUIDs -> HostRows \cup {NoRow}]
  BY DEF TypeInv, TypeOK, AllTables
<1>7. /\ \A v \in UUIDs : v # u => saved'[v] = saved[v] /\ snap'[v] = snap[v]
      /\ saved'[u] \in {saved[u], row}
      /\ \/ snap'[u] = row /\ stopped' = stopped /\ failed' = failed
         \/ /\ snap'[u] = snap[u]
            /\ stopped' = stopped \cup {k} /\ failed' = failed \cup {k}
      /\ writes' = writes \/ \E w : w.key = k /\ writes' = writes \cup {w}
  BY <1>1, <1>6 DEF Outcome, Fail
<1>8. row # NoRow => row.key = k /\ row.target \in Desired(k)
                     /\ row.ttl = sets[k].ttl
  BY DEF IsWrite, Fixes, Reuses, Creates, Deletes, Row, Missing
<1>9. OneKey'
  BY <1>2, <1>3, <1>7, <1>8 DEF OneKey
<1>10. DifferencesExplained'
  <2> SUFFICES ASSUME NEW v \in UUIDs, saved'[v] # snap'[v]
               PROVE  \E i \in Keys : KeyAt(v)' = i /\ Explained(v, i)'
    BY <1>5 DEF DifferencesExplained
  <2>1. CASE v # u
    <3>1. saved[v] # snap[v] /\ KeyAt(v)' = KeyAt(v)
      BY <1>7, <2>1 DEF KeyAt
    <3>2. PICK i \in Keys : KeyAt(v) = i /\ Explained(v, i)
      BY <3>1, <1>2 DEF DifferencesExplained
    <3>3. failed \subseteq failed'
      BY <1>7
    <3> QED
      BY <1>5, <1>7, <2>1, <3>1, <3>2, <3>3 DEF Explained
  <2>2. CASE v = u
    <3>1. KeyAt(v)' = k
      BY <1>3, <1>7, <1>8, <2>2 DEF KeyAt
    <3>2. CASE k \in failed'
      BY <1>1, <3>1, <3>2 DEF Explained
    <3>3. CASE k \notin failed'
      <4>1. snap'[u] = row /\ saved'[u] = saved[u] /\ saved[u] = snap[u]
        BY <1>3, <1>7, <2>2, <3>3
      <4>2. CASE row = NoRow
        <5>1. Deletes(op, k, u, row)
          <6>1. \A t \in Desired(k), c \in BOOLEAN : Row(k, t, c) \in HostRows
            BY <1>1 DEF Row, HostRows, TypeInv, TypeOK
          <6>2. \A w \in Rows(snap, k) : snap[w].child \in BOOLEAN
            BY <1>6 DEF Rows, HostRows
          <6> QED
            BY <4>2, <6>1, <6>2, ApplyAssumption
            DEF IsWrite, Fixes, Reuses, Creates, Missing, Surplus
        <5>2. snap[u].target \notin Desired(k)
          BY <5>1 DEF Deletes, Surplus
        <5> QED
          BY <1>1, <1>5, <2>2, <3>1, <4>1, <4>2, <5>2 DEF Explained
      <4>3. CASE row # NoRow
        <5>1. snap[u] # NoRow /\ snap[u].target \in Desired(k) =>
                 row.target = snap[u].target
          BY <4>3 DEF IsWrite, Fixes, Reuses, Creates, Deletes, Surplus, Free,
                      Row
        <5> QED
          BY <1>1, <1>5, <1>8, <2>2, <3>1, <4>1, <4>3, <5>1 DEF Explained
      <4> QED
        BY <4>2, <4>3
    <3> QED
      BY <3>2, <3>3
  <2> QED
    BY <2>1, <2>2
<1>11. CreatedLast'
  <2> SUFFICES ASSUME NEW v \in UUIDs, NEW i \in Keys, snap'[v] # NoRow,
                      snap'[v].key = i, saved'[v] = NoRow
               PROVE  i \in failed' \/ Surplus(i)' = {}
    BY <1>5 DEF CreatedLast
  <2>1. CASE v # u
    <3>1. i \in failed \/ Surplus(i) = {}
      BY <1>2, <1>7, <2>1 DEF CreatedLast
    <3> QED
      BY <1>4, <1>7, <3>1
  <2>2. CASE v = u
    <3>1. i = k
      BY <1>3, <1>7, <1>8, <2>2
    <3>2. CASE k \notin failed'
      <4>1. snap'[u] = row /\ saved[u] = NoRow /\ snap[u] = NoRow
        BY <1>3, <1>7, <2>2, <3>2
      <4>2. Surplus(k) = {}
        BY <4>1, <2>2 DEF IsWrite, Fixes, Reuses, Creates, Deletes, Surplus, Rows
      <4> QED
        BY <1>4, <3>1, <4>2
    <3> QED
      BY <3>1, <3>2
  <2> QED
    BY <2>1, <2>2
<1>12. AddedOrMarked'
  BY <1>2, <1>4, <1>5, <1>7 DEF AddedOrMarked
<1>13. PhaseLocal'
  BY <1>1, <1>2, <1>3, <1>5, <1>7 DEF PhaseLocal
<1> QED
  BY <1>9, <1>10, <1>11, <1>12, <1>13 DEF RunInv

\* What a step that writes nothing leaves as it is.
Quiet == UNCHANGED <<saved, snap, plan>>

LEMMA QuietStep ==
    ASSUME Quiet, OneKey, DifferencesExplained, CreatedLast,
           failed \subseteq failed'
    PROVE  OneKey' /\ DifferencesExplained' /\ CreatedLast'
<1>1. OneKey'
  BY DEF Quiet, OneKey
<1>2. DifferencesExplained'
  BY DEF Quiet, DifferencesExplained, KeyAt, Explained, Keys, Desired, sets
<1>3. CreatedLast'
  BY DEF Quiet, CreatedLast, Surplus, Rows, Keys, Desired, sets
<1> QED
  BY <1>1, <1>2, <1>3

LEMMA QuietKeeps ==
    ASSUME Quiet
    PROVE  /\ sets' = sets /\ Keys' = Keys
           /\ \A j : Desired(j)' = Desired(j)
           /\ \A j : Missing(j)' = Missing(j) /\ Surplus(j)' = Surplus(j)
           /\ \A ph : Selected(ph)' = Selected(ph) /\ Touched(ph)' = Touched(ph)
<1>1. sets' = sets /\ Keys' = Keys /\ \A j : Desired(j)' = Desired(j)
  BY DEF Quiet, Keys, Desired, sets
<1>2. \A ph : Selected(ph)' = Selected(ph)
  BY <1>1 DEF Selected
<1>3. \A ph : Touched(ph)' = Touched(ph)
  BY <1>1, <1>2 DEF Touched
<1>4. \A j : Missing(j)' = Missing(j) /\ Surplus(j)' = Surplus(j)
  BY <1>1 DEF Quiet, Missing, Surplus, TargetsOf, Rows
<1> QED
  BY <1>1, <1>2, <1>3, <1>4

LEMMA BlockedKeepsRunInv ==
    ASSUME TypeInv, RunInv, NEW k \in Keys, DeleteBlocked(k)
    PROVE  RunInv'
<1>1. /\ Quiet /\ phase' = phase /\ failures' = failures /\ writes' = writes
      /\ stopped' = stopped \cup {k} /\ failed' = failed \cup {k}
  BY DEF DeleteBlocked, Quiet, Fail
<1>2. /\ phase \in 1..4 /\ ~Gated(phase) /\ k \in Selected(phase)
      /\ Removing(phase)
  BY DEF DeleteBlocked, Active, Work
<1>3. /\ OneKey /\ DifferencesExplained /\ CreatedLast /\ AddedOrMarked
      /\ PhaseLocal
  BY <1>2 DEF RunInv
<1>4. k \in Touched(phase)
  BY <1>2 DEF Touched, Adding, Removing
<1>5. OneKey' /\ DifferencesExplained' /\ CreatedLast'
  BY <1>1, <1>3, QuietStep
<1>6. AddedOrMarked'
  BY <1>1, <1>3, QuietKeeps DEF AddedOrMarked, Added
<1>7. PhaseLocal'
  BY <1>1, <1>2, <1>3, <1>4, QuietKeeps DEF PhaseLocal, Gated
<1> QED
  BY <1>5, <1>6, <1>7 DEF RunInv

\* A snapshot that is the table explains itself.
LEMMA BeginMakesRunInv ==
    ASSUME TypeInv, ApplyBegin
    PROVE  RunInv'
<1>1. /\ snap' = saved /\ saved' = saved /\ phase' = TXTAdd
      /\ stopped' = {} /\ failed' = {} /\ writes' = {}
      /\ failures' \subseteq {TXTAdd}
  BY DEF ApplyBegin
<1>2. OneKey' /\ DifferencesExplained' /\ CreatedLast'
  BY <1>1 DEF OneKey, DifferencesExplained, CreatedLast
<1>3. AddedOrMarked'
  BY <1>1 DEF AddedOrMarked, Added
<1>4. PhaseLocal'
  BY <1>1 DEF PhaseLocal
<1> QED
  BY <1>2, <1>3, <1>4 DEF RunInv

LEMMA SkipKeepsRunInv ==
    ASSUME TypeInv, RunInv, SkipPhase
    PROVE  RunInv'
<1>1. /\ Quiet /\ phase' = phase + 1 /\ phase \in 1..4
      /\ Gated(phase) /\ failures' = failures
      /\ stopped' = stopped /\ writes' = writes
      /\ failed' = failed \cup {k \in Selected(phase) : Desired(k) # {}}
  BY DEF SkipPhase, Quiet
<1>2. /\ OneKey /\ DifferencesExplained /\ CreatedLast /\ AddedOrMarked
      /\ PhaseLocal
  BY <1>1 DEF RunInv
<1>3. stopped' = {} /\ writes' = {}
  BY <1>1, <1>2 DEF PhaseLocal
<1>4. OneKey' /\ DifferencesExplained' /\ CreatedLast'
  BY <1>1, <1>2, QuietStep
<1>5. AddedOrMarked'
  <2> SUFFICES ASSUME NEW k \in Keys
               PROVE  /\ Added(k)' /\ k \notin failed' => Missing(k) = {}
                      /\ ~Added(k)' /\ k \in failed' => k \in stopped'
    BY <1>1, QuietKeeps DEF AddedOrMarked
  <2>1. ASSUME Added(k)', k \notin failed'
        PROVE  Missing(k) = {}
    <3>1. CASE Added(k)
      BY <1>1, <1>2, <2>1, <3>1 DEF AddedOrMarked
    <3>2. CASE ~Added(k)
      <4>1. k \in Selected(phase)
        BY <1>1, <2>1, <3>2 DEF Added, Selected, Gated, isData, isTXT
      <4> QED
        BY <1>1, <2>1, <4>1 DEF Missing
    <3> QED
      BY <3>1, <3>2
  <2>2. ASSUME ~Added(k)', k \in failed'
        PROVE  FALSE
    <3>1. ~Added(k) /\ k \notin Selected(phase)
      BY <1>1, <2>2 DEF Added, Selected, Gated, isData, isTXT
    <3> QED
      BY <1>1, <1>2, <1>3, <2>2, <3>1 DEF AddedOrMarked
  <2> QED
    BY <2>1, <2>2
<1>6. PhaseLocal'
  <2>1. failures \subseteq 1..4
    BY DEF TypeInv, TypeOK
  <2>2. \A ph \in failures' : ph < phase' \/ ph = TXTAdd
    BY <1>1, <1>2, <2>1 DEF PhaseLocal
  <2> QED
    BY <1>3, <2>2 DEF PhaseLocal
<1> QED
  BY <1>4, <1>5, <1>6 DEF RunInv

\* A phase that has drained has nothing missing but what it marked.
LEMMA NextPhaseKeepsRunInv ==
    ASSUME TypeInv, RunInv, phase \in 1..4, ~Gated(phase), Drained,
           NEW lost \in SUBSET writes, NextPhase(lost)
    PROVE  RunInv'
<1>1. /\ Quiet /\ phase' = phase + 1
      /\ failures \subseteq failures' /\ failures' \subseteq failures \cup {phase}
      /\ stopped' = {} /\ writes' = {}
      /\ failed' = failed \cup {w.key : w \in lost}
  BY DEF NextPhase, Quiet
<1>2. /\ OneKey /\ DifferencesExplained /\ CreatedLast /\ AddedOrMarked
      /\ PhaseLocal
  BY DEF RunInv
<1>3. OneKey' /\ DifferencesExplained' /\ CreatedLast'
  BY <1>1, <1>2, QuietStep
<1>4. AddedOrMarked'
  <2> SUFFICES ASSUME NEW k \in Keys
               PROVE  /\ Added(k)' /\ k \notin failed' => Missing(k) = {}
                      /\ ~Added(k)' => k \notin failed'
    BY <1>1, QuietKeeps DEF AddedOrMarked
  <2>1. ASSUME Added(k)', k \notin failed'
        PROVE  Missing(k) = {}
    <3>1. CASE Added(k)
      BY <1>1, <1>2, <2>1, <3>1 DEF AddedOrMarked
    <3>2. CASE ~Added(k)
      <4>1. k \in Selected(phase) /\ Adding(phase)
        BY <1>1, <2>1, <3>2 DEF Added, Selected, Adding, isData, isTXT
      <4>2. k \notin stopped
        BY <1>1, <2>1 DEF TypeInv, TypeOK
      <4> QED
        BY <4>1, <4>2 DEF Drained, Work
    <3> QED
      BY <3>1, <3>2
  <2>2. ASSUME ~Added(k)'
        PROVE  k \notin failed'
    <3>1. ~Added(k) /\ k \notin Selected(phase)
      BY <1>1, <2>2 DEF Added, Selected, isData, isTXT
    <3>2. k \notin stopped /\ \A w \in writes : w.key # k
      BY <3>1, <1>2 DEF PhaseLocal, Touched
    <3> QED
      BY <1>1, <1>2, <3>1, <3>2 DEF AddedOrMarked
  <2> QED
    BY <2>1, <2>2
<1>5. PhaseLocal'
  <2>1. failures \subseteq 1..4
    BY DEF TypeInv, TypeOK
  <2>2. ASSUME NEW ph \in failures'
        PROVE  ph < phase' \/ ph = TXTAdd
    <3>1. failures' \subseteq failures \cup {phase} /\ phase' = phase + 1
      BY <1>1
    <3>2. CASE ph = phase
      BY <3>1, <3>2
    <3>3. CASE ph \in failures
      <4>1. ph \in 1..4 /\ (ph < phase \/ ph = TXTAdd)
        BY <1>2, <2>1, <3>3 DEF PhaseLocal
      <4> QED
        BY <3>1, <4>1
    <3> QED
      BY <3>1, <3>2, <3>3
  <2> QED
    BY <1>1, <2>2 DEF PhaseLocal
<1> QED
  BY <1>3, <1>4, <1>5 DEF RunInv

LEMMA RunStep ==
    ASSUME TypeInv, RunInv, [Next]_vars
    PROVE  RunInv'
<1>1. CASE ApplyBegin
  BY <1>1, BeginMakesRunInv
<1>2. CASE phase' = 0
  BY <1>2 DEF RunInv
<1>3. ASSUME Quiet, phase' = phase,
             UNCHANGED <<stopped, failed, failures, writes>>
      PROVE  RunInv'
  <2>1. CASE phase # 0
    <3>1. /\ OneKey /\ DifferencesExplained /\ CreatedLast /\ AddedOrMarked
          /\ PhaseLocal
      BY <2>1 DEF RunInv
    <3>2. OneKey' /\ DifferencesExplained' /\ CreatedLast'
      BY <1>3, <3>1, QuietStep
    <3>3. AddedOrMarked'
      BY <1>3, <3>1, QuietKeeps DEF AddedOrMarked, Added
    <3>4. PhaseLocal'
      BY <1>3, <3>1, QuietKeeps DEF PhaseLocal, Gated
    <3> QED
      BY <3>2, <3>3, <3>4 DEF RunInv
  <2> QED
    BY <1>2, <1>3, <2>1
<1>4. CASE ApplyNoSnapshot
  BY <1>3, <1>4 DEF ApplyNoSnapshot, Quiet, run
<1>5. ASSUME NEW k \in Keys, Converge(k)
      PROVE  RunInv'
  <2>1. CASE DeleteBlocked(k)
    BY <2>1, BlockedKeepsRunInv
  <2>2. ASSUME NEW op, NEW u, NEW row, IsWrite(op, k, u, row),
               Call(op, k, u, row)
        PROVE  RunInv'
    BY <2>2, CallOutcome, CallKeepsRunInv
  <2> QED
    BY <1>5, <2>1, <2>2, ConvergeWrites
<1>6. CASE SkipPhase
  BY <1>6, SkipKeepsRunInv
<1>7. CASE EndPhase
  BY <1>7, NextPhaseKeepsRunInv DEF EndPhase, LostWrites
<1>8. CASE EndPhaseUnverified
  BY <1>8, NextPhaseKeepsRunInv DEF EndPhaseUnverified
<1>9. CASE Deadline
  BY <1>3, <1>9 DEF Deadline, Quiet
<1>10. ASSUME NEW ok \in BOOLEAN, Finish(ok)
       PROVE  RunInv'
  BY <1>2, <1>10 DEF Finish
<1>11. CASE UNCHANGED vars
  BY <1>3, <1>11 DEF vars, run, Quiet
<1> QED
  BY <1>1, <1>4, <1>5, <1>6, <1>7, <1>8, <1>9, <1>10, <1>11 DEF Next

LEMMA RunsKept == Spec => [](TypeInv /\ RunInv)
<1>1. Init => RunInv
  BY DEF Init, RunInv
<1>2. TypeInv /\ RunInv /\ [Next]_vars => RunInv'
  BY RunStep
<1> QED
  BY <1>1, <1>2, TypesKept, PTL DEF Spec
-----------------------------------------------------------------------------
(* What a step does to the table                                           *)

\* A worker writes to one row, of its own key.
LEMMA SavedChange ==
    ASSUME TypeInv, RunInv, [Next]_vars, saved' # saved
    PROVE  \E op, k, u, row :
              /\ IsWrite(op, k, u, row)
              /\ Outcome(op, k, u, row)
              /\ saved' = [saved EXCEPT ![u] = row]
<1>1. PICK k \in Keys : Converge(k)
  BY DEF Next, ApplyBegin, ApplyNoSnapshot, SkipPhase, EndPhase,
         EndPhaseUnverified, NextPhase, Deadline, Finish, vars
<1>2. ~DeleteBlocked(k)
  BY DEF DeleteBlocked
<1>3. PICK op, u, row : IsWrite(op, k, u, row) /\ Call(op, k, u, row)
  BY <1>1, <1>2, ConvergeWrites
<1>4. Outcome(op, k, u, row)
  BY <1>3, CallOutcome
<1> QED
  BY <1>3, <1>4 DEF Outcome

\* What is written is a row of the key, with a wanted target that the row had
\* before or that was missing, unless it deletes an unwanted row.
LEMMA RowWritten ==
    ASSUME TypeInv, RunInv, NEW op, NEW k, NEW u, NEW row,
           IsWrite(op, k, u, row), ~Deletes(op, k, u, row)
    PROVE  /\ row # NoRow /\ row.key = k /\ row.target \in Desired(k)
           /\ row.ttl = sets[k].ttl
           /\ \/ Fixes(op, k, u, row) /\ row.target = snap[u].target
              \/ row.target \in Missing(k) /\ u \in Surplus(k)
              \/ row.target \in Missing(k) /\ snap[u] = NoRow
<1>1. k \in Keys /\ u \in UUIDs /\ k \in RowKeys
  BY WriteTyped DEF TypeInv, TypeOK
<1>2. Desired(k) \subseteq Nat /\ sets[k].ttl \in Nat
      /\ snap \in [UUIDs -> HostRows \cup {NoRow}]
  BY <1>1 DEF TypeInv, TypeOK, AllTables
<1>3. \A v \in Rows(snap, k) : snap[v].child \in BOOLEAN
  BY <1>2 DEF Rows, HostRows
<1>4. \A t \in Desired(k), c \in BOOLEAN :
         Row(k, t, c) \in HostRows /\ Row(k, t, c) # NoRow
  BY <1>1, <1>2, ApplyAssumption DEF Row, HostRows
<1>5. CASE Fixes(op, k, u, row)
  <2>1. row # NoRow
    BY <1>3, <1>4, <1>5 DEF Fixes
  <2> QED
    BY <1>5, <2>1 DEF Fixes, Row
<1>6. CASE Reuses(op, k, u, row)
  <2>1. PICK t \in Missing(k) : row = Row(k, t, snap[u].child)
    BY <1>6 DEF Reuses
  <2>2. u \in Surplus(k) /\ u \in Rows(snap, k) /\ t \in Desired(k)
    BY <1>6 DEF Reuses, Surplus, Missing
  <2>3. row # NoRow
    BY <1>3, <1>4, <2>1, <2>2
  <2> QED
    BY <2>1, <2>2, <2>3 DEF Row
<1>7. CASE Creates(op, k, u, row)
  <2>1. PICK t \in Missing(k) : row = Row(k, t, FALSE)
    BY <1>7 DEF Creates
  <2>2. snap[u] = NoRow /\ t \in Desired(k)
    BY <1>7 DEF Creates, Free, Missing
  <2>3. row # NoRow
    BY <1>4, <2>1, <2>2
  <2> QED
    BY <2>1, <2>2, <2>3 DEF Row
<1> QED
  BY <1>5, <1>6, <1>7 DEF IsWrite

\* A target missing from the snapshot of an unmarked key is missing from the
\* table: whatever of it was saved unknown to the run has marked the key.
LEMMA MissingIsMissing ==
    ASSUME TypeInv, RunInv, phase # 0, NEW k \in Keys, k \notin failed,
           NEW t \in Missing(k), NEW v \in Rows(saved, k)
    PROVE  saved[v].target # t
<1> SUFFICES ASSUME saved[v].target = t
             PROVE  FALSE
  OBVIOUS
<1>1. OneKey /\ DifferencesExplained
  BY DEF RunInv
<1>2. v \in UUIDs /\ saved[v] # NoRow /\ saved[v].key = k
  BY DEF Rows
<1>3. t \in Desired(k) /\ ~(v \in Rows(snap, k) /\ snap[v].target = t)
  BY DEF Missing, TargetsOf
<1>4. saved[v] # snap[v]
  BY <1>2, <1>3 DEF Rows
<1>5. KeyAt(v) = k
  BY <1>1, <1>2 DEF KeyAt, OneKey
<1>6. Explained(v, k)
  BY <1>1, <1>2, <1>4, <1>5 DEF DifferencesExplained
<1>7. snap[v] # NoRow => v \in Rows(snap, k)
  BY <1>1, <1>2 DEF OneKey, Rows
<1> QED
  BY <1>2, <1>3, <1>6, <1>7 DEF Explained

LEMMA EmptiesNothing ==
    ASSUME TypeInv, RunInv, [Next]_vars,
           NEW j \in Keys, Desired(j) # {}
    PROVE  /\ Rows(saved, j) # {} => Rows(saved, j)' # {}
           /\ Desired(j) \cap TargetsOf(saved, j) \subseteq TargetsOf(saved, j)'
<1>1. CASE saved' = saved
  BY <1>1 DEF Rows, TargetsOf
<1>2. CASE saved' # saved
  <2>1. PICK op, k, u, row : /\ IsWrite(op, k, u, row)
                             /\ Outcome(op, k, u, row)
                             /\ saved' = [saved EXCEPT ![u] = row]
    BY <1>2, SavedChange
  <2>2. /\ k \in Keys /\ u \in UUIDs /\ phase \in 1..4
        /\ saved \in [UUIDs -> HostRows \cup {NoRow}]
    BY <2>1, WriteTyped DEF IsWrite, TypeInv, TypeOK, AllTables
  <2>3. saved'[u] = row /\ \A v \in UUIDs : v # u => saved'[v] = saved[v]
    BY <2>1, <2>2
  <2>4. /\ ~Deletes(op, k, u, row) => k \notin failed
        /\ k \in failed \/ saved[u] = snap[u]
        /\ saved[u] # NoRow => saved[u].key = k
    BY <2>1, WriteInSync
  <2>5. \A v \in Rows(saved, j) : v # u => v \in Rows(saved, j)'
    BY <2>3 DEF Rows
  <2>6. ASSUME ~(u \in Rows(saved, j) /\ saved[u].target \in Desired(j)
                    /\ ~(u \in Rows(saved, j)' /\ saved'[u].target = saved[u].target))
        PROVE  Desired(j) \cap TargetsOf(saved, j) \subseteq TargetsOf(saved, j)'
    BY <2>3, <2>5, <2>6 DEF TargetsOf, Rows
  <2>7. CASE ~Deletes(op, k, u, row)
    <3>1. /\ row # NoRow /\ row.key = k
          /\ \/ Fixes(op, k, u, row) /\ row.target = snap[u].target
             \/ u \in Surplus(k)
             \/ snap[u] = NoRow
      BY <2>1, <2>7, RowWritten
    <3>2. j = k => u \in Rows(saved, j)'
      BY <2>2, <2>3, <3>1 DEF Rows
    <3>3. j # k => u \notin Rows(saved, j)
      BY <2>4 DEF Rows
    <3>4. ASSUME u \in Rows(saved, j), saved[u].target \in Desired(j)
          PROVE  u \in Rows(saved, j)' /\ saved'[u].target = saved[u].target
      <4>1. j = k /\ saved[u] = snap[u] /\ saved[u] # NoRow
        BY <2>4, <2>7, <3>3, <3>4 DEF Rows
      <4>2. row.target = snap[u].target
        BY <3>1, <3>4, <4>1 DEF Surplus
      <4> QED
        BY <2>3, <3>2, <4>1, <4>2
    <3> QED
      BY <2>5, <2>6, <3>2, <3>3, <3>4
  <2>8. CASE Deletes(op, k, u, row)
    <3>1. CASE j # k
      <4>1. u \notin Rows(saved, j)
        BY <2>4, <3>1 DEF Rows
      <4> QED
        BY <2>5, <2>6, <4>1
    <3>2. CASE j = k
      <4>1. k \notin failed /\ u \in Surplus(k) /\ Removing(phase)
        BY <2>8, <3>2 DEF Deletes, Kept
      <4>2. saved[u] = snap[u] /\ snap[u].target \notin Desired(k)
        BY <2>4, <4>1 DEF Surplus
      <4>3. Missing(k) = {}
        <5>1. Added(k)
          BY <2>1, <4>1 DEF IsWrite, Added, Removing, Selected, isTXT, isData
        <5> QED
          BY <2>2, <4>1, <5>1 DEF RunInv, AddedOrMarked
      <4>4. PICK v \in Rows(snap, k) : snap[v].target \in Desired(k)
        BY <3>2, <4>3 DEF Missing, TargetsOf
      <4>5. v \in UUIDs /\ v # u /\ snap[v] # NoRow /\ snap[v].key = k
        BY <4>2, <4>4 DEF Rows
      <4>6. saved[v] # NoRow
        BY <2>2, <4>1, <4>5 DEF RunInv, CreatedLast
      <4>7. v \in Rows(saved, k)
        BY <2>2, <4>5, <4>6 DEF RunInv, OneKey, Rows
      <4>8. Rows(saved, j)' # {}
        BY <2>5, <3>2, <4>5, <4>7
      <4> QED
        BY <2>6, <3>2, <4>2, <4>8
    <3> QED
      BY <3>1, <3>2
  <2> QED
    BY <2>7, <2>8
<1> QED
  BY <1>1, <1>2

\* Invariant I2: no step empties a record set the plan wants to keep or takes
\* a wanted target out of the table, for any plan, table and number of
\* refused, lost and unanswered calls.
THEOREM ApplyNeverEmpties == Spec => NeverEmptied
<1>1. TypeInv /\ RunInv /\ [Next]_vars =>
         [\A k \in Keys : Desired(k) # {} =>
             /\ Rows(saved, k) # {} => Rows(saved, k)' # {}
             /\ Desired(k) \cap TargetsOf(saved, k)
                   \subseteq TargetsOf(saved, k)']_vars
  BY EmptiesNothing
<1> QED
  BY <1>1, RunsKept, PTL DEF Spec, NeverEmptied
\* A step writes a row only with a target that no other row of its record set
\* has.
LEMMA DuplicatesNothing ==
    ASSUME TypeInv, RunInv, [Next]_vars, Distinct(saved)
    PROVE  Distinct(saved)'
<1>1. CASE saved' = saved
  BY <1>1 DEF Distinct
<1>2. CASE saved' # saved
  <2>1. PICK op, k, u, row : /\ IsWrite(op, k, u, row)
                             /\ saved' = [saved EXCEPT ![u] = row]
    BY <1>2, SavedChange
  <2>2. /\ k \in Keys /\ u \in UUIDs /\ phase # 0
        /\ saved \in [UUIDs -> HostRows \cup {NoRow}]
    BY <2>1, WriteTyped DEF IsWrite, TypeInv, TypeOK, AllTables
  <2>3. saved'[u] = row /\ \A v \in UUIDs : v # u => saved'[v] = saved[v]
    BY <2>1, <2>2
  <2>4. ASSUME row # NoRow, NEW v \in UUIDs, v # u, saved[v] # NoRow,
               saved[v].key = row.key
        PROVE  saved[v].target # row.target
    <3>1. ~Deletes(op, k, u, row)
      BY <2>4 DEF Deletes
    <3>2. k \notin failed /\ saved[u] = snap[u]
      BY <2>1, <3>1, WriteInSync
    <3>3. /\ row.key = k
          /\ \/ Fixes(op, k, u, row) /\ row.target = snap[u].target
             \/ row.target \in Missing(k)
      BY <2>1, <3>1, RowWritten
    <3>4. CASE Fixes(op, k, u, row) /\ row.target = snap[u].target
      <4>1. saved[u] # NoRow /\ saved[u].key = k
        BY <3>2, <3>4 DEF Fixes, Rows
      <4> QED
        BY <2>2, <2>4, <3>2, <3>3, <3>4, <4>1 DEF Distinct
    <3>5. CASE row.target \in Missing(k)
      <4>1. v \in Rows(saved, k)
        BY <2>4, <3>3 DEF Rows
      <4> QED
        BY <2>2, <3>2, <3>5, <4>1, MissingIsMissing
    <3> QED
      BY <3>3, <3>4, <3>5
  <2> QED
    BY <2>2, <2>3, <2>4 DEF Distinct
<1> QED
  BY <1>1, <1>2

\* Invariant I3: starting from a table without duplicates, no row is ever a
\* second row for one target, however often a create that was saved and not
\* answered is repeated.
THEOREM ApplyNeverDuplicates ==
    ASSUME \A t \in Tables : Distinct(t)
    PROVE  Spec => []NoDuplicates
<1>1. Init => NoDuplicates
  BY DEF Init, NoDuplicates
<1>2. TypeInv /\ RunInv /\ [Next]_vars /\ NoDuplicates => NoDuplicates'
  BY DuplicatesNothing DEF NoDuplicates
<1> QED
  BY <1>1, <1>2, RunsKept, PTL DEF Spec

\* A write never moves a row between keys, which the panic of retarget states
\* of the snapshot: it holds of the table as well, over all runs.
RowsKeepTheirKey ==
    [][\A u \in UUIDs : saved[u] # NoRow /\ saved'[u] # NoRow =>
          saved'[u].key = saved[u].key]_vars

\* What the panic of retarget rules out never happens.
THEOREM ApplyMovesNoRow == Spec => RowsKeepTheirKey
<1>1. ASSUME TypeInv, RunInv, [Next]_vars, NEW v \in UUIDs,
             saved[v] # NoRow, saved'[v] # NoRow
      PROVE  saved'[v].key = saved[v].key
  <2>1. CASE saved' = saved
    BY <2>1
  <2>2. CASE saved' # saved
    <3>1. PICK op, k, u, row : /\ IsWrite(op, k, u, row)
                               /\ saved' = [saved EXCEPT ![u] = row]
      BY <1>1, <2>2, SavedChange
    <3>2. /\ u \in UUIDs /\ saved \in [UUIDs -> HostRows \cup {NoRow}]
          /\ saved[u] # NoRow => saved[u].key = k
      BY <1>1, <3>1, WriteTyped, WriteInSync DEF TypeInv, TypeOK, AllTables
    <3>3. row # NoRow => row.key = k
      BY <1>1, <3>1, RowWritten DEF Deletes
    <3> QED
      BY <1>1, <3>1, <3>2, <3>3
  <2> QED
    BY <2>1, <2>2
<1>2. TypeInv /\ RunInv /\ [Next]_vars =>
         [\A u \in UUIDs : saved[u] # NoRow /\ saved'[u] # NoRow =>
             saved'[u].key = saved[u].key]_vars
  BY <1>1
<1> QED
  BY <1>2, RunsKept, PTL DEF Spec, RowsKeepTheirKey
-----------------------------------------------------------------------------
(* No difference between the table and the snapshot goes unrecorded        *)

\* Workers run within a phase.
LEMMA ConvergeInPhase ==
    ASSUME TypeInv, NEW k \in Keys, Converge(k)
    PROVE  phase \in 1..4 /\ phase' = phase
<1>1. Active(k)
  BY DEF Converge, FixRow, ReuseRow, CreateRow, DeleteRow, DeleteBlocked
<1>2. phase \in 1..4
  BY <1>1 DEF Active
<1>3. CASE DeleteBlocked(k)
  BY <1>2, <1>3 DEF DeleteBlocked
<1>4. ASSUME NEW op, NEW u, NEW row, Call(op, k, u, row)
      PROVE  phase' = phase
  BY <1>4 DEF Call
<1> QED
  BY <1>2, <1>3, <1>4, ConvergeWrites

\* An acknowledged write that is not in the table does not read back: the row
\* it was to change differs from what was written in more than its aliases.
LEMMA LostIsNoticed ==
    ASSUME TypeInv, RunInv, NEW op, NEW k, NEW u, NEW row,
           IsWrite(op, k, u, row), saved'[u] = saved[u], saved'[u] # row
    PROVE  ~Landed([op |-> op, key |-> k, uuid |-> u, want |-> row])'
<1> DEFINE w == [op |-> op, key |-> k, uuid |-> u, want |-> row]
<1>1. w.op = op /\ w.uuid = u /\ w.want = row
  OBVIOUS
<1> HIDE DEF w
<1>2. SUFFICES ~Landed(w)'
  BY DEF w
<1>3. CASE Deletes(op, k, u, row)
  BY <1>1, <1>3 DEF Landed, Deletes
<1>4. CASE ~Deletes(op, k, u, row)
  <2>1. saved[u] = snap[u]
    BY <1>4, WriteInSync
  <2>2. op # "delete"
    BY <1>4 DEF IsWrite, Fixes, Reuses, Creates
  <2>3. \/ Fixes(op, k, u, row) /\ row.target = snap[u].target
        \/ row.target \in Missing(k) /\ u \in Surplus(k)
        \/ row.target \in Missing(k) /\ snap[u] = NoRow
    BY <1>4, RowWritten
  <2>4. row.ttl = sets[k].ttl /\ row.target \in Desired(k)
    BY <1>4, RowWritten
  <2>5. snap[u] = NoRow \/ row.ttl # snap[u].ttl \/ row.target # snap[u].target
    BY <2>3, <2>4 DEF Fixes, Surplus
  <2>6. u \in UUIDs /\ saved[u] \in HostRows \cup {NoRow}
    BY WriteTyped DEF TypeInv, TypeOK, AllTables
  <2>7. ASSUME saved[u] # NoRow, NEW c
        PROVE  [saved[u] EXCEPT !.child = c] # row
    BY <2>1, <2>5, <2>6, <2>7 DEF HostRows
  <2> QED
    BY <1>1, <2>2, <2>1, <2>7 DEF Landed
<1> QED
  BY <1>3, <1>4

LEMMA CallKeepsRecord ==
    ASSUME TypeInv, RunInv, DifferencesRecorded,
           NEW op, NEW k, NEW u, NEW row,
           IsWrite(op, k, u, row), Outcome(op, k, u, row)
    PROVE  DifferencesRecorded'
<1>1. /\ k \in Keys /\ u \in UUIDs /\ row \in HostRows \cup {NoRow}
  BY WriteTyped
<1>2. /\ failures' = failures /\ blind' = blind /\ Keys' = Keys
      /\ \A ph : Touched(ph)' = Touched(ph)
  BY DEF Outcome, Keys, sets, Touched, Selected, Desired
<1>3. /\ saved \in [UUIDs -> HostRows \cup {NoRow}]
      /\ snap \in [UUIDs -> HostRows \cup {NoRow}]
  BY DEF TypeInv, TypeOK, AllTables
<1>4. /\ \A v \in UUIDs : v # u => saved'[v] = saved[v] /\ snap'[v] = snap[v]
      /\ saved'[u] \in {saved[u], row}
      /\ \/ /\ snap'[u] = row
            /\ [op |-> op, key |-> k, uuid |-> u, want |-> row] \in writes'
         \/ snap'[u] = snap[u] /\ k \in stopped'
      /\ stopped \subseteq stopped' /\ writes \subseteq writes'
  BY <1>1, <1>3 DEF Outcome, Fail
<1> SUFFICES ASSUME NEW v \in UUIDs, saved'[v] # snap'[v], ~blind
             PROVE  \E i \in Keys : KeyAt(v)' = i /\ Recorded(v, i)'
  BY <1>2 DEF DifferencesRecorded
<1>5. CASE v # u
  <2>1. saved[v] # snap[v] /\ KeyAt(v)' = KeyAt(v)
    BY <1>4, <1>5 DEF KeyAt
  <2>2. PICK i \in Keys : KeyAt(v) = i /\ Recorded(v, i)
    BY <2>1 DEF DifferencesRecorded
  <2>3. ASSUME NEW w \in LostWrites, w.uuid = v
        PROVE  w \in LostWrites'
    BY <1>4, <1>5, <2>3 DEF LostWrites, Landed
  <2>4. Recorded(v, i)'
    BY <1>2, <1>4, <2>2, <2>3 DEF Recorded
  <2> QED
    BY <2>1, <2>2, <2>4
<1>6. CASE v = u
  <2>1. KeyAt(u)' = k
    <3>1. /\ snap[u] # NoRow => snap[u].key = k
          /\ saved[u] # NoRow => saved[u].key = k
      BY WriteInSync
    <3>2. row # NoRow => row.key = k
      BY RowWritten DEF Deletes
    <3> QED
      BY <1>4, <1>6, <3>1, <3>2 DEF KeyAt
  <2>2. CASE k \in stopped'
    BY <1>1, <1>6, <2>1, <2>2 DEF Recorded
  <2>3. CASE k \notin stopped'
    <3> DEFINE w == [op |-> op, key |-> k, uuid |-> u, want |-> row]
    <3>1. w \in writes' /\ saved'[u] = saved[u] /\ saved'[u] # row
      BY <1>4, <1>6, <2>3
    <3>2. ~Landed(w)'
      BY <3>1, LostIsNoticed
    <3>3. w.uuid = u /\ w.key = k
      OBVIOUS
    <3> HIDE DEF w
    <3>4. w \in LostWrites'
      BY <3>1, <3>2 DEF LostWrites
    <3>5. Recorded(u, k)'
      BY <3>3, <3>4 DEF Recorded
    <3> QED
      BY <1>1, <1>6, <2>1, <3>5
  <2> QED
    BY <2>2, <2>3
<1> QED
  BY <1>5, <1>6

\* When a phase ends, what it stopped at and what its read-back missed becomes
\* a failure of the phase, unless the read-back itself failed.
LEMMA NextPhaseKeepsRecord ==
    ASSUME TypeInv, RunInv, DifferencesRecorded, phase \in 1..4,
           NEW lost \in SUBSET writes, NextPhase(lost),
           blind => blind', LostWrites = {} \/ lost = LostWrites \/ blind'
    PROVE  DifferencesRecorded'
<1>1. /\ Quiet /\ failures \subseteq failures'
      /\ stopped # {} \/ lost # {} => phase \in failures'
  BY DEF NextPhase, Quiet
<1> SUFFICES ASSUME NEW v \in UUIDs, saved[v] # snap[v], ~blind'
             PROVE  \E i \in Keys : KeyAt(v) = i /\ Recorded(v, i)'
  BY <1>1, QuietKeeps DEF DifferencesRecorded, Quiet, KeyAt
<1>2. PICK i \in Keys : KeyAt(v) = i /\ Recorded(v, i)
  BY DEF DifferencesRecorded
<1>3. /\ stopped \subseteq Touched(phase)
      /\ \A w \in LostWrites : w.key \in Touched(phase)
  BY DEF RunInv, PhaseLocal, LostWrites
<1>4. \E ph \in failures' : i \in Touched(ph)
  <2>1. CASE i \in stopped \/ \E w \in LostWrites : w.key = i
    BY <1>1, <1>3, <2>1
  <2>2. CASE \E ph \in failures : i \in Touched(ph)
    BY <1>1, <2>2
  <2> QED
    BY <1>2, <2>1, <2>2 DEF Recorded
<1>5. Recorded(v, i)'
  BY <1>1, <1>4, QuietKeeps DEF Recorded
<1> QED
  BY <1>2, <1>5

LEMMA RecordStep ==
    ASSUME TypeInv, RunInv, RecordInv, [Next]_vars
    PROVE  RecordInv'
<1>1. CASE ApplyBegin
  BY <1>1 DEF ApplyBegin, RecordInv, DifferencesRecorded
<1>2. CASE phase' = 0
  BY <1>2 DEF RecordInv
<1>3. ASSUME Quiet, phase # 0, stopped \subseteq stopped', writes \subseteq writes',
             failures' = failures, blind' = blind
      PROVE  RecordInv'
  <2>1. DifferencesRecorded
    BY <1>3 DEF RecordInv
  <2>2. LostWrites \subseteq LostWrites'
    BY <1>3 DEF LostWrites, Landed, Quiet
  <2>3. \A v, i : KeyAt(v)' = KeyAt(v) /\ (Recorded(v, i) => Recorded(v, i)')
    BY <1>3, <2>2, QuietKeeps DEF Recorded, KeyAt, Quiet
  <2> QED
    BY <1>3, <2>1, <2>3, QuietKeeps DEF DifferencesRecorded, RecordInv, Quiet
<1>4. CASE ApplyNoSnapshot
  BY <1>2, <1>4 DEF ApplyNoSnapshot
<1>5. ASSUME NEW k \in Keys, Converge(k)
      PROVE  RecordInv'
  <2>1. phase # 0
    BY <1>5, ConvergeInPhase
  <2>2. CASE DeleteBlocked(k)
    BY <1>3, <2>1, <2>2 DEF DeleteBlocked, Fail, Quiet
  <2>3. ASSUME NEW op, NEW u, NEW row, IsWrite(op, k, u, row),
               Call(op, k, u, row)
        PROVE  RecordInv'
    BY <2>1, <2>3, CallOutcome, CallKeepsRecord DEF RecordInv
  <2> QED
    BY <1>5, <2>2, <2>3, ConvergeWrites
<1>6. CASE SkipPhase
  BY <1>3, <1>6 DEF SkipPhase, Quiet
<1>7. CASE EndPhase
  <2>1. /\ phase \in 1..4 /\ NextPhase(LostWrites) /\ blind' = blind
        /\ LostWrites \in SUBSET writes /\ DifferencesRecorded
    BY <1>7 DEF EndPhase, LostWrites, RecordInv
  <2> QED
    BY <2>1, NextPhaseKeepsRecord DEF RecordInv
<1>8. CASE EndPhaseUnverified
  <2>1. /\ phase \in 1..4 /\ NextPhase({}) /\ {} \in SUBSET writes
        /\ DifferencesRecorded
    BY <1>8 DEF EndPhaseUnverified, RecordInv
  <2>2. (blind => blind') /\ (LostWrites = {} \/ blind')
    BY <1>8 DEF EndPhaseUnverified
  <2> QED
    BY <2>1, <2>2, NextPhaseKeepsRecord DEF RecordInv
<1>9. CASE Deadline
  BY <1>3, <1>9 DEF Deadline, Quiet
<1>10. ASSUME NEW ok \in BOOLEAN, Finish(ok)
       PROVE  RecordInv'
  BY <1>2, <1>10 DEF Finish
<1>11. CASE UNCHANGED vars
  BY <1>2, <1>3, <1>11 DEF vars, run, Quiet
<1> QED
  BY <1>1, <1>4, <1>5, <1>6, <1>7, <1>8, <1>9, <1>10, <1>11 DEF Next

BaseInv == TypeInv /\ RunInv /\ RecordInv

LEMMA BaseKept == Spec => []BaseInv
<1>1. Init => RecordInv
  BY DEF Init, RecordInv
<1>2. TypeInv /\ RunInv /\ RecordInv /\ [Next]_vars => RecordInv'
  BY RecordStep
<1>3. TypeInv /\ RunInv /\ RecordInv => BaseInv
  BY DEF BaseInv
<1> QED
  BY <1>1, <1>2, <1>3, RunsKept, PTL DEF Spec
-----------------------------------------------------------------------------
(* Registry rows and data rows                                             *)

\* A run starts with ApplyBegin and ends with Finish.
LEMMA RunStarts ==
    ASSUME TypeInv, [Next]_vars, phase = 0, ~ApplyBegin
    PROVE  phase' = 0 /\ (ApplyNoSnapshot \/ UNCHANGED vars)
<1>1. \A k \in Keys : ~Converge(k)
  BY ConvergeInPhase
<1> QED
  BY <1>1 DEF Next, ApplyNoSnapshot, SkipPhase, EndPhase, EndPhaseUnverified,
              Deadline, Finish, vars

LEMMA RunEnds ==
    ASSUME TypeInv, [Next]_vars, phase # 0, phase' # phase
    PROVE  \/ SkipPhase \/ EndPhase \/ EndPhaseUnverified
           \/ \E ok \in BOOLEAN : Finish(ok) /\ phase' = 0
<1>1. \A k \in Keys : Converge(k) => phase' = phase
  BY ConvergeInPhase
<1> QED
  BY <1>1 DEF Next, ApplyBegin, ApplyNoSnapshot, Deadline, Finish, vars

\* Unchanged through the phases of a run, and monotone.
LEMMA RunMonotone ==
    ASSUME TypeInv, [Next]_vars, ~ApplyBegin
    PROVE  /\ plan' = plan /\ failures \subseteq failures'
           /\ (blind => blind') /\ (errs => errs')
<1>1. ASSUME NEW k \in Keys, Converge(k)
      PROVE  /\ plan' = plan /\ failures \subseteq failures'
             /\ blind' = blind /\ (errs => errs')
  <2>1. CASE DeleteBlocked(k)
    BY <2>1 DEF DeleteBlocked, Fail
  <2>2. ASSUME NEW op, NEW u, NEW row, Call(op, k, u, row)
        PROVE  /\ plan' = plan /\ failures \subseteq failures'
               /\ blind' = blind /\ (errs => errs')
    BY <2>2, CallOutcome DEF Outcome, Fail
  <2> QED
    BY <1>1, <2>1, <2>2, ConvergeWrites
<1>2. CASE EndPhase \/ EndPhaseUnverified
  <2>1. /\ plan' = plan /\ failures \subseteq failures'
        /\ \E b \in BOOLEAN : errs' = (errs \/ b)
    BY <1>2 DEF EndPhase, EndPhaseUnverified, NextPhase
  <2>2. blind => blind'
    BY <1>2 DEF EndPhase, EndPhaseUnverified
  <2> QED
    BY <2>1, <2>2
<1>3. CASE ApplyNoSnapshot \/ SkipPhase \/ Deadline \/ UNCHANGED vars
  BY <1>3 DEF ApplyNoSnapshot, SkipPhase, Deadline, vars, run
<1>4. ASSUME NEW ok \in BOOLEAN, Finish(ok)
      PROVE  /\ plan' = plan /\ failures \subseteq failures'
             /\ blind' = blind /\ (errs => errs')
  BY <1>4 DEF Finish, run
<1> QED
  BY <1>1, <1>2, <1>3, <1>4 DEF Next

\* The parts of the registry invariant.
RejectedCounted == plan.rejected # {} => TXTAdd \in failures

RegistryWritten ==
    phase > TXTAdd /\ TXTAdd \notin failures =>
        \A k \in Keys : isTXT(k) /\ Desired(k) # {} => Rows(saved, k) # {}

DataGone ==
    phase > DataRemove /\ DataRemove \notin failures =>
        \A k \in Keys : isData(k) /\ Desired(k) = {} => Rows(saved, k) = {}

LEMMA RegistryParts ==
    RegistryInv <=>
        (phase # 0 /\ ~blind => RejectedCounted /\ RegistryWritten /\ DataGone)
BY DEF RegistryInv, RejectedCounted, RegistryWritten, DataGone

\* Where nothing is stopped, lost or blind, the table is the snapshot but for
\* the keys of failed phases.
LEMMA CleanPhaseInSync ==
    ASSUME BaseInv, phase # 0, ~blind, stopped = {}, LostWrites = {},
           NEW u \in UUIDs, saved[u] # snap[u]
    PROVE  \E ph \in failures : KeyAt(u) \in Touched(ph)
BY DEF BaseInv, RecordInv, DifferencesRecorded, Recorded

\* A phase that ends without a failure or a failed read-back of a lost write.
LEMMA CleanEnd ==
    ASSUME TypeInv, EndPhase \/ EndPhaseUnverified, ~blind',
           phase \notin failures'
    PROVE  /\ stopped = {} /\ LostWrites = {} /\ ~blind
           /\ Drained /\ phase \in 1..4 /\ phase' = phase + 1
           /\ Quiet /\ failures' = failures
<1>1. CASE EndPhase
  BY <1>1 DEF EndPhase, NextPhase, Quiet
<1>2. CASE EndPhaseUnverified
  BY <1>2 DEF EndPhaseUnverified, NextPhase, Quiet
<1> QED
  BY <1>1, <1>2

LEMMA TXTAddEnds ==
    ASSUME BaseInv, EndPhase \/ EndPhaseUnverified, ~blind',
           phase = TXTAdd, TXTAdd \notin failures',
           NEW k \in Keys, isTXT(k), Desired(k) # {}
    PROVE  Rows(saved, k)' # {}
<1>1. TypeInv /\ RunInv
  BY DEF BaseInv
<1>2. /\ stopped = {} /\ LostWrites = {} /\ ~blind /\ Drained
      /\ Quiet /\ failures' = failures
  BY <1>1, CleanEnd
<1>3. Missing(k) = {}
  <2>1. k \in Selected(phase) \ stopped /\ Adding(phase)
    BY <1>2 DEF Selected, Adding
  <2> QED
    BY <2>1, <1>2 DEF Drained, Work
<1>4. PICK v \in Rows(snap, k) : snap[v].target \in Desired(k)
  BY <1>3 DEF Missing, TargetsOf
<1>5. failures = {}
  BY <1>1, <1>2 DEF RunInv, PhaseLocal, TypeInv, TypeOK
<1>6. saved[v] = snap[v] /\ v \in UUIDs
  BY <1>2, <1>5, CleanPhaseInSync DEF Rows
<1> QED
  BY <1>2, <1>4, <1>6 DEF Rows, Quiet

LEMMA DataRemoveEnds ==
    ASSUME BaseInv, EndPhase \/ EndPhaseUnverified, ~blind',
           phase = DataRemove, DataRemove \notin failures',
           NEW k \in Keys, isData(k), Desired(k) = {}
    PROVE  Rows(saved, k)' = {}
<1>1. TypeInv /\ RunInv
  BY DEF BaseInv
<1>2. /\ stopped = {} /\ LostWrites = {} /\ ~blind /\ Drained
      /\ Quiet /\ failures' = failures
  BY <1>1, CleanEnd
<1>3. Rows(snap, k) = {}
  <2>1. k \in Selected(phase) \ stopped /\ Removing(phase) /\ ~Kept(k)
    BY <1>2 DEF Selected, Removing, Kept, isData, isTXT
  <2>2. Surplus(k) = {}
    BY <2>1, <1>2 DEF Drained, Work
  <2> QED
    BY <2>2 DEF Surplus
<1>4. ASSUME NEW v \in Rows(saved, k)
      PROVE  FALSE
  <2>1. v \in UUIDs /\ saved[v] # NoRow /\ saved[v].key = k
    BY DEF Rows
  <2>2. snap[v] = NoRow
    BY <1>1, <1>3, <2>1 DEF RunInv, OneKey, Rows
  <2>3. saved[v] # snap[v] /\ KeyAt(v) = k
    BY <2>1, <2>2 DEF KeyAt
  <2>4. PICK ph \in failures : k \in Touched(ph)
    BY <1>2, <2>1, <2>3, CleanPhaseInSync
  <2>5. ph \in 1..4 /\ ph # DataRemove
    BY <1>1, <1>2 DEF TypeInv, TypeOK
  <2> QED
    BY <2>4, <2>5 DEF Touched, Selected, Adding, isData, isTXT
<1> QED
  BY <1>2, <1>4 DEF Rows, Quiet

LEMMA RegistryStep ==
    ASSUME BaseInv, BaseInv', RegistryInv, [Next]_vars
    PROVE  RegistryInv'
<1> SUFFICES ASSUME phase' # 0, ~blind'
             PROVE  RejectedCounted' /\ RegistryWritten' /\ DataGone'
  BY RegistryParts DEF RegistryInv, RejectedCounted, RegistryWritten, DataGone
<1>1. TypeInv /\ RunInv /\ TypeInv'
  BY DEF BaseInv
<1>2. CASE ApplyBegin
  <2>1. plan'.rejected = plan.rejected
    BY <1>1, <1>2, ReplannedIsPart DEF ApplyBegin, TypeInv
  <2>2. phase' = 1
    BY <1>2 DEF ApplyBegin
  <2>3. RejectedCounted'
    BY <1>2, <2>1 DEF ApplyBegin, RejectedCounted
  <2> QED
    BY <2>2, <2>3 DEF RegistryWritten, DataGone
<1>3. CASE ~ApplyBegin
  <2>1. /\ plan' = plan /\ failures \subseteq failures' /\ ~blind
    BY <1>1, <1>3, RunMonotone
  <2>2. phase # 0 /\ phase \in 0..5 /\ phase' \in 0..5
    <3>1. phase = 0 => phase' = 0
      BY <1>1, <1>3, RunStarts
    <3> QED
      BY <3>1, <1>1 DEF TypeInv, TypeOK
  <2>3. RejectedCounted /\ RegistryWritten /\ DataGone
    BY <2>1, <2>2, RegistryParts
  <2>4. Keys' = Keys /\ \A k : Desired(k)' = Desired(k)
    BY <2>1 DEF Keys, Desired, sets
  <2>5. RejectedCounted'
    BY <2>1, <2>3 DEF RejectedCounted
  <2>6. CASE phase' = phase
    <3>1. RegistryWritten'
      <4> SUFFICES ASSUME phase > TXTAdd, TXTAdd \notin failures,
                          NEW k \in Keys, isTXT(k), Desired(k) # {}
                   PROVE  Rows(saved, k)' # {}
        BY <2>1, <2>4, <2>6 DEF RegistryWritten
      <4>1. Rows(saved, k) # {}
        BY <2>3 DEF RegistryWritten
      <4> QED
        BY <1>1, <4>1, EmptiesNothing
    <3>2. DataGone'
      <4> SUFFICES ASSUME phase > DataRemove, DataRemove \notin failures,
                          NEW k \in Keys, isData(k), Desired(k) = {}
                   PROVE  Rows(saved, k)' = {}
        BY <2>1, <2>4, <2>6 DEF DataGone
      <4>1. Rows(saved, k) = {}
        BY <2>3 DEF DataGone
      <4>2. CASE saved' = saved
        BY <4>1, <4>2 DEF Rows
      <4>3. CASE saved' # saved
        <5>1. PICK op, j, u, row : /\ IsWrite(op, j, u, row)
                                   /\ saved' = [saved EXCEPT ![u] = row]
          BY <1>1, <4>3, SavedChange
        <5>2. row = NoRow
          <6>1. ~Adding(phase)
            BY <2>2 DEF Adding
          <6> QED
            BY <5>1, <6>1 DEF IsWrite, Fixes, Reuses, Creates, Deletes
        <5>3. \A v \in UUIDs : saved'[v] \in {saved[v], NoRow}
          BY <1>1, <5>1, <5>2 DEF TypeInv, TypeOK, AllTables
        <5> QED
          BY <4>1, <5>3 DEF Rows
      <4> QED
        BY <4>2, <4>3
    <3> QED
      BY <2>5, <3>1, <3>2
  <2>7. CASE phase' # phase
    <3>1. SkipPhase \/ EndPhase \/ EndPhaseUnverified
      BY <1>1, <2>2, <2>7, RunEnds
    <3>2. /\ phase \in 1..4 /\ phase' = phase + 1 /\ saved' = saved
          /\ SkipPhase => phase \notin {TXTAdd, DataRemove}
      BY <3>1 DEF SkipPhase, EndPhase, EndPhaseUnverified, NextPhase, Gated
    <3>3. RegistryWritten'
      <4>1. CASE phase = TXTAdd
        BY <2>4, <3>1, <3>2, <4>1, TXTAddEnds DEF RegistryWritten
      <4>2. CASE phase # TXTAdd
        BY <2>1, <2>3, <2>4, <3>2, <4>2 DEF RegistryWritten, Rows
      <4> QED
        BY <4>1, <4>2
    <3>4. DataGone'
      <4>1. CASE phase = DataRemove
        BY <2>4, <3>1, <3>2, <4>1, DataRemoveEnds DEF DataGone
      <4>2. CASE phase # DataRemove
        BY <2>1, <2>3, <2>4, <3>2, <4>2 DEF DataGone, Rows
      <4> QED
        BY <4>1, <4>2
    <3> QED
      BY <2>5, <3>3, <3>4
  <2> QED
    BY <2>6, <2>7
<1> QED
  BY <1>2, <1>3
\* The plan of a later reconcile is still a plan of the registry.
LEMMA PlanStaysRegistered ==
    ASSUME TypeInv, PlanRegistered, [Next]_vars
    PROVE  PlanRegistered'
<1>1. CASE plan' = plan
  BY <1>1 DEF PlanRegistered
<1>2. CASE plan' # plan
  <2>1. ApplyBegin /\ plan' = Replanned
    BY <1>2, RunMonotone DEF ApplyBegin
  <2>2. /\ Replanned.rejected = plan.rejected
        /\ DOMAIN Replanned.sets \subseteq Keys
        /\ \A k \in DOMAIN Replanned.sets : Replanned.sets[k] = sets[k]
        /\ \A k \in Keys : isData(k) \/ Desired(k) # {} =>
              k \in DOMAIN Replanned.sets
    BY ReplannedIsPart DEF TypeInv
  <2> DEFINE f == Replanned
  <2> SUFFICES FoldRegistered(f)
    BY <2>1 DEF PlanRegistered
  <2> HIDE DEF f
  <2>3. ASSUME NEW k \in DOMAIN f.sets
        PROVE  /\ isData(k) /\ f.sets[k].targets # {} =>
                    \/ f.rejected # {}
                    \/ /\ <<NameOf(k), "TXT">> \in DOMAIN f.sets
                       /\ f.sets[<<NameOf(k), "TXT">>].targets # {}
               /\ isTXT(k) /\ f.sets[k].targets = {} =>
                    /\ <<NameOf(k), "A">> \in DOMAIN f.sets
                    /\ f.sets[<<NameOf(k), "A">>].targets = {}
    <3>1. k \in Keys /\ f.sets[k].targets = Desired(k)
      BY <2>2 DEF f, Desired
    <3>2. /\ isData(k) /\ Desired(k) # {} =>
               \/ plan.rejected # {}
               \/ /\ <<NameOf(k), "TXT">> \in Keys
                  /\ Desired(<<NameOf(k), "TXT">>) # {}
          /\ isTXT(k) /\ Desired(k) = {} =>
               /\ <<NameOf(k), "A">> \in Keys
               /\ Desired(<<NameOf(k), "A">>) = {}
      BY <3>1 DEF PlanRegistered, FoldRegistered, Keys, sets, Desired
    <3>3. isData(<<NameOf(k), "A">>)
      BY DEF isData, TypeOf
    <3>4. \A i \in Keys : isData(i) \/ Desired(i) # {} =>
             i \in DOMAIN f.sets /\ f.sets[i].targets = Desired(i)
      BY <2>2 DEF f, Desired
    <3>5. f.rejected = plan.rejected
      BY <2>2 DEF f
    <3> QED
      BY <3>1, <3>2, <3>3, <3>4, <3>5
  <2> QED
    BY <2>3 DEF FoldRegistered
<1> QED
  BY <1>1, <1>2

\* No step leaves a data row without the registry row of its name: a data row
\* is written only when the registry rows stand, and a registry row goes only
\* when its name has another or no data row is left.
LEMMA ClaimsKept ==
    ASSUME BaseInv, RegistryInv, PlanRegistered, [Next]_vars,
           ~blind, Claimed(saved)
    PROVE  Claimed(saved)'
<1>1. TypeInv /\ RunInv
  BY DEF BaseInv
<1>2. CASE saved' = saved
  BY <1>2 DEF Claimed
<1>3. CASE saved' # saved
  <2>1. PICK op, k, u, row : /\ IsWrite(op, k, u, row)
                             /\ saved' = [saved EXCEPT ![u] = row]
    BY <1>1, <1>3, SavedChange
  <2>2. /\ k \in Keys /\ k \in RowKeys /\ u \in UUIDs /\ phase \in 1..4
        /\ ~Gated(phase) /\ k \in Selected(phase)
        /\ saved \in [UUIDs -> HostRows \cup {NoRow}]
    BY <1>1, <2>1, WriteTyped DEF IsWrite, TypeInv, TypeOK, AllTables
  <2>3. saved'[u] = row /\ \A v \in UUIDs : v # u => saved'[v] = saved[v]
    BY <2>1, <2>2
  <2>4. /\ saved[u] # NoRow => saved[u].key = k
        /\ k \in Touched(phase)
    BY <1>1, <2>1, WriteInSync
  <2>5. RejectedCounted /\ RegistryWritten /\ DataGone
    BY <2>2, RegistryParts
  <2>6. row # NoRow => row.key = k
    BY <1>1, <2>1, RowWritten DEF Deletes
  <2> SUFFICES ASSUME NEW v \in UUIDs, saved'[v] # NoRow,
                      isData(saved'[v].key), NEW n, n = NameOf(saved'[v].key)
               PROVE  Rows(saved, <<n, "TXT">>)' # {}
    BY DEF Claimed, Rows
  <2> DEFINE txt == <<n, "TXT">>
  <2>7. isTXT(txt) /\ NameOf(txt) = n
    BY DEF isTXT, TypeOf, NameOf
  <2>8. v = u => isData(k) /\ NameOf(k) = n /\ row # NoRow
    BY <2>3, <2>6
  <2>9. v # u => Rows(saved, txt) # {}
    <3> SUFFICES ASSUME v # u
                 PROVE  Rows(saved, txt) # {}
      OBVIOUS
    <3>1. saved'[v] = saved[v]
      BY <2>3
    <3> QED
      BY <3>1 DEF Claimed, Rows
  <2> SUFFICES Rows(saved, txt)' # {}
    OBVIOUS
  <2> HIDE DEF txt
  <2>10. ASSUME k # txt, Rows(saved, txt) # {}
         PROVE  Rows(saved, txt)' # {}
    BY <2>3, <2>4, <2>10 DEF Rows
  <2>11. CASE v = u
    <3>1. ~Deletes(op, k, u, row) /\ isData(k) /\ ~isTXT(k)
      BY <2>8, <2>11 DEF Deletes, isData, isTXT
    <3>2. phase = DataAdd
      <4>1. Adding(phase)
        BY <2>1, <3>1 DEF IsWrite, Fixes, Reuses, Creates
      <4> QED
        BY <2>2, <3>1, <4>1 DEF Adding, Selected
    <3>3. TXTAdd \notin failures /\ plan.rejected = {}
      BY <2>2, <2>5, <3>2 DEF Gated, RejectedCounted
    <3>4. Desired(k) # {}
      BY <2>4, <3>2 DEF Touched, Adding
    <3>5. txt \in Keys /\ Desired(txt) # {}
      BY <2>2, <2>8, <2>11, <3>1, <3>3, <3>4
      DEF PlanRegistered, FoldRegistered, Keys, sets, Desired, txt
    <3>6. Rows(saved, txt) # {}
      BY <2>5, <2>7, <3>2, <3>3, <3>5 DEF RegistryWritten
    <3> QED
      BY <2>7, <2>10, <3>1, <3>6
  <2>12. CASE v # u
    <3>1. CASE k # txt
      BY <2>9, <2>10, <2>12, <3>1
    <3>2. CASE k = txt /\ ~Deletes(op, k, u, row)
      <4>1. row # NoRow /\ row.key = k
        BY <1>1, <2>1, <3>2, RowWritten
      <4>2. u \in Rows(saved, txt)'
        BY <2>2, <2>3, <3>2, <4>1 DEF Rows
      <4> QED
        BY <4>2
    <3>3. CASE k = txt /\ Deletes(op, k, u, row) /\ Desired(k) # {}
      <4>1. Rows(saved, txt)' # {}
        BY <1>1, <2>2, <2>9, <2>12, <3>3, EmptiesNothing
      <4> QED
        BY <4>1
    <3>4. CASE k = txt /\ Deletes(op, k, u, row) /\ Desired(k) = {}
      <4>1. phase = TXTRemove
        BY <2>2, <2>7, <3>4 DEF Deletes, Removing, Selected, isData, isTXT
      <4>2. DataRemove \notin failures
        BY <2>2, <4>1 DEF Gated
      <4>3. <<n, "A">> \in Keys /\ Desired(<<n, "A">>) = {}
        BY <2>2, <2>7, <3>4
        DEF PlanRegistered, FoldRegistered, Keys, sets, Desired
      <4>4. Rows(saved, <<n, "A">>) = {}
        <5>1. isData(<<n, "A">>)
          BY DEF isData, TypeOf
        <5> QED
          BY <2>5, <4>1, <4>2, <4>3, <5>1 DEF DataGone
      <4>5. saved[v] # NoRow /\ isData(saved[v].key) /\ NameOf(saved[v].key) = n
        BY <2>3, <2>12
      <4>6. saved[v].key \in RowKeys
        BY <2>2, <4>5 DEF HostRows
      <4>7. saved[v].key = <<n, "A">>
        BY <4>5, <4>6 DEF RowKeys, isData, TypeOf, NameOf
      <4> QED
        BY <4>4, <4>5, <4>7 DEF Rows
    <3> QED
      BY <3>1, <3>2, <3>3, <3>4
  <2> QED
    BY <2>11, <2>12
<1> QED
  BY <1>2, <1>3

\* Invariant I1: if external-dns's registry claims every data row of the
\* initial table and sends the plans it does, each data row's name has its
\* registry row at every moment, whatever calls fail, unless a lost write
\* escaped a failed read-back.
THEOREM ApplyOwnsRows ==
    ASSUME \A t \in Tables : Claimed(t),
           \A p \in Plans : RegistryPlan(p) /\ Undisputed(p)
    PROVE  Spec => []OwnedRows
<1>1. Init => PlanRegistered /\ RegistryInv /\ OwnedRows
  <2> SUFFICES ASSUME Init
               PROVE  PlanRegistered /\ RegistryInv /\ OwnedRows
    OBVIOUS
  <2>1. PICK p \in Plans : plan = foldChanges(p)
    BY DEF Init
  <2>2. PlanRegistered
    BY <2>1, FoldIsRegistered, ApplyAssumption DEF PlanRegistered
  <2> QED
    BY <2>2 DEF Init, RegistryInv, OwnedRows
<1>2. TypeInv /\ PlanRegistered /\ [Next]_vars => PlanRegistered'
  BY PlanStaysRegistered
<1>3. BaseInv /\ BaseInv' /\ RegistryInv /\ [Next]_vars => RegistryInv'
  BY RegistryStep
<1>4. BaseInv /\ RegistryInv /\ PlanRegistered /\ OwnedRows /\ [Next]_vars
         => OwnedRows'
  <2> SUFFICES ASSUME BaseInv, RegistryInv, PlanRegistered, OwnedRows,
                      [Next]_vars
               PROVE  OwnedRows'
    OBVIOUS
  <2>1. CASE blind
    <3>1. blind'
      <4>1. CASE ApplyBegin
        BY <2>1, <4>1 DEF ApplyBegin
      <4>2. CASE ~ApplyBegin
        BY <2>1, <4>2, RunMonotone DEF BaseInv
      <4> QED
        BY <4>1, <4>2
    <3> QED
      BY <3>1 DEF OwnedRows
  <2>2. CASE ~blind
    <3>1. Claimed(saved)'
      BY <2>2, ClaimsKept DEF OwnedRows
    <3> QED
      BY <3>1 DEF OwnedRows
  <2> QED
    BY <2>1, <2>2
<1>5. BaseInv => TypeInv
  BY DEF BaseInv
<1> QED
  BY <1>1, <1>2, <1>3, <1>4, <1>5, BaseKept, PTL DEF Spec
-----------------------------------------------------------------------------
(* What a reported success means                                           *)

\* Once addSet finds nothing to fix and nothing missing, all is there.
LEMMA DrainedIsSettled ==
    ASSUME TypeInv, NEW k \in Keys, Stale(k) = {}, Missing(k) = {}
    PROVE  Settled(k)
<1> SUFFICES ASSUME NEW t \in Desired(k)
             PROVE  \E u \in Rows(snap, k) :
                        snap[u].target = t /\ snap[u].ttl = sets[k].ttl
  BY DEF Settled
<1>1. t \in TargetsOf(snap, k)
  BY DEF Missing
<1>2. {v \in Rows(snap, k) : snap[v].target = t} # {}
  BY <1>1 DEF TargetsOf
<1>3. Holder(k, t) \in Rows(snap, k) /\ snap[Holder(k, t)].target = t
  BY <1>2, RowsAreUUIDs, MaxIsGreatest DEF Holder
<1>4. snap[Holder(k, t)].ttl = sets[k].ttl
  BY <1>1 DEF Stale
<1> QED
  BY <1>3, <1>4

LEMMA QuietSettled ==
    ASSUME Quiet, NEW k, Settled(k)
    PROVE  Settled(k)'
BY DEF Quiet, Settled, Rows, Desired, sets

\* No call undoes that: a row that is as the plan wants it is not written to.
LEMMA SettledStays ==
    ASSUME TypeInv, RunInv, NEW op, NEW k, NEW u, NEW row,
           IsWrite(op, k, u, row), Outcome(op, k, u, row), NEW j \in Keys,
           Settled(j)
    PROVE  Settled(j)'
<1>1. sets' = sets /\ Desired(j)' = Desired(j)
  BY DEF Outcome, sets, Desired
<1>2. CASE snap' = snap
  BY <1>1, <1>2 DEF Settled, Rows
<1>3. CASE snap' = [snap EXCEPT ![u] = row]
  <2>1. /\ u \in UUIDs /\ k \in Keys
        /\ snap'[u] = row /\ \A v \in UUIDs : v # u => snap'[v] = snap[v]
    BY <1>3, WriteTyped DEF TypeInv, TypeOK, AllTables
  <2>2. SUFFICES ASSUME NEW t \in Desired(j)
                 PROVE  \E v \in Rows(snap, j)' :
                            snap'[v].target = t /\ snap'[v].ttl = sets[j].ttl
    BY <1>1 DEF Settled
  <2>3. PICK v \in Rows(snap, j) :
                snap[v].target = t /\ snap[v].ttl = sets[j].ttl
    BY DEF Settled
  <2>4. v \in UUIDs /\ snap[v] # NoRow /\ snap[v].key = j
    BY DEF Rows
  <2>5. CASE v # u
    BY <2>1, <2>3, <2>4, <2>5 DEF Rows
  <2>6. CASE v = u
    <3>1. j = k
      BY <2>4, <2>6, WriteInSync
    <3> QED
      BY <2>3, <2>4, <2>6, <3>1
         DEF IsWrite, Fixes, Reuses, Creates, Deletes, Surplus, Free
  <2> QED
    BY <2>5, <2>6
<1> QED
  BY <1>2, <1>3 DEF Outcome

LEMMA ErrStep ==
    ASSUME BaseInv, ErrInv, [Next]_vars
    PROVE  ErrInv'
<1>1. TypeInv /\ RunInv
  BY DEF BaseInv
<1> SUFFICES ASSUME phase' # 0, ~errs'
             PROVE  Clean'
  BY DEF ErrInv
<1>2. CASE ApplyBegin
  <2>1. plan.rejected = {}
    BY <1>1, <1>2 DEF ApplyBegin, TypeInv, PlanTyped, FoldTyped, FoldShape
  <2> QED
    BY <1>2, <2>1 DEF ApplyBegin, Clean, Added, Removed
<1>3. CASE ~ApplyBegin /\ phase # 0
  <2>1. ~errs /\ plan' = plan /\ Keys' = Keys
    BY <1>1, <1>3, RunMonotone DEF Keys, sets
  <2>2. Clean
    BY <1>3, <2>1 DEF ErrInv
  <2>3. ASSUME Quiet, phase' = phase, UNCHANGED <<failed, failures>>
        PROVE  Clean'
    BY <2>1, <2>2, <2>3, QuietKeeps, QuietSettled DEF Clean, Added, Removed
  <2>4. ASSUME NEW k \in Keys, Converge(k)
        PROVE  Clean'
    <3>1. ~DeleteBlocked(k)
      BY DEF DeleteBlocked, Fail
    <3>2. PICK op, u, row : IsWrite(op, k, u, row) /\ Call(op, k, u, row)
      BY <1>1, <2>4, <3>1, ConvergeWrites
    <3>3. Outcome(op, k, u, row)
      BY <3>2, CallOutcome
    <3>4. phase' = phase /\ failed' = failed /\ failures' = failures
      BY <3>3 DEF Outcome, Fail
    <3>5. \A j \in Keys : Surplus(j)' \subseteq Surplus(j)
      BY <1>1, <3>2, <3>3, WorkShrinks
    <3>6. \A j \in Keys : Settled(j) => Settled(j)'
      BY <1>1, <3>2, <3>3, SettledStays
    <3> QED
      BY <2>1, <2>2, <3>4, <3>5, <3>6 DEF Clean, Added, Removed
  <2>5. ~SkipPhase
    BY <2>2 DEF Clean, SkipPhase, Gated
  <2>6. CASE EndPhase \/ EndPhaseUnverified
    <3>1. /\ phase \in 1..4 /\ Drained /\ Quiet /\ phase' = phase + 1
      BY <2>6 DEF EndPhase, EndPhaseUnverified, NextPhase, Quiet
    <3>2. stopped = {}
      BY <1>1, <2>2 DEF Clean, TypeInv, TypeOK
    <3>3. \/ NextPhase({})
          \/ LostWrites # {} /\ NextPhase(LostWrites)
      BY <2>6 DEF EndPhase, EndPhaseUnverified
    <3>4. NextPhase({})
      <4>1. NextPhase(LostWrites) => LostWrites = {}
        BY DEF NextPhase
      <4> QED
        BY <3>3, <4>1
    <3>5. failed' = {} /\ failures' = {}
      BY <2>2, <3>2, <3>4 DEF Clean, NextPhase
    <3>6. ASSUME NEW k \in Keys, Removed(k)'
          PROVE  Surplus(k) = {}
      <4>1. CASE Removed(k)
        BY <2>2, <4>1 DEF Clean
      <4>2. CASE ~Removed(k)
        <5>1. Removing(phase) /\ k \in Selected(phase)
          BY <3>1, <3>6, <4>2 DEF Removed, Removing, Selected, isData, isTXT
        <5>2. ~Kept(k) /\ ~Work(k)
          BY <2>2, <3>1 DEF Clean, Kept, Drained
        <5> QED
          BY <3>2, <5>1, <5>2 DEF Work
      <4> QED
        BY <4>1, <4>2
    <3>7. ASSUME NEW k \in Keys, Added(k)'
          PROVE  Settled(k)
      <4>1. CASE Added(k)
        BY <2>2, <4>1 DEF Clean
      <4>2. CASE ~Added(k)
        <5>1. Adding(phase) /\ k \in Selected(phase)
          BY <3>1, <3>7, <4>2 DEF Added, Adding, Selected, isData, isTXT
        <5>2. Stale(k) = {} /\ Missing(k) = {}
          BY <3>1, <3>2, <5>1 DEF Drained, Work
        <5> QED
          BY <1>1, <5>2, DrainedIsSettled
      <4> QED
        BY <4>1, <4>2
    <3> QED
      BY <2>1, <3>1, <3>5, <3>6, <3>7, QuietKeeps, QuietSettled DEF Clean
  <2>7. CASE Deadline
    BY <2>3, <2>7 DEF Deadline, Quiet
  <2>8. CASE UNCHANGED vars
    BY <2>3, <2>8 DEF vars, run, Quiet
  <2>9. ~ApplyNoSnapshot /\ \A ok \in BOOLEAN : ~Finish(ok)
    BY <1>3 DEF ApplyNoSnapshot, Finish
  <2> QED
    BY <1>3, <2>4, <2>5, <2>6, <2>7, <2>8, <2>9 DEF Next
<1>4. CASE ~ApplyBegin /\ phase = 0
  BY <1>1, <1>4, RunStarts
<1> QED
  BY <1>2, <1>3, <1>4

\* A run that ends without an error: nothing is marked, so nothing is missing,
\* unfixed or left over in the snapshot, and nothing differs from the table.
LEMMA CleanRunConverged ==
    ASSUME BaseInv, ErrInv, NoDuplicates, phase = 5, ~errs, ~blind
    PROVE  Converged
<1>1. TypeInv /\ RunInv
  BY DEF BaseInv
<1>2. /\ failed = {} /\ failures = {}
      /\ \A k \in Keys : Settled(k) /\ Surplus(k) = {}
  BY DEF ErrInv, Clean, Added, Removed
<1>3. stopped = {} /\ LostWrites = {}
  BY <1>1 DEF RunInv, PhaseLocal, LostWrites
<1>4. \A u \in UUIDs : saved[u] = snap[u]
  BY <1>2, <1>3, CleanPhaseInSync
<1>5. ASSUME NEW k \in Keys
      PROVE  {Answer(saved[u]) : u \in Rows(saved, k)}
                = Desired(k) \X {sets[k].ttl}
  <2>1. \A t \in Desired(k) : \E u \in Rows(saved, k) :
           saved[u].target = t /\ saved[u].ttl = sets[k].ttl
    BY <1>2, <1>4 DEF Settled, Rows
  <2>2. \A u \in Rows(saved, k) : saved[u].target \in Desired(k)
    BY <1>2, <1>4 DEF Surplus, Rows
  <2>3. \A u, v \in Rows(saved, k) : saved[u].target = saved[v].target => u = v
    BY DEF NoDuplicates, Distinct, Rows
  <2>4. \A u \in Rows(saved, k) : saved[u].ttl = sets[k].ttl
    BY <2>1, <2>2, <2>3
  <2> QED
    BY <2>1, <2>2, <2>4 DEF Answer
<1> QED
  BY <1>5 DEF Converged

\* A run that reports success, and did not let a lost write through a failed
\* read-back, has made every record set of the plan exactly what the plan asked
\* for, targets and TTL.  The tables are without duplicates: of two rows for one
\* target addSet fixes the last and leaves the other its TTL.
THEOREM ApplySuccessConverged ==
    ASSUME \A t \in Tables : Distinct(t)
    PROVE  Spec => []SuccessIsConverged
<1>1. Init => ErrInv /\ SuccessIsConverged
  BY DEF Init, ErrInv, SuccessIsConverged
<1>2. BaseInv /\ ErrInv /\ [Next]_vars => ErrInv'
  BY ErrStep
<1>3. BaseInv /\ ErrInv /\ NoDuplicates /\ SuccessIsConverged /\ [Next]_vars
         => SuccessIsConverged'
  <2> SUFFICES ASSUME BaseInv, ErrInv, NoDuplicates, SuccessIsConverged,
                      [Next]_vars, phase' = 0, result' = "ok", ~blind'
               PROVE  Converged'
    BY DEF SuccessIsConverged
  <2>1. TypeInv /\ ~ApplyBegin
    BY DEF BaseInv, ApplyBegin
  <2>2. plan' = plan /\ ~blind
    BY <2>1, RunMonotone
  <2>3. ASSUME Converged, saved' = saved
        PROVE  Converged'
    BY <2>2, <2>3 DEF Converged, Keys, Desired, sets, Rows
  <2>4. ASSUME NEW ok \in BOOLEAN, Finish(ok)
        PROVE  Converged'
    <3>1. phase = 5 /\ ~errs /\ saved' = saved
      BY <2>4 DEF Finish
    <3> QED
      BY <2>2, <2>3, <3>1, CleanRunConverged
  <2>5. CASE UNCHANGED vars
    BY <2>2, <2>3, <2>5 DEF vars, SuccessIsConverged
  <2>6. phase = 0 => ApplyNoSnapshot \/ UNCHANGED vars
    BY <2>1, RunStarts
  <2>7. ~ApplyNoSnapshot
    BY DEF ApplyNoSnapshot
  <2>8. ASSUME phase # 0
        PROVE  \E ok \in BOOLEAN : Finish(ok)
    <3>1. phase' # phase /\ ~SkipPhase /\ ~EndPhase /\ ~EndPhaseUnverified
      BY <2>8 DEF SkipPhase, EndPhase, EndPhaseUnverified, NextPhase
    <3> QED
      BY <2>1, <2>8, <3>1, RunEnds
  <2> QED
    BY <2>4, <2>5, <2>6, <2>7, <2>8
<1> QED
  BY <1>1, <1>2, <1>3, BaseKept, ApplyNeverDuplicates, PTL DEF Spec
=============================================================================
