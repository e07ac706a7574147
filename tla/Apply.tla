------------------------------- MODULE Apply -------------------------------
(***************************************************************************)
(* One ApplyChanges of internal/opnsense/apply.go, and its repetition by   *)
(* later reconciles.  A plan is folded into desired sets (FoldChanges) and *)
(* converged in four phases: TXT add/set, data add/set, data remove, TXT   *)
(* remove.  Within a phase the keys are converged by concurrent workers,   *)
(* one firewall call at a time; after it, the acknowledged writes are read *)
(* back.  Any call can be refused, can take effect although its answer is  *)
(* lost, or can be acknowledged without taking effect, and the apply's     *)
(* deadline can pass between any two calls.                                *)
(*                                                                         *)
(* A name stands for a DNS name together with the registry TXT row that    *)
(* claims it.  Rows are the enabled top-level rows, which are all the      *)
(* snapshot indexes; ttl stands for every field besides the target that    *)
(* fields() writes.  The rows of a key are taken in uuid order, for the    *)
(* order in which the snapshot holds them.                                 *)
(***************************************************************************)
EXTENDS FoldChanges, FiniteSets

CONSTANTS
    UUIDs,      \* row identities (numbers)
    Tables,     \* host override tables a run may start from
    Plans,      \* plans external-dns may send
    Workers,    \* OPNSENSE_APPLY_WORKERS
    MaxFaults,  \* firewall misbehaviours considered, in total
    NoRow       \* no row with this uuid

\* A name has one data record set: the A and the AAAA records of a DNS name
\* have a registry row each and are two names here.
RowKeys   == Nat \X {"A", "TXT"}
HostRows  == [key : RowKeys, target : Nat, ttl : Nat, child : BOOLEAN]
AllTables == [UUIDs -> HostRows \cup {NoRow}]
Endpoints == [key : RowKeys, targets : SUBSET Nat, ttl : Int]
AllPlans  == [Delete : Seq(Endpoints), Create : Seq(Endpoints),
              UpdateNew : Seq(Endpoints)]

ASSUME ApplyAssumption ==
    /\ UUIDs \subseteq Nat /\ IsFiniteSet(UUIDs)
    /\ Workers \in Nat \ {0}
    /\ MaxFaults \in Nat /\ MaxTTL \in Nat
    /\ NoRow \notin HostRows
    /\ Tables \subseteq AllTables
    /\ Plans \subseteq AllPlans

VARIABLES
    saved,      \* external: the firewall's saved table, uuid -> row
    plan,       \* what foldChanges made of the plan
    snap,       \* applyRun.snap: the table as this run believes it to be
    phase,      \* 0 before and after a run, 1..4 the phases, 5 the reload
    stopped,    \* keys whose converge failed in this phase
    failed,     \* keys with desiredSet.failed
    failures,   \* phases that counted a failure
    writes,     \* acknowledged writes of this phase
    errs,       \* the run has collected an error
    wrote,      \* applyRun.wrote
    expired,    \* the run's deadline has passed
    pending,    \* Provider.pending
    result,     \* of the last run: "none", "ok", "error"
    faults,     \* misbehaviours so far
    blind       \* observation only: a lost write escaped a failed re-read

run  == <<stopped, failed, failures, writes, errs, wrote, expired>>
vars == <<saved, plan, snap, phase, run, pending, result, faults, blind>>

-----------------------------------------------------------------------------
(* Rows and desired sets                                                   *)

Rows(table, k) == {u \in UUIDs : table[u] # NoRow /\ table[u].key = k}

TargetsOf(table, k) == {table[u].target : u \in Rows(table, k)}

sets == plan.sets
Keys == DOMAIN sets
Desired(k) == sets[k].targets

\* applyPhases: what a phase selects, and the phase it is gated on.
TXTAdd == 1
DataAdd == 2
DataRemove == 3
TXTRemove == 4

Selected(ph) ==
    {k \in Keys : IF ph \in {TXTAdd, TXTRemove} THEN isTXT(k) ELSE isData(k)}

\* Deliberately wrong: TXT rows are removed whatever became of the data rows.
GatedAddOnly(ph) == ph = DataAdd /\ TXTAdd \in failures

Gated(ph) == \/ ph = DataAdd /\ TXTAdd \in failures
             \/ ph = TXTRemove /\ DataRemove \in failures

Adding(ph)   == ph \in {TXTAdd, DataAdd}
Removing(ph) == ph \in {DataRemove, TXTRemove}

\* addSet, in the snapshot's terms.  Of rows with the same target the last one
\* is the target's row.
Holder(k, t) == Max({u \in Rows(snap, k) : snap[u].target = t})

Stale(k) == {t \in Desired(k) \cap TargetsOf(snap, k) :
                snap[Holder(k, t)].ttl # sets[k].ttl}

Missing(k) == Desired(k) \ TargetsOf(snap, k)

\* Rows the desired set no longer names.
Surplus(k) == {u \in Rows(snap, k) : snap[u].target \notin Desired(k)}

\* Deliberately wrong: a failed add phase does not protect the old rows.
KeptNever(k) == FALSE

\* removeSurplus leaves a key alone whose targets were not all written.
Kept(k) == Desired(k) # {} /\ k \in failed

\* What is left to do for a key in this phase.
Work(k) ==
    /\ k \in Selected(phase) \ stopped
    /\ \/ Adding(phase) /\ (Stale(k) # {} \/ Missing(k) # {})
       \/ Removing(phase) /\ ~Kept(k) /\ Surplus(k) # {}

\* errgroup.SetLimit: keys are started in the order of their names.
Active(k) ==
    /\ phase \in 1..4 /\ ~Gated(phase)
    /\ Work(k)
    /\ Cardinality({j \in Keys : Work(j) /\ NameOf(j) < NameOf(k)}) < Workers

-----------------------------------------------------------------------------
(* One call to the firewall and its possible outcomes                      *)

Free  == {u \in UUIDs : saved[u] = NoRow /\ snap[u] = NoRow}
Fresh == Min(Free)

Row(k, t, child) ==
    [key |-> k, target |-> t, ttl |-> sets[k].ttl, child |-> child]

\* markWrite comes before every write call.
MarkWrite ==
    /\ wrote' = TRUE
    /\ pending' = (pending \/ ~wrote)

\* Deliberately wrong: the key is not marked.
FailUnmarked(k) ==
    /\ stopped' = stopped \cup {k}
    /\ errs' = TRUE
    /\ UNCHANGED failed

\* applyRun.fail: the error stops the key for this phase and marks it.
Fail(k) ==
    /\ stopped' = stopped \cup {k}
    /\ failed' = failed \cup {k}
    /\ errs' = TRUE

Misbehave == faults < MaxFaults /\ faults' = faults + 1

Acknowledge(op, k, u, row) ==
    /\ snap' = [snap EXCEPT ![u] = row]
    /\ writes' = writes \cup {[op |-> op, key |-> k, uuid |-> u, want |-> row]}
    /\ UNCHANGED <<stopped, failed, errs>>

\* The write is saved and acknowledged.
Done(op, k, u, row) ==
    /\ ~expired
    /\ saved' = [saved EXCEPT ![u] = row]
    /\ Acknowledge(op, k, u, row)
    /\ UNCHANGED faults

\* Acknowledged, and never in the table: OPNsense's unlocked config save.
Lost(op, k, u, row) ==
    /\ ~expired
    /\ Misbehave
    /\ Acknowledge(op, k, u, row)
    /\ UNCHANGED saved

\* Saved, and the answer lost.
Unanswered(k, u, row) ==
    /\ ~expired
    /\ Misbehave
    /\ saved' = [saved EXCEPT ![u] = row]
    /\ Fail(k)
    /\ UNCHANGED <<snap, writes>>

\* Refused, unreachable, or past the deadline.
Rejected(k) ==
    /\ IF expired THEN UNCHANGED faults ELSE Misbehave
    /\ Fail(k)
    /\ UNCHANGED <<saved, snap, writes>>

Call(op, k, u, row) ==
    /\ MarkWrite
    /\ \/ Done(op, k, u, row)
       \/ Lost(op, k, u, row)
       \/ Unanswered(k, u, row)
       \/ Rejected(k)
    /\ UNCHANGED <<plan, phase, failures, expired, result, blind>>

-----------------------------------------------------------------------------
(* addSet: fix rows in place, then reuse surplus rows, then create         *)

FixRow(k) ==
    /\ Active(k) /\ Adding(phase)
    /\ Stale(k) # {}
    /\ LET t == Min(Stale(k))
           u == Holder(k, t)
       IN  Call("update", k, u, Row(k, t, snap[u].child))

ReuseRow(k) ==
    /\ Active(k) /\ Adding(phase)
    /\ Stale(k) = {} /\ Missing(k) # {} /\ Surplus(k) # {}
    /\ LET u == Min(Surplus(k))
       IN  Call("update", k, u, Row(k, Min(Missing(k)), snap[u].child))

CreateRow(k) ==
    /\ Active(k) /\ Adding(phase)
    /\ Stale(k) = {} /\ Missing(k) # {} /\ Surplus(k) = {}
    /\ Free # {}
    /\ Call("create", k, Fresh, Row(k, Min(Missing(k)), FALSE))

(* removeSurplus: one row at a time; a row with alias children stops it.   *)

DeleteRow(k) ==
    /\ Active(k) /\ Removing(phase)
    /\ LET u == Min(Surplus(k))
       IN  /\ ~snap[u].child
           /\ Call("delete", k, u, NoRow)

DeleteBlocked(k) ==
    /\ Active(k) /\ Removing(phase)
    /\ snap[Min(Surplus(k))].child
    /\ Fail(k)
    /\ UNCHANGED <<saved, plan, snap, phase, failures, writes, wrote, expired,
                   pending, result, faults, blind>>

-----------------------------------------------------------------------------
(* apply                                                                   *)

\* External: the plan a later reconcile sends.  external-dns deletes a name's
\* TXT record together with its data record and for no other reason: once the
\* data rows are gone, a TXT row that is still there is an orphan that no plan
\* deletes.
Replanned ==
    LET orphans == {k \in Keys : /\ isTXT(k) /\ Desired(k) = {}
                                 /\ Rows(saved, <<NameOf(k), "A">>) = {}}
    IN  IF result = "none" THEN plan
        ELSE [plan EXCEPT !.sets = [k \in Keys \ orphans |-> sets[k]]]

\* Deliberately wrong: the snapshot of the previous run is reused.
ApplyBeginCached ==
    /\ phase = 0
    /\ plan' = Replanned
    /\ snap' = IF result = "none" THEN saved ELSE snap
    /\ phase' = TXTAdd
    /\ stopped' = {} /\ failed' = {} /\ writes' = {}
    /\ failures' = IF plan.rejected # {} THEN {TXTAdd} ELSE {}
    /\ errs' = (plan.errs > 0)
    /\ wrote' = FALSE /\ expired' = FALSE
    /\ UNCHANGED <<saved, pending, result, faults, blind>>

\* Deliberately wrong: marks of the previous run are not dropped.
ApplyBeginMarked ==
    /\ phase = 0
    /\ plan' = Replanned
    /\ snap' = saved
    /\ phase' = TXTAdd
    /\ stopped' = {} /\ failed' = failed /\ writes' = {}
    /\ failures' = IF plan.rejected # {} THEN {TXTAdd} ELSE {}
    /\ errs' = (plan.errs > 0)
    /\ wrote' = FALSE /\ expired' = FALSE
    /\ UNCHANGED <<saved, pending, result, faults, blind>>

\* The first read succeeds and the phases begin.  A TXT key the fold rejected
\* counts against the TXT add phase before it starts.
ApplyBegin ==
    /\ phase = 0
    /\ plan' = Replanned
    /\ snap' = saved
    /\ phase' = TXTAdd
    /\ stopped' = {} /\ failed' = {} /\ writes' = {}
    /\ failures' = IF plan.rejected # {} THEN {TXTAdd} ELSE {}
    /\ errs' = (plan.errs > 0)
    /\ wrote' = FALSE /\ expired' = FALSE
    /\ UNCHANGED <<saved, pending, result, faults, blind>>

\* The first read fails: nothing is written and nothing reloaded.
ApplyNoSnapshot ==
    /\ phase = 0
    /\ Misbehave
    /\ result' = "error"
    /\ UNCHANGED <<saved, plan, snap, phase, run, pending, blind>>

\* markFailed for what a gated-out phase would have written.
SkipPhase ==
    /\ phase \in 1..4 /\ Gated(phase)
    /\ failed' = failed \cup {k \in Selected(phase) : Desired(k) # {}}
    /\ phase' = phase + 1
    /\ UNCHANGED <<saved, plan, snap, stopped, failures, writes, errs, wrote,
                   expired, pending, result, faults, blind>>

\* Deliberately wrong: a row is taken as written by its target.
LandedTarget(w) ==
    IF w.op = "delete"
    THEN saved[w.uuid] = NoRow
    ELSE saved[w.uuid] # NoRow /\ saved[w.uuid].target = w.want.target

\* A present row must read as written, a deleted one must be gone.
Landed(w) ==
    IF w.op = "delete"
    THEN saved[w.uuid] = NoRow
    ELSE /\ saved[w.uuid] # NoRow
         /\ [saved[w.uuid] EXCEPT !.child = w.want.child] = w.want

LostWrites == {w \in writes : ~Landed(w)}

Drained == \A k \in Keys : ~Work(k)

NextPhase(lost) ==
    /\ failures' = IF stopped # {} \/ lost # {}
                   THEN failures \cup {phase} ELSE failures
    /\ failed' = failed \cup {w.key : w \in lost}
    /\ errs' = (errs \/ lost # {})
    /\ writes' = {}
    /\ stopped' = {}
    /\ phase' = phase + 1
    /\ UNCHANGED <<saved, plan, snap, wrote, expired, pending, result>>

\* The phase has drained and its writes, if any, are read back.
EndPhase ==
    /\ phase \in 1..4 /\ ~Gated(phase) /\ Drained
    /\ writes = {} \/ ~expired
    /\ NextPhase(LostWrites)
    /\ UNCHANGED <<faults, blind>>

\* The re-read fails: the apply carries on with what was acknowledged.
EndPhaseUnverified ==
    /\ phase \in 1..4 /\ ~Gated(phase) /\ Drained
    /\ writes # {}
    /\ IF expired THEN UNCHANGED faults ELSE Misbehave
    /\ NextPhase({})
    /\ blind' = (blind \/ LostWrites # {})

\* OPNSENSE_APPLY_TIMEOUT passes.
Deadline ==
    /\ phase \in 1..4 /\ ~expired
    /\ Misbehave
    /\ expired' = TRUE
    /\ UNCHANGED <<saved, plan, snap, phase, stopped, failed, failures, writes,
                   errs, wrote, pending, result, blind>>

\* The trailing reconfigure, on a deadline of its own, and the result.
Finish(ok) ==
    /\ phase = 5
    /\ LET reload == wrote \/ pending
       IN  /\ IF ok THEN UNCHANGED faults ELSE reload /\ Misbehave
           /\ pending' = (reload /\ ~ok)
    /\ result' = IF errs \/ ~ok THEN "error" ELSE "ok"
    /\ phase' = 0
    /\ UNCHANGED <<saved, plan, snap, run, blind>>

-----------------------------------------------------------------------------

Init ==
    /\ saved \in Tables
    /\ \E p \in Plans : plan = foldChanges(p)
    /\ snap = [u \in UUIDs |-> NoRow]
    /\ phase = 0
    /\ stopped = {} /\ failed = {} /\ failures = {} /\ writes = {}
    /\ errs = FALSE /\ wrote = FALSE /\ expired = FALSE
    /\ pending = FALSE
    /\ result = "none"
    /\ faults = 0
    /\ blind = FALSE

Converge(k) ==
    FixRow(k) \/ ReuseRow(k) \/ CreateRow(k) \/ DeleteRow(k) \/ DeleteBlocked(k)

Next ==
    \/ ApplyBegin \/ ApplyNoSnapshot
    \/ \E k \in Keys : Converge(k)
    \/ SkipPhase \/ EndPhase \/ EndPhaseUnverified \/ Deadline
    \/ \E ok \in BOOLEAN : Finish(ok)

Spec == Init /\ [][Next]_vars

\* External-dns reconciles for ever and every call ends; faults are finite.
FairSpec == Spec /\ WF_vars(Next)

-----------------------------------------------------------------------------
(* What the TXT registry guarantees of its plans and tables: a name's data *)
(* endpoints come with its TXT endpoint, which has a target, and are       *)
(* deleted with it, and every data row of a managed name starts out        *)
(* claimed.                                                                *)

RegistryPlan(p) ==
    LET items   == ToSet(Ordered(p))
        desired == {x.endpoint.key : x \in {y \in items : ~y.empty}}
        deleted == {x.endpoint.key : x \in {y \in items : y.empty}}
    IN  /\ desired \cap deleted = {}
        /\ \A x \in items : isTXT(x.endpoint.key) /\ ~x.empty =>
                              x.endpoint.targets # {}
        /\ \A k \in desired : isData(k) => <<NameOf(k), "TXT">> \in desired
        /\ \A k \in deleted : isTXT(k) => <<NameOf(k), "A">> \in deleted

\* The plan describes no registry row, and no deletion, in two ways.
Undisputed(p) ==
    \A x, y \in ToSet(Ordered(p)) :
        /\ x.endpoint.key = y.endpoint.key
        /\ isTXT(x.endpoint.key) \/ x.empty
        => desiredSet(x.endpoint, x.empty) = desiredSet(y.endpoint, y.empty)

Claimed(table) ==
    \A u \in UUIDs : table[u] # NoRow /\ isData(table[u].key) =>
        \E v \in UUIDs : /\ table[v] # NoRow
                         /\ table[v].key = <<NameOf(table[u].key), "TXT">>

\* No two rows of a record set have the same target.
Distinct(table) ==
    \A u, v \in UUIDs :
        /\ u # v /\ table[u] # NoRow /\ table[v] # NoRow
        /\ table[u].key = table[v].key
        => table[u].target # table[v].target

-----------------------------------------------------------------------------
(* Properties                                                              *)

TypeOK ==
    /\ saved \in AllTables /\ snap \in AllTables
    /\ Keys \subseteq RowKeys
    /\ \A k \in Keys : Desired(k) \subseteq Nat /\ sets[k].ttl \in Nat
    /\ phase \in 0..5
    /\ failed \subseteq Keys /\ stopped \subseteq failed
    /\ failures \subseteq 1..4
    /\ \A w \in writes : /\ w.op \in {"create", "update", "delete"}
                         /\ w.key \in Keys /\ w.uuid \in UUIDs
                         /\ w.want \in HostRows \cup {NoRow}
    /\ errs \in BOOLEAN /\ wrote \in BOOLEAN /\ expired \in BOOLEAN
    /\ pending \in BOOLEAN /\ blind \in BOOLEAN
    /\ result \in {"none", "ok", "error"}
    /\ faults \in 0..MaxFaults

\* Invariant I1: at every moment, whatever failed, each data row's name has its
\* registry row, so external-dns can still recognise and delete it.  Excepted
\* is what a failed re-read let through, which the code documents.
OwnedRows == blind \/ Claimed(saved)

\* Invariant I2: a record set the plan wants to keep is never emptied on the
\* way, not even by writes that were acknowledged and lost; and a wanted
\* target that is in the table stays in it.
NeverEmptied ==
    [][\A k \in Keys : Desired(k) # {} =>
          /\ Rows(saved, k) # {} => Rows(saved, k)' # {}
          /\ Desired(k) \cap TargetsOf(saved, k) \subseteq TargetsOf(saved, k)']_vars

\* What a row answers to a query with.
Answer(row) == <<row.target, row.ttl>>

Converged ==
    \A k \in Keys :
        {Answer(saved[u]) : u \in Rows(saved, k)} = Desired(k) \X {sets[k].ttl}

\* A run that reports success has made every record set of the plan exactly
\* what the plan asked for, the targets and the TTL of each: no write that was
\* refused or lost, and no row fixed in place, passes for done.
SuccessIsConverged ==
    phase = 0 /\ result = "ok" /\ ~blind => Converged

\* Invariant I3: repeating a create whose answer was lost finds its row and
\* makes no second one.
NoDuplicates == Distinct(saved)

\* What no retry can get past: a TXT value the firewall cannot hold, and a
\* row to be removed that has a hand-made alias.
Obstructed ==
    \/ plan.rejected # {}
    \/ \E u \in UUIDs : /\ saved[u] # NoRow /\ saved[u].child
                        /\ saved[u].key \in Keys
                        /\ saved[u].target \notin Desired(saved[u].key)

\* Once the firewall behaves, later reconciles finish what failed, whatever
\* combination of lost, refused and unanswered calls came before; only a TXT
\* row whose data rows went first is no longer anybody's to finish.
EventuallyConverged == <>[](Converged \/ Obstructed)
=============================================================================
