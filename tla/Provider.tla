------------------------------ MODULE Provider ------------------------------
(***************************************************************************)
(* The concurrent core of internal/opnsense/provider.go.                   *)
(*                                                                         *)
(* OPNsense keeps two tables: the SAVED configuration, which every write   *)
(* call changes, and the SERVED one, which Unbound answers from and which  *)
(* only a reconfigure replaces.  The webhook must not let them drift apart *)
(* unnoticed.  It has one volatile flag for that, pending, set before the  *)
(* first write of an apply and cleared by a successful reconfigure, and    *)
(* three kinds of callers that race on it: ApplyChanges requests           *)
(* (serialised by applyMu), Records requests (which repair a pending       *)
(* reconfigure) and the Startup goroutine (which rebuilds the flag after a *)
(* restart from what Unbound serves).  The reload itself is serialised by  *)
(* reconfigureMu.                                                          *)
(*                                                                         *)
(* What one apply writes, and in which order, is module Apply; here an     *)
(* apply is any sequence of row writes.  Reading the table is one step     *)
(* here; how it is paged is module SnapshotRead.                           *)
(***************************************************************************)
EXTENDS Naturals, FiniteSets

CONSTANTS
    Keys,       \* record sets (rowKey: name and type) the webhook manages
    Targets,    \* contents a row of a record set can have
    Appliers,   \* concurrent POST /records requests
    Readers,    \* concurrent GET /records requests
    Startup,    \* the goroutine cmd/main.go starts once per process
    None        \* no process: an unlocked mutex

Procs == Appliers \cup Readers \cup {Startup}

ASSUME ProcsAssumption ==
    /\ Appliers \cap Readers = {}
    /\ Startup \notin Appliers \cup Readers
    /\ None \notin Procs

VARIABLES
    saved,          \* the firewall's saved table: key -> row contents
    served,         \* what Unbound answers from
    pending,        \* Provider.pending, an atomic.Bool
    gauge,          \* the pending_reconfigure metric, set after the flag
    applyMu,        \* the process holding Provider.applyMu, or None
    reconfigureMu,  \* the process holding Provider.reconfigureMu, or None
    pc,             \* where each request is
    wrote,          \* applyRun.wrote of the request's run
    snap,           \* the snapshot Startup compares with the served table
    forgot          \* observation only: a crash lost the flag for a difference

vars == <<saved, served, pending, gauge, applyMu, reconfigureMu, pc, wrote,
          snap, forgot>>

firewall == <<saved, served, forgot>>
flag     == <<pending, gauge>>

Table == [Keys -> SUBSET Targets]

-----------------------------------------------------------------------------
(* Program points.                                                         *)

ApplierPoints == {"idle", "applyMu", "snapshot", "phases", "marked",
                  "lock", "reload", "published", "gaugeF", "gaugeT"}
ReaderPoints  == {"idle", "lock", "reload", "published", "gaugeF", "gaugeT",
                  "read"}
StartupPoints == {"status", "snapshot", "list", "marked", "lock", "reload",
                  "published", "gaugeF", "gaugeT", "checked", "gaveup"}

\* Between Lock and Unlock of applyMu, and of reconfigureMu.
InApply(p)  == pc[p] \in ApplierPoints \ {"idle", "applyMu"}
InReload(p) == pc[p] \in {"reload", "published", "gaugeF", "gaugeT"}

\* A run that marked a write and has not had the answer of its own reload.
Owes(a) == wrote[a] /\ pc[a] \in {"phases", "marked", "lock", "reload",
                                  "published"}

Obliged == \E a \in Appliers : Owes(a)

\* Saved and unserved as servedStateCheck sees it: whole record sets only.
Unserved(k) == saved[k] # {} /\ served[k] = {}

-----------------------------------------------------------------------------
(* A process starts with pending false (NewProvider); what the firewall    *)
(* saves and serves is whatever the last process left.                     *)

Init ==
    /\ saved \in Table
    /\ served \in Table
    /\ pending = FALSE
    /\ gauge = FALSE
    /\ applyMu = None
    /\ reconfigureMu = None
    /\ pc = [p \in Procs |-> IF p = Startup THEN "status" ELSE "idle"]
    /\ wrote = [a \in Appliers |-> FALSE]
    /\ snap = [k \in Keys |-> {}]
    /\ forgot = (saved # served)

Goto(p, point) == pc' = [pc EXCEPT ![p] = point]

-----------------------------------------------------------------------------
(* ApplyChanges                                                            *)

\* A request arrives and waits for the single-writer lock.
ApplyCall(a) ==
    /\ pc[a] = "idle"
    /\ Goto(a, "applyMu")
    /\ UNCHANGED <<firewall, flag, applyMu, reconfigureMu, wrote, snap>>

\* Deliberately wrong: the single-writer lock is not taken.
ApplyLockUnguarded(a) ==
    /\ pc[a] = "applyMu"
    /\ applyMu' = a
    /\ wrote' = [wrote EXCEPT ![a] = FALSE]
    /\ Goto(a, "snapshot")
    /\ UNCHANGED <<firewall, flag, reconfigureMu, snap>>

ApplyLock(a) ==
    /\ pc[a] = "applyMu"
    /\ applyMu = None
    /\ applyMu' = a
    /\ wrote' = [wrote EXCEPT ![a] = FALSE]
    /\ Goto(a, "snapshot")
    /\ UNCHANGED <<firewall, flag, reconfigureMu, snap>>

ApplySnapshotOk(a) ==
    /\ pc[a] = "snapshot"
    /\ Goto(a, "phases")
    /\ UNCHANGED <<firewall, flag, applyMu, reconfigureMu, wrote, snap>>

\* Deliberately wrong: the early return leaves applyMu locked.
ApplySnapshotFailedHolding(a) ==
    /\ pc[a] = "snapshot"
    /\ Goto(a, "idle")
    /\ UNCHANGED <<firewall, flag, applyMu, reconfigureMu, wrote, snap>>

\* The first read failed: apply returns at once, without a reconfigure.
ApplySnapshotFailed(a) ==
    /\ pc[a] = "snapshot"
    /\ applyMu' = None
    /\ Goto(a, "idle")
    /\ UNCHANGED <<firewall, flag, reconfigureMu, wrote, snap>>

\* markWrite, before the first write: setPending(true) stores the flag ...
MarkWrite(a) ==
    /\ pc[a] = "phases"
    /\ ~wrote[a]
    /\ wrote' = [wrote EXCEPT ![a] = TRUE]
    /\ pending' = TRUE
    /\ Goto(a, "marked")
    /\ UNCHANGED <<firewall, gauge, applyMu, reconfigureMu, snap>>

\* ... and then sets the gauge; run.mu keeps every write of the run behind it.
MarkWriteGauge(a) ==
    /\ pc[a] = "marked"
    /\ gauge' = TRUE
    /\ Goto(a, "phases")
    /\ UNCHANGED <<firewall, pending, applyMu, reconfigureMu, wrote, snap>>

\* One createRow, setRow or delete of a row; the call may also leave the
\* table as it was (rejected, or acknowledged and not kept).
RowWrites(rows) ==
    {rows} \cup {rows \cup {t} : t \in Targets}
           \cup {rows \ {t} : t \in Targets}
           \cup {(rows \ {t}) \cup {u} : t \in rows, u \in Targets}

\* Deliberately wrong: a row is written before the run is marked.
WriteUnmarked(a) ==
    /\ pc[a] = "phases"
    /\ \E k \in Keys : \E rows \in RowWrites(saved[k]) :
          saved' = [saved EXCEPT ![k] = rows]
    /\ UNCHANGED <<served, forgot, flag, applyMu, reconfigureMu, pc, wrote,
                   snap>>

Write(a) ==
    /\ pc[a] = "phases"
    /\ wrote[a]
    /\ \E k \in Keys : \E rows \in RowWrites(saved[k]) :
          saved' = [saved EXCEPT ![k] = rows]
    /\ UNCHANGED <<served, forgot, flag, applyMu, reconfigureMu, pc, wrote,
                   snap>>

\* The phases have drained: reload if the run wrote or a reload is still owed
\* by an earlier one.
ApplyFinish(a) ==
    /\ pc[a] = "phases"
    /\ wrote[a] \/ pending
    /\ Goto(a, "lock")
    /\ UNCHANGED <<firewall, flag, applyMu, reconfigureMu, wrote, snap>>

ApplyNothing(a) ==
    /\ pc[a] = "phases"
    /\ ~wrote[a] /\ ~pending
    /\ applyMu' = None
    /\ Goto(a, "idle")
    /\ UNCHANGED <<firewall, flag, reconfigureMu, wrote, snap>>

-----------------------------------------------------------------------------
(* reconfigure(repair), reached by all three callers                       *)

\* Deliberately wrong: an apply's trailing reload is also treated as a repair.
RepairAlways(p) == TRUE

\* Only a Records call passes repair = true.
Repair(p) == p \in Readers

ReloadLock(p) ==
    /\ pc[p] = "lock"
    /\ reconfigureMu = None
    /\ ~Repair(p) \/ pending
    /\ reconfigureMu' = p
    /\ Goto(p, "reload")
    /\ UNCHANGED <<firewall, flag, applyMu, wrote, snap>>

\* Another caller did the repair while this one waited for the lock.
ReloadNotNeeded(p) ==
    /\ pc[p] = "lock"
    /\ reconfigureMu = None
    /\ Repair(p) /\ ~pending
    /\ Goto(p, "read")
    /\ UNCHANGED <<firewall, flag, applyMu, reconfigureMu, wrote, snap>>

\* External: the firewall renders the saved table and restarts Unbound.
Publish(p) ==
    /\ pc[p] = "reload"
    /\ served' = saved
    /\ forgot' = FALSE
    /\ Goto(p, "published")
    /\ UNCHANGED <<saved, flag, applyMu, reconfigureMu, wrote, snap>>

\* The call answered "ok": setPending(false) stores the flag.
ReloadOk(p) ==
    /\ pc[p] = "published"
    /\ pending' = FALSE
    /\ Goto(p, "gaugeF")
    /\ UNCHANGED <<firewall, gauge, applyMu, reconfigureMu, wrote, snap>>

\* Deliberately wrong: a failed reload trusts the flag markWrite set.
ReloadFailedNoMark(p) ==
    /\ pc[p] \in {"reload", "published"}
    /\ Goto(p, "gaugeT")
    /\ UNCHANGED <<firewall, flag, applyMu, reconfigureMu, wrote, snap>>

\* The call failed, before or after the firewall acted on it.
ReloadFailed(p) ==
    /\ pc[p] \in {"reload", "published"}
    /\ pending' = TRUE
    /\ Goto(p, "gaugeT")
    /\ UNCHANGED <<firewall, gauge, applyMu, reconfigureMu, wrote, snap>>

AfterReload(p, ok) ==
    IF p = Startup THEN IF ok THEN "checked" ELSE "gaveup"
    ELSE IF ok /\ p \in Readers THEN "read" ELSE "idle"

\* Deliberately wrong: only a failure is reported to the gauge.
ReloadReturnsNoReset(p) ==
    /\ pc[p] \in {"gaugeF", "gaugeT"}
    /\ gauge' = (gauge \/ pc[p] = "gaugeT")
    /\ reconfigureMu' = None
    /\ applyMu' = IF p \in Appliers THEN None ELSE applyMu
    /\ Goto(p, AfterReload(p, pc[p] = "gaugeF"))
    /\ UNCHANGED <<firewall, pending, wrote, snap>>

\* setPending sets the gauge, reconfigure unlocks and its caller carries on:
\* an apply returns, a read goes on to its snapshot or fails.
ReloadReturns(p) ==
    /\ pc[p] \in {"gaugeF", "gaugeT"}
    /\ gauge' = (pc[p] = "gaugeT")
    /\ reconfigureMu' = None
    /\ applyMu' = IF p \in Appliers THEN None ELSE applyMu
    /\ Goto(p, AfterReload(p, pc[p] = "gaugeF"))
    /\ UNCHANGED <<firewall, pending, wrote, snap>>

-----------------------------------------------------------------------------
(* Records                                                                 *)

\* Deliberately wrong: a read does not repair.
RecordsCallNoRepair(r) ==
    /\ pc[r] = "idle"
    /\ Goto(r, "read")
    /\ UNCHANGED <<firewall, flag, applyMu, reconfigureMu, wrote, snap>>

RecordsCall(r) ==
    /\ pc[r] = "idle"
    /\ Goto(r, IF pending THEN "lock" ELSE "read")
    /\ UNCHANGED <<firewall, flag, applyMu, reconfigureMu, wrote, snap>>

\* The snapshot is read and returned (or the read fails).
RecordsRead(r) ==
    /\ pc[r] = "read"
    /\ Goto(r, "idle")
    /\ UNCHANGED <<firewall, flag, applyMu, reconfigureMu, wrote, snap>>

-----------------------------------------------------------------------------
(* Startup and servedStateCheck                                            *)

StartupStatus ==
    /\ pc[Startup] = "status"
    /\ Goto(Startup, "snapshot")
    /\ UNCHANGED <<firewall, flag, applyMu, reconfigureMu, wrote, snap>>

StartupSnapshot ==
    /\ pc[Startup] = "snapshot"
    /\ snap' = saved
    /\ Goto(Startup, "list")
    /\ UNCHANGED <<firewall, flag, applyMu, reconfigureMu, wrote>>

\* Any of the three calls fails: logged, and never tried again.
StartupFailed ==
    /\ pc[Startup] \in {"status", "snapshot", "list"}
    /\ Goto(Startup, "gaveup")
    /\ UNCHANGED <<firewall, flag, applyMu, reconfigureMu, wrote, snap>>

\* Deliberately wrong: the difference is taken the other way round.
MissingInverted == {k \in Keys : served[k] # {} /\ snap[k] = {}}

\* ListLocalData answers; rows are looked up by name and type only.
Missing == {k \in Keys : snap[k] # {} /\ served[k] = {}}

StartupNothingMissing ==
    /\ pc[Startup] = "list"
    /\ Missing = {}
    /\ Goto(Startup, "checked")
    /\ UNCHANGED <<firewall, flag, applyMu, reconfigureMu, wrote, snap>>

StartupMark ==
    /\ pc[Startup] = "list"
    /\ Missing # {}
    /\ pending' = TRUE
    /\ Goto(Startup, "marked")
    /\ UNCHANGED <<firewall, gauge, applyMu, reconfigureMu, wrote, snap>>

StartupGauge ==
    /\ pc[Startup] = "marked"
    /\ gauge' = TRUE
    /\ Goto(Startup, "lock")
    /\ UNCHANGED <<firewall, pending, applyMu, reconfigureMu, wrote, snap>>

-----------------------------------------------------------------------------
(* The process is killed and restarted: everything volatile is lost, the   *)
(* firewall keeps both tables.                                             *)

Crash ==
    /\ pending' = FALSE
    /\ gauge' = FALSE
    /\ applyMu' = None
    /\ reconfigureMu' = None
    /\ pc' = [p \in Procs |-> IF p = Startup THEN "status" ELSE "idle"]
    /\ wrote' = [a \in Appliers |-> FALSE]
    /\ snap' = [k \in Keys |-> {}]
    /\ forgot' = (saved # served)
    /\ UNCHANGED <<saved, served>>

-----------------------------------------------------------------------------

ApplyStep(a) ==
    \/ ApplyCall(a) \/ ApplyLock(a)
    \/ ApplySnapshotOk(a) \/ ApplySnapshotFailed(a)
    \/ MarkWrite(a) \/ MarkWriteGauge(a) \/ Write(a)
    \/ ApplyFinish(a) \/ ApplyNothing(a)

ReloadStep(p) ==
    \/ ReloadLock(p) \/ ReloadNotNeeded(p) \/ Publish(p)
    \/ ReloadOk(p) \/ ReloadFailed(p) \/ ReloadReturns(p)

ReadStep(r) == RecordsCall(r) \/ RecordsRead(r)

StartupStep ==
    \/ StartupStatus \/ StartupSnapshot \/ StartupFailed
    \/ StartupNothingMissing \/ StartupMark \/ StartupGauge

Next ==
    \/ \E a \in Appliers : ApplyStep(a)
    \/ \E p \in Procs : ReloadStep(p)
    \/ \E r \in Readers : ReadStep(r)
    \/ StartupStep
    \/ Crash

Spec == Init /\ [][Next]_vars

\* Fairness.  A goroutine that can run does; every call has a timeout, so every
\* request moves on; a Go mutex does not starve a waiting apply; external-dns
\* keeps reading; and a firewall that is asked to reload over and over is not
\* down for ever.  Nothing makes a client apply, a write succeed or a crash
\* happen.
Fairness ==
    /\ \A a \in Appliers :
          /\ SF_vars(ApplyLock(a))
          /\ WF_vars(ApplySnapshotOk(a) \/ ApplySnapshotFailed(a))
          /\ WF_vars(MarkWriteGauge(a))
          /\ WF_vars(ApplyFinish(a) \/ ApplyNothing(a))
          /\ SF_vars(ReloadLock(a))
    /\ \A r \in Readers : WF_vars(ReadStep(r))
    /\ WF_vars(StartupStep)
    /\ \A p \in Procs : WF_vars(ReloadStep(p))
    /\ SF_vars(\E p \in Procs : Publish(p))

FairSpec == Spec /\ Fairness

-----------------------------------------------------------------------------
(* Properties                                                              *)

TypeOK ==
    /\ saved \in Table /\ served \in Table /\ snap \in Table
    /\ pending \in BOOLEAN /\ gauge \in BOOLEAN /\ forgot \in BOOLEAN
    /\ applyMu \in Appliers \cup {None}
    /\ reconfigureMu \in Procs \cup {None}
    /\ pc \in [Procs -> ApplierPoints \cup ReaderPoints \cup StartupPoints]
    /\ \A a \in Appliers : pc[a] \in ApplierPoints
    /\ \A r \in Readers : pc[r] \in ReaderPoints
    /\ pc[Startup] \in StartupPoints
    /\ wrote \in [Appliers -> BOOLEAN]

\* Invariant I4 of the design: the served table differs from the saved one
\* only while somebody knows it.  Either the pending flag is up (the next read
\* or apply reloads), or a run that wrote has its own reload still ahead of
\* it, or a crash wiped the flag.  The hard case is a read's repair that
\* publishes, lets an apply write, and only then clears the flag.
NoSilentDivergence ==
    saved # served => pending \/ Obliged \/ forgot

\* The flag and its gauge are stored one after the other by callers that race
\* (setPending has no lock).  They may disagree meanwhile, never for good:
\* with no request in flight the gauge an alert watches is the flag.
Quiet == /\ \A a \in Appliers : pc[a] \in {"idle", "applyMu", "snapshot"}
         /\ \A r \in Readers : pc[r] \in {"idle", "read"}
         /\ pc[Startup] \in {"status", "snapshot", "list", "checked",
                             "gaveup"}

GaugeSettles == Quiet => gauge = pending

\* Once the startup check has completed, no record set is wholly unserved
\* behind a cleared flag, whatever the crash lost and whatever applies ran
\* between its two reads.
RestartCovered ==
    pc[Startup] = "checked" =>
        \A k \in Keys : Unserved(k) => pending \/ Obliged

\* An ApplyChanges whose trailing reconfigure was answered "ok", or that had
\* nothing to reload, leaves the two tables equal at the moment it returns
\* (or differing only by what a crash forgot), repairs by reads included.
ApplyReturnsServed ==
    [][\A a \in Appliers :
          pc[a] \in {"gaugeF", "phases"} /\ pc'[a] = "idle"
          => saved = served \/ forgot']_vars

\* What no crash has hidden is eventually served, although no client need
\* ever apply again: a read's repair is enough.
DivergenceRepaired ==
    saved # served /\ ~forgot ~> saved = served \/ forgot

\* Every ApplyChanges that arrives returns: the two locks are always released
\* and are never waited for in a circle.
ApplyReturns ==
    \A a \in Appliers : pc[a] = "applyMu" ~> pc[a] = "idle"

\* The provider implements Publication: whatever its callers interleave, the
\* saved table changes only while the flag is up or a run owes its reload, and
\* the last of these is given up only with the saved table served.
Promise == INSTANCE Publication WITH
    Tables <- Table, known <- pending \/ Obliged

PublicationKept == Promise!Spec

\* Documented for the startup check: a managed row that is saved and not
\* served triggers a reconfigure; so, once it has completed, every saved row
\* is served or known not to be.
RestartRepairs ==
    pc[Startup] = "checked" =>
        \/ \A k \in Keys : saved[k] \subseteq served[k]
        \/ pending \/ Obliged
=============================================================================
