--------------------------- MODULE ProviderProofs ---------------------------
(***************************************************************************)
(* Proofs about Provider for every set of keys, targets, applies and       *)
(* reads.                                                                  *)
(***************************************************************************)
EXTENDS Provider, TLAPS

-----------------------------------------------------------------------------
(* Type correctness                                                        *)

\* Every variable keeps its type, and every caller of the provider stays at
\* the program points its own handler has.
LEMMA TypeInit == Init => TypeOK
BY ProcsAssumption
   DEF Init, TypeOK, Table, Procs, ApplierPoints, ReaderPoints, StartupPoints

LEMMA TypeNext == TypeOK /\ [Next]_vars => TypeOK'
<1> SUFFICES ASSUME TypeOK, [Next]_vars
             PROVE  TypeOK'
    OBVIOUS
<1> USE ProcsAssumption
    DEF TypeOK, Table, Procs, ApplierPoints, ReaderPoints, StartupPoints,
        Goto, firewall, flag
<1>1. ASSUME NEW a \in Appliers, ApplyStep(a)
      PROVE  TypeOK'
  <2>1. CASE ApplyCall(a)           BY <2>1 DEF ApplyCall
  <2>2. CASE ApplyLock(a)           BY <2>2 DEF ApplyLock
  <2>3. CASE ApplySnapshotOk(a)     BY <2>3 DEF ApplySnapshotOk
  <2>4. CASE ApplySnapshotFailed(a) BY <2>4 DEF ApplySnapshotFailed
  <2>5. CASE MarkWrite(a)           BY <2>5 DEF MarkWrite
  <2>6. CASE MarkWriteGauge(a)      BY <2>6 DEF MarkWriteGauge
  <2>7. CASE Write(a)
    <3>1. \A rows \in SUBSET Targets : RowWrites(rows) \subseteq SUBSET Targets
          BY DEF RowWrites
    <3>2. saved' \in Table
          BY <2>7, <3>1 DEF Write
    <3> QED BY <2>7, <3>2 DEF Write
  <2>8. CASE ApplyFinish(a)         BY <2>8 DEF ApplyFinish
  <2>9. CASE ApplyNothing(a)        BY <2>9 DEF ApplyNothing
  <2> QED BY <1>1, <2>1, <2>2, <2>3, <2>4, <2>5, <2>6, <2>7, <2>8, <2>9
          DEF ApplyStep
<1>2. ASSUME NEW p \in Procs, ReloadStep(p)
      PROVE  TypeOK'
  <2>1. CASE ReloadLock(p)      BY <2>1 DEF ReloadLock
  <2>2. CASE ReloadNotNeeded(p) BY <2>2 DEF ReloadNotNeeded, Repair
  <2>3. CASE Publish(p)         BY <2>3 DEF Publish
  <2>4. CASE ReloadOk(p)        BY <2>4 DEF ReloadOk
  <2>5. CASE ReloadFailed(p)    BY <2>5 DEF ReloadFailed
  <2>6. CASE ReloadReturns(p)   BY <2>6 DEF ReloadReturns, AfterReload
  <2> QED BY <1>2, <2>1, <2>2, <2>3, <2>4, <2>5, <2>6 DEF ReloadStep
<1>3. ASSUME NEW r \in Readers, ReadStep(r)
      PROVE  TypeOK'
      BY <1>3 DEF ReadStep, RecordsCall, RecordsRead
<1>4. ASSUME StartupStep
      PROVE  TypeOK'
  <2>1. CASE StartupStatus         BY <2>1 DEF StartupStatus
  <2>2. CASE StartupSnapshot       BY <2>2 DEF StartupSnapshot
  <2>3. CASE StartupFailed         BY <2>3 DEF StartupFailed
  <2>4. CASE StartupNothingMissing BY <2>4 DEF StartupNothingMissing
  <2>5. CASE StartupMark           BY <2>5 DEF StartupMark
  <2>6. CASE StartupGauge          BY <2>6 DEF StartupGauge
  <2> QED BY <1>4, <2>1, <2>2, <2>3, <2>4, <2>5, <2>6 DEF StartupStep
<1>5. CASE Crash
      BY <1>5 DEF Crash
<1>6. CASE UNCHANGED vars
      BY <1>6 DEF vars
<1> QED BY <1>1, <1>2, <1>3, <1>4, <1>5, <1>6 DEF Next

\* Type correctness of the whole provider, in every behaviour.
THEOREM TypeCorrect == Spec => []TypeOK
BY TypeInit, TypeNext, PTL DEF Spec

-----------------------------------------------------------------------------
(* The two mutexes                                                         *)

\* applyMu is held exactly between its Lock and Unlock, by one apply, and
\* reconfigureMu likewise by one of all three kinds of callers.
MutexInv ==
    /\ \A a \in Appliers : InApply(a) <=> applyMu = a
    /\ \A p \in Procs : InReload(p) <=> reconfigureMu = p

LEMMA MutexInit == Init => MutexInv
BY ProcsAssumption
   DEF Init, MutexInv, InApply, InReload, Procs, ApplierPoints

LEMMA MutexNext == TypeOK /\ MutexInv /\ [Next]_vars => MutexInv'
<1> SUFFICES ASSUME TypeOK, MutexInv, [Next]_vars
             PROVE  MutexInv'
    OBVIOUS
<1> USE ProcsAssumption
    DEF TypeOK, MutexInv, InApply, InReload, Procs, ApplierPoints,
        ReaderPoints, StartupPoints, Goto, firewall, flag
<1>1. ASSUME NEW a \in Appliers, ApplyStep(a)
      PROVE  MutexInv'
  <2>1. CASE ApplyCall(a)           BY <2>1 DEF ApplyCall
  <2>2. CASE ApplyLock(a)           BY <2>2 DEF ApplyLock
  <2>3. CASE ApplySnapshotOk(a)     BY <2>3 DEF ApplySnapshotOk
  <2>4. CASE ApplySnapshotFailed(a) BY <2>4 DEF ApplySnapshotFailed
  <2>5. CASE MarkWrite(a)           BY <2>5 DEF MarkWrite
  <2>6. CASE MarkWriteGauge(a)      BY <2>6 DEF MarkWriteGauge
  <2>7. CASE Write(a)               BY <2>7 DEF Write
  <2>8. CASE ApplyFinish(a)         BY <2>8 DEF ApplyFinish
  <2>9. CASE ApplyNothing(a)        BY <2>9 DEF ApplyNothing
  <2> QED BY <1>1, <2>1, <2>2, <2>3, <2>4, <2>5, <2>6, <2>7, <2>8, <2>9
          DEF ApplyStep
<1>2. ASSUME NEW p \in Procs, ReloadStep(p)
      PROVE  MutexInv'
  <2>1. CASE ReloadLock(p)      BY <2>1 DEF ReloadLock
  <2>2. CASE ReloadNotNeeded(p) BY <2>2 DEF ReloadNotNeeded, Repair
  <2>3. CASE Publish(p)         BY <2>3 DEF Publish
  <2>4. CASE ReloadOk(p)        BY <2>4 DEF ReloadOk
  <2>5. CASE ReloadFailed(p)    BY <2>5 DEF ReloadFailed
  <2>6. CASE ReloadReturns(p)   BY <2>6 DEF ReloadReturns, AfterReload
  <2> QED BY <1>2, <2>1, <2>2, <2>3, <2>4, <2>5, <2>6 DEF ReloadStep
<1>3. ASSUME NEW r \in Readers, ReadStep(r)
      PROVE  MutexInv'
      BY <1>3 DEF ReadStep, RecordsCall, RecordsRead
<1>4. ASSUME StartupStep
      PROVE  MutexInv'
  <2>1. CASE StartupStatus         BY <2>1 DEF StartupStatus
  <2>2. CASE StartupSnapshot       BY <2>2 DEF StartupSnapshot
  <2>3. CASE StartupFailed         BY <2>3 DEF StartupFailed
  <2>4. CASE StartupNothingMissing BY <2>4 DEF StartupNothingMissing
  <2>5. CASE StartupMark           BY <2>5 DEF StartupMark
  <2>6. CASE StartupGauge          BY <2>6 DEF StartupGauge
  <2> QED BY <1>4, <2>1, <2>2, <2>3, <2>4, <2>5, <2>6 DEF StartupStep
<1>5. CASE Crash
      BY <1>5 DEF Crash
<1>6. CASE UNCHANGED vars
      BY <1>6 DEF vars
<1> QED BY <1>1, <1>2, <1>3, <1>4, <1>5, <1>6 DEF Next

-----------------------------------------------------------------------------
(* Saved and served                                                        *)

\* Somebody alive knows the tables may differ.
Known == pending \/ Obliged

\* Behind a publish: nobody else writes while an apply holds applyMu, so its
\* own publish still stands when it returns; behind anyone else's publish only
\* a run that still owes a reload can have written.
PublishInv ==
    /\ \A a \in Appliers :
          pc[a] \in {"published", "gaugeF"} => saved = served
    /\ \A p \in Procs : pc[p] = "published" /\ saved # served => Obliged

SafeInv == TypeOK /\ MutexInv /\ PublishInv /\ NoSilentDivergence

LEMMA SafeInit == Init => SafeInv
<1> SUFFICES ASSUME Init PROVE SafeInv
    OBVIOUS
<1>1. TypeOK /\ MutexInv
      BY TypeInit, MutexInit
<1>2. PublishInv /\ NoSilentDivergence
      BY ProcsAssumption DEF Init, PublishInv, NoSilentDivergence, Procs
<1> QED BY <1>1, <1>2 DEF SafeInv

\* What a step other than a crash does to the pair of tables: it leaves it
\* alone, makes it equal, or is the write of a run that owes a reload; and
\* knowledge of a difference is given up only when there is none.
LEMMA KnownStays ==
    ASSUME SafeInv, Next, ~Crash
    PROVE  /\ \/ UNCHANGED <<saved, served>>
              \/ saved' = served'
              \/ Obliged'
           /\ Known => Known' \/ saved' = served'
           /\ Obliged => Obliged' \/ pending' \/ saved' = served'
<1> DEFINE Goal == /\ \/ UNCHANGED <<saved, served>>
                      \/ saved' = served'
                      \/ Obliged'
                   /\ Known => Known' \/ saved' = served'
                   /\ Obliged => Obliged' \/ pending' \/ saved' = served'
<1> USE ProcsAssumption
    DEF SafeInv, TypeOK, Procs, Known, Obliged, Owes, Goto, firewall, flag,
        ApplierPoints
<1>1. ASSUME NEW a \in Appliers, ApplyStep(a)
      PROVE  Goal
  <2>1. CASE ApplyCall(a)           BY <2>1 DEF ApplyCall
  <2>2. CASE ApplyLock(a)           BY <2>2 DEF ApplyLock
  <2>3. CASE ApplySnapshotOk(a)     BY <2>3 DEF ApplySnapshotOk
  <2>4. CASE ApplySnapshotFailed(a) BY <2>4 DEF ApplySnapshotFailed
  <2>5. CASE MarkWrite(a)           BY <2>5 DEF MarkWrite
  <2>6. CASE MarkWriteGauge(a)      BY <2>6 DEF MarkWriteGauge
  <2>7. CASE Write(a)               BY <2>7 DEF Write
  <2>8. CASE ApplyFinish(a)         BY <2>8 DEF ApplyFinish
  <2>9. CASE ApplyNothing(a)        BY <2>9 DEF ApplyNothing
  <2> QED BY <1>1, <2>1, <2>2, <2>3, <2>4, <2>5, <2>6, <2>7, <2>8, <2>9
          DEF ApplyStep
<1>2. ASSUME NEW p \in Procs, ReloadStep(p)
      PROVE  Goal
  <2>1. CASE ReloadLock(p)      BY <2>1 DEF ReloadLock
  <2>2. CASE ReloadNotNeeded(p) BY <2>2 DEF ReloadNotNeeded, Repair
  <2>3. CASE Publish(p)         BY <2>3 DEF Publish
  <2>4. CASE ReloadOk(p)
    <3>1. CASE p \in Appliers
          BY <2>4, <3>1 DEF ReloadOk, PublishInv
    <3>2. CASE p \notin Appliers
      <4>1. Obliged => Obliged'
            BY <2>4, <3>2 DEF ReloadOk
      <4> QED BY <2>4, <4>1 DEF ReloadOk, PublishInv
    <3> QED BY <3>1, <3>2
  <2>5. CASE ReloadFailed(p)    BY <2>5 DEF ReloadFailed
  <2>6. CASE ReloadReturns(p)   BY <2>6 DEF ReloadReturns, AfterReload
  <2> QED BY <1>2, <2>1, <2>2, <2>3, <2>4, <2>5, <2>6 DEF ReloadStep
<1>3. ASSUME NEW r \in Readers, ReadStep(r)
      PROVE  Goal
      BY <1>3 DEF ReadStep, RecordsCall, RecordsRead
<1>4. ASSUME StartupStep
      PROVE  Goal
  <2>1. CASE StartupStatus         BY <2>1 DEF StartupStatus
  <2>2. CASE StartupSnapshot       BY <2>2 DEF StartupSnapshot
  <2>3. CASE StartupFailed         BY <2>3 DEF StartupFailed
  <2>4. CASE StartupNothingMissing BY <2>4 DEF StartupNothingMissing
  <2>5. CASE StartupMark           BY <2>5 DEF StartupMark
  <2>6. CASE StartupGauge          BY <2>6 DEF StartupGauge
  <2> QED BY <1>4, <2>1, <2>2, <2>3, <2>4, <2>5, <2>6 DEF StartupStep
<1> QED BY <1>1, <1>2, <1>3, <1>4 DEF Next

LEMMA PublishNext == SafeInv /\ [Next]_vars => PublishInv'
<1> SUFFICES ASSUME SafeInv, [Next]_vars
             PROVE  PublishInv'
    OBVIOUS
<1> USE ProcsAssumption
    DEF SafeInv, TypeOK, MutexInv, InApply, InReload, PublishInv, Procs,
        Obliged, Owes, Goto, firewall, flag, ApplierPoints
<1>1. ASSUME NEW a \in Appliers, ApplyStep(a)
      PROVE  PublishInv'
  <2>1. CASE ApplyCall(a)           BY <2>1 DEF ApplyCall
  <2>2. CASE ApplyLock(a)           BY <2>2 DEF ApplyLock
  <2>3. CASE ApplySnapshotOk(a)     BY <2>3 DEF ApplySnapshotOk
  <2>4. CASE ApplySnapshotFailed(a) BY <2>4 DEF ApplySnapshotFailed
  <2>5. CASE MarkWrite(a)           BY <2>5 DEF MarkWrite
  <2>6. CASE MarkWriteGauge(a)      BY <2>6 DEF MarkWriteGauge
  <2>7. CASE Write(a)               BY <2>7 DEF Write
  <2>8. CASE ApplyFinish(a)         BY <2>8 DEF ApplyFinish
  <2>9. CASE ApplyNothing(a)        BY <2>9 DEF ApplyNothing
  <2> QED BY <1>1, <2>1, <2>2, <2>3, <2>4, <2>5, <2>6, <2>7, <2>8, <2>9
          DEF ApplyStep
<1>2. ASSUME NEW p \in Procs, ReloadStep(p)
      PROVE  PublishInv'
  <2>1. CASE ReloadLock(p)      BY <2>1 DEF ReloadLock
  <2>2. CASE ReloadNotNeeded(p) BY <2>2 DEF ReloadNotNeeded, Repair
  <2>3. CASE Publish(p)         BY <2>3 DEF Publish
  <2>4. CASE ReloadOk(p)        BY <2>4 DEF ReloadOk
  <2>5. CASE ReloadFailed(p)    BY <2>5 DEF ReloadFailed
  <2>6. CASE ReloadReturns(p)   BY <2>6 DEF ReloadReturns, AfterReload
  <2> QED BY <1>2, <2>1, <2>2, <2>3, <2>4, <2>5, <2>6 DEF ReloadStep
<1>3. ASSUME NEW r \in Readers, ReadStep(r)
      PROVE  PublishInv'
      BY <1>3 DEF ReadStep, RecordsCall, RecordsRead
<1>4. ASSUME StartupStep
      PROVE  PublishInv'
  <2>1. CASE StartupStatus         BY <2>1 DEF StartupStatus
  <2>2. CASE StartupSnapshot       BY <2>2 DEF StartupSnapshot
  <2>3. CASE StartupFailed         BY <2>3 DEF StartupFailed
  <2>4. CASE StartupNothingMissing BY <2>4 DEF StartupNothingMissing
  <2>5. CASE StartupMark           BY <2>5 DEF StartupMark
  <2>6. CASE StartupGauge          BY <2>6 DEF StartupGauge
  <2> QED BY <1>4, <2>1, <2>2, <2>3, <2>4, <2>5, <2>6 DEF StartupStep
<1>5. CASE Crash
      BY <1>5 DEF Crash
<1>6. CASE UNCHANGED vars
      BY <1>6 DEF vars
<1> QED BY <1>1, <1>2, <1>3, <1>4, <1>5, <1>6 DEF Next

LEMMA SafeNext == SafeInv /\ [Next]_vars => SafeInv'
<1> SUFFICES ASSUME SafeInv, [Next]_vars
             PROVE  SafeInv'
    OBVIOUS
<1>1. TypeOK' /\ MutexInv' /\ PublishInv'
      BY TypeNext, MutexNext, PublishNext DEF SafeInv
<1>2. NoSilentDivergence'
  <2>1. CASE Crash
        BY <2>1 DEF Crash, NoSilentDivergence
  <2>2. CASE UNCHANGED vars
        BY <2>2 DEF SafeInv, NoSilentDivergence, Obliged, Owes, vars
  <2>3. CASE Next /\ ~Crash
    <3>1. UNCHANGED forgot \/ saved' = served'
          BY <2>3
          DEF Next, ApplyStep, ApplyCall, ApplyLock, ApplySnapshotOk,
              ApplySnapshotFailed, MarkWrite, MarkWriteGauge, Write,
              ApplyFinish, ApplyNothing, ReloadStep, ReloadLock,
              ReloadNotNeeded, Publish, ReloadOk, ReloadFailed, ReloadReturns,
              ReadStep, RecordsCall, RecordsRead, StartupStep, StartupStatus,
              StartupSnapshot, StartupFailed, StartupNothingMissing,
              StartupMark, StartupGauge, firewall
    <3> QED BY <2>3, <3>1, KnownStays DEF SafeInv, NoSilentDivergence, Known
  <2> QED BY <2>1, <2>2, <2>3
<1> QED BY <1>1, <1>2 DEF SafeInv

\* Invariant I4 of the design, for any number of racing applies, reads and
\* restarts: saved and served differ only while the flag is up, a run owes a
\* reload, or a crash wiped the flag.
THEOREM DivergenceIsKnown == Spec => []NoSilentDivergence
<1>1. SafeInv => NoSilentDivergence
      BY DEF SafeInv
<1> QED BY SafeInit, SafeNext, <1>1, PTL DEF Spec

\* An apply that returns after a reload answered "ok", or with nothing to
\* reload, returns with the saved table served.
THEOREM ApplyServes == Spec => ApplyReturnsServed
<1>1. ASSUME SafeInv, [Next]_vars, NEW b \in Appliers,
             pc[b] \in {"gaugeF", "phases"}, pc'[b] = "idle"
      PROVE  saved = served \/ forgot'
  <2> USE <1>1, ProcsAssumption
      DEF SafeInv, TypeOK, Procs, Goto, ApplierPoints, firewall
  <2>1. CASE pc[b] = "gaugeF"
        BY <2>1 DEF PublishInv
  <2>2. CASE Crash
        BY <2>2 DEF Crash
  <2>3. CASE pc[b] = "phases" /\ ~Crash
    <3>1. ApplyNothing(b)
          BY <2>3
          DEF Next, ApplyStep, ApplyCall, ApplyLock, ApplySnapshotOk,
              ApplySnapshotFailed, MarkWrite, MarkWriteGauge, Write,
              ApplyFinish, ApplyNothing, ReloadStep, ReloadLock,
              ReloadNotNeeded, Publish, ReloadOk, ReloadFailed, ReloadReturns,
              ReadStep, RecordsCall, RecordsRead, StartupStep, StartupStatus,
              StartupSnapshot, StartupFailed, StartupNothingMissing,
              StartupMark, StartupGauge, vars
    <3>2. ~Obliged
          BY <2>3, <3>1 DEF ApplyNothing, MutexInv, InApply, Obliged, Owes
    <3> QED BY <3>1, <3>2 DEF ApplyNothing, NoSilentDivergence
  <2> QED BY <2>1, <2>2, <2>3
<1>2. SafeInv /\ [Next]_vars
      => [\A a \in Appliers :
             pc[a] \in {"gaugeF", "phases"} /\ pc'[a] = "idle"
             => saved = served \/ forgot']_vars
      BY <1>1
<1> QED BY SafeInit, SafeNext, <1>2, PTL DEF Spec, ApplyReturnsServed

-----------------------------------------------------------------------------
(* The abstract specification                                              *)

\* Every step of the provider is a step of Publication or changes nothing that
\* Publication speaks of.
LEMMA PublicationStep ==
    SafeInv /\ [Next]_vars => [Promise!Next]_(Promise!vars)
<1> SUFFICES ASSUME SafeInv, [Next]_vars
             PROVE  [Promise!Next]_(Promise!vars)
    OBVIOUS
<1> USE DEF Known
<1>1. CASE Crash
  <2>1. ~Known'
        BY <1>1 DEF Crash, Obliged, Owes
  <2> QED BY <1>1, <2>1 DEF Crash, Promise!Next, Promise!Restart
<1>2. CASE UNCHANGED vars
  <2>1. UNCHANGED <<saved, served, pending \/ Obliged, forgot>>
        BY <1>2 DEF vars, Obliged, Owes
  <2> QED BY <2>1 DEF Promise!vars
<1>3. ASSUME NEW a \in Appliers, Write(a)
      PROVE  [Promise!Next]_(Promise!vars)
  <2>1. Owes(a) /\ Owes(a)'
        BY <1>3 DEF Write, Owes
  <2>2. (pending \/ Obliged) /\ (pending \/ Obliged)'
        BY <2>1 DEF Obliged
  <2>3. saved' \in Table
        BY TypeNext DEF SafeInv, TypeOK
  <2>4. UNCHANGED <<served, forgot>>
        BY <1>3 DEF Write
  <2> QED BY <2>2, <2>3, <2>4 DEF Promise!Next, Promise!Change
<1>4. ASSUME NEW p \in Procs, Publish(p)
      PROVE  [Promise!Next]_(Promise!vars)
  <2>1. \A a \in Appliers : Owes(a)' <=> Owes(a)
        BY <1>4, ProcsAssumption
        DEF Publish, Owes, Goto, SafeInv, TypeOK, Procs
  <2>2. UNCHANGED (pending \/ Obliged)
        BY <1>4, <2>1 DEF Publish, Obliged, flag
  <2> QED BY <1>4, <2>2 DEF Publish, Promise!Next, Promise!Publish
<1>5. CASE /\ Next /\ ~Crash
           /\ \A a \in Appliers : ~Write(a)
           /\ \A p \in Procs : ~Publish(p)
  <2>1. UNCHANGED <<saved, served, forgot>>
        BY <1>5
        DEF Next, ApplyStep, ApplyCall, ApplyLock, ApplySnapshotOk,
            ApplySnapshotFailed, MarkWrite, MarkWriteGauge,
            ApplyFinish, ApplyNothing, ReloadStep, ReloadLock,
            ReloadNotNeeded, ReloadOk, ReloadFailed, ReloadReturns,
            ReadStep, RecordsCall, RecordsRead, StartupStep, StartupStatus,
            StartupSnapshot, StartupFailed, StartupNothingMissing,
            StartupMark, StartupGauge, firewall
  <2>2. CASE Known'
        BY <2>1, <2>2 DEF Promise!Next, Promise!Suspect
  <2>3. CASE ~Known' /\ Known
    <3>1. saved = served
          BY <1>5, <2>1, <2>3, KnownStays
    <3> QED BY <2>1, <2>3, <3>1 DEF Promise!Next, Promise!Settle
  <2>4. CASE ~Known' /\ ~Known
        BY <2>1, <2>4 DEF Promise!vars
  <2> QED BY <2>2, <2>3, <2>4
<1> QED BY <1>1, <1>2, <1>3, <1>4, <1>5

\* The provider implements Publication, for any number of applies, reads,
\* record sets and restarts.
THEOREM ProviderKeepsPublication == Spec => PublicationKept
<1>1. Init => Promise!Init
      BY ProcsAssumption DEF Init, Promise!Init, Obliged, Owes
<1> QED BY <1>1, SafeInit, SafeNext, PublicationStep, PTL
        DEF Spec, PublicationKept, Promise!Spec

-----------------------------------------------------------------------------
(* The gauge                                                               *)

\* A caller that raised the flag on its own account and whose reload, which
\* will set flag and gauge again, has not been answered.
Debt == Obliged \/ pc[Startup] \in {"marked", "lock", "reload", "published"}

GaugeInv ==
    /\ gauge # pending =>
          Debt \/ \E p \in Procs : pc[p] \in {"gaugeF", "gaugeT"}
    /\ \A p \in Procs : pc[p] = "gaugeF" /\ pending => Debt
    /\ \A p \in Procs : pc[p] = "gaugeT" => pending
    /\ \A a \in Appliers : pc[a] = "marked" => wrote[a]

LEMMA GaugeNext == TypeOK /\ MutexInv /\ GaugeInv /\ [Next]_vars => GaugeInv'
<1> SUFFICES ASSUME TypeOK, MutexInv, GaugeInv, [Next]_vars
             PROVE  GaugeInv'
    OBVIOUS
<1> USE ProcsAssumption
    DEF TypeOK, MutexInv, InReload, GaugeInv, Debt, Procs,
        Obliged, Owes, Goto, firewall, flag, ApplierPoints, StartupPoints
<1>1. ASSUME NEW a \in Appliers, ApplyStep(a)
      PROVE  GaugeInv'
  <2>1. CASE ApplyCall(a)           BY <2>1 DEF ApplyCall
  <2>2. CASE ApplyLock(a)           BY <2>2 DEF ApplyLock
  <2>3. CASE ApplySnapshotOk(a)     BY <2>3 DEF ApplySnapshotOk
  <2>4. CASE ApplySnapshotFailed(a) BY <2>4 DEF ApplySnapshotFailed
  <2>5. CASE MarkWrite(a)           BY <2>5 DEF MarkWrite
  <2>6. CASE MarkWriteGauge(a)      BY <2>6 DEF MarkWriteGauge
  <2>7. CASE Write(a)               BY <2>7 DEF Write
  <2>8. CASE ApplyFinish(a)         BY <2>8 DEF ApplyFinish
  <2>9. CASE ApplyNothing(a)        BY <2>9 DEF ApplyNothing
  <2> QED BY <1>1, <2>1, <2>2, <2>3, <2>4, <2>5, <2>6, <2>7, <2>8, <2>9
          DEF ApplyStep
<1>2. ASSUME NEW p \in Procs, ReloadStep(p)
      PROVE  GaugeInv'
  <2>1. CASE ReloadLock(p)      BY <2>1 DEF ReloadLock
  <2>2. CASE ReloadNotNeeded(p) BY <2>2 DEF ReloadNotNeeded, Repair
  <2>3. CASE Publish(p)         BY <2>3 DEF Publish
  <2>4. CASE ReloadOk(p)        BY <2>4 DEF ReloadOk
  <2>5. CASE ReloadFailed(p)    BY <2>5 DEF ReloadFailed
  <2>6. CASE ReloadReturns(p)   BY <2>6 DEF ReloadReturns, AfterReload
  <2> QED BY <1>2, <2>1, <2>2, <2>3, <2>4, <2>5, <2>6 DEF ReloadStep
<1>3. ASSUME NEW r \in Readers, ReadStep(r)
      PROVE  GaugeInv'
      BY <1>3 DEF ReadStep, RecordsCall, RecordsRead
<1>4. ASSUME StartupStep
      PROVE  GaugeInv'
  <2>1. CASE StartupStatus         BY <2>1 DEF StartupStatus
  <2>2. CASE StartupSnapshot       BY <2>2 DEF StartupSnapshot
  <2>3. CASE StartupFailed         BY <2>3 DEF StartupFailed
  <2>4. CASE StartupNothingMissing BY <2>4 DEF StartupNothingMissing
  <2>5. CASE StartupMark           BY <2>5 DEF StartupMark
  <2>6. CASE StartupGauge          BY <2>6 DEF StartupGauge
  <2> QED BY <1>4, <2>1, <2>2, <2>3, <2>4, <2>5, <2>6 DEF StartupStep
<1>5. CASE Crash
      BY <1>5 DEF Crash
<1>6. CASE UNCHANGED vars
      BY <1>6 DEF vars
<1> QED BY <1>1, <1>2, <1>3, <1>4, <1>5, <1>6 DEF Next

\* With no request between raising the flag and the end of its reload, the
\* pending_reconfigure gauge shows the flag.
THEOREM GaugeAgrees == Spec => []GaugeSettles
<1> DEFINE I == TypeOK /\ MutexInv /\ GaugeInv
<1>1. Init => I
      BY TypeInit, MutexInit, ProcsAssumption
      DEF Init, GaugeInv, Procs
<1>2. I /\ [Next]_vars => I'
      BY TypeNext, MutexNext, GaugeNext
<1>3. I => GaugeSettles
      BY ProcsAssumption
      DEF GaugeInv, GaugeSettles, Quiet, Debt, Obliged, Owes, Procs
<1> QED BY <1>1, <1>2, <1>3, PTL DEF Spec

-----------------------------------------------------------------------------
(* The startup check                                                       *)

\* From the moment Startup has its snapshot, a record set it did not see and
\* that is unserved is one a live apply is responsible for; once it has found
\* nothing missing, or its reload was answered, that holds for all of them.
RestartInv ==
    /\ pc[Startup] = "list" =>
          \A k \in Keys : Unserved(k) /\ snap[k] = {} => Known
    /\ pc[Startup] \in {"gaugeF", "checked"} =>
          \A k \in Keys : Unserved(k) => Known

LEMMA RestartNext == SafeInv /\ RestartInv /\ [Next]_vars => RestartInv'
<1> SUFFICES ASSUME SafeInv, RestartInv, [Next]_vars
             PROVE  RestartInv'
    OBVIOUS
<1>1. CASE Crash
      BY <1>1, ProcsAssumption DEF Crash, RestartInv, Procs
<1>2. CASE UNCHANGED vars
      BY <1>2 DEF vars, RestartInv, Unserved, Known, Obliged, Owes
<1>3. CASE Next /\ ~Crash
  <2>1. ASSUME NEW k \in Keys, Unserved(k)'
        PROVE  Known' \/ (Unserved(k) /\ ~Known)
    <3>1. saved' # served'
          BY <2>1 DEF Unserved
    <3> QED BY <1>3, <2>1, <3>1, KnownStays DEF Unserved, Known
  <2>2. ASSUME pc'[Startup] = "list"
        PROVE  (pc[Startup] = "list" /\ snap' = snap) \/ snap' = saved'
        BY <1>3, <2>2, ProcsAssumption
        DEF SafeInv, TypeOK, Procs, Goto, Next, ApplyStep, ApplyCall, ApplyLock, ApplySnapshotOk,
            ApplySnapshotFailed, MarkWrite, MarkWriteGauge, Write,
            ApplyFinish, ApplyNothing, ReloadStep, ReloadLock,
            ReloadNotNeeded, Publish, ReloadOk, ReloadFailed, ReloadReturns,
            ReadStep, RecordsCall, RecordsRead, StartupStep, StartupStatus,
            StartupSnapshot, StartupFailed, StartupNothingMissing,
            StartupMark, StartupGauge, AfterReload, Repair, firewall
  <2>3. ASSUME pc'[Startup] \in {"gaugeF", "checked"}
        PROVE  \/ pc[Startup] \in {"gaugeF", "checked"}
               \/ StartupNothingMissing
               \/ ReloadOk(Startup)
        BY <1>3, <2>3, ProcsAssumption
        DEF SafeInv, TypeOK, Procs, Goto, Next, ApplyStep, ApplyCall, ApplyLock, ApplySnapshotOk,
            ApplySnapshotFailed, MarkWrite, MarkWriteGauge, Write,
            ApplyFinish, ApplyNothing, ReloadStep, ReloadLock,
            ReloadNotNeeded, Publish, ReloadOk, ReloadFailed, ReloadReturns,
            ReadStep, RecordsCall, RecordsRead, StartupStep, StartupStatus,
            StartupSnapshot, StartupFailed, StartupNothingMissing,
            StartupMark, StartupGauge, AfterReload, Repair, firewall
  <2>4. ASSUME pc'[Startup] = "list", NEW k \in Keys, Unserved(k)',
               snap'[k] = {}
        PROVE  Known'
        BY <2>1, <2>2, <2>4 DEF RestartInv, Unserved
  <2>5. ASSUME pc'[Startup] \in {"gaugeF", "checked"}, NEW k \in Keys,
               Unserved(k)'
        PROVE  Known'
    <3>1. CASE pc[Startup] \in {"gaugeF", "checked"}
          BY <2>1, <2>5, <3>1 DEF RestartInv
    <3>2. CASE StartupNothingMissing
          BY <2>1, <2>5, <3>2
          DEF StartupNothingMissing, Missing, RestartInv, Unserved
    <3>3. CASE ReloadOk(Startup)
      <4>1. Unserved(k) => Known
            BY <3>3 DEF ReloadOk, SafeInv, PublishInv, Unserved, Known, Procs
      <4> QED BY <2>1, <2>5, <4>1
    <3> QED BY <2>3, <2>5, <3>1, <3>2, <3>3
  <2> QED BY <2>4, <2>5 DEF RestartInv
<1> QED BY <1>1, <1>2, <1>3 DEF vars

\* A completed startup check leaves no record set wholly unserved behind a
\* cleared flag, however applies and reads interleave with its two reads.
THEOREM RestartIsCovered == Spec => []RestartCovered
<1> DEFINE I == SafeInv /\ RestartInv
<1>1. Init => I
      BY SafeInit, ProcsAssumption DEF Init, RestartInv, Procs
<1>2. I /\ [Next]_vars => I'
      BY SafeNext, RestartNext
<1>3. I => RestartCovered
      BY DEF RestartInv, RestartCovered, Known
<1> QED BY <1>1, <1>2, <1>3, PTL DEF Spec
=============================================================================
