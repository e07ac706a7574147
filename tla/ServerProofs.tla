---------------------------- MODULE ServerProofs ----------------------------
(***************************************************************************)
(* Proofs about Server for every number of requests and every setting of   *)
(* the timeouts.                                                           *)
(***************************************************************************)
EXTENDS Server, TLAPS

-----------------------------------------------------------------------------
(* Type correctness                                                        *)

LEMMA TypeInit == Init => TypeOK
<1> SUFFICES ASSUME Init
             PROVE  TypeOK
    OBVIOUS
<1> USE ServerAssumption DEF Init
<1>1. srv \in [Servers -> {"listening"}] /\ down \in [Servers -> {0}]
      OBVIOUS
<1>2. pc \in [Procs -> Points] /\ spent \in [Procs -> {0}]
      BY DEF Points
<1>3. \A p \in Procs : pc[p] \notin Timed
      BY DEF Timed
<1>4. /\ wrote \in [Appliers -> BOOLEAN] /\ waited \in [Appliers -> BOOLEAN]
      /\ age \in [Appliers -> {0}]
      OBVIOUS
<1>5. writeTimeout \in Nat
      OBVIOUS
<1>6. /\ down \in [Servers -> 0..ShutdownTimeout] /\ spent \in [Procs -> Nat]
      /\ age \in [Appliers -> 0..(writeTimeout + 1)]
      BY <1>1, <1>2, <1>4, <1>5
<1>7. srv \in [Servers -> {"listening", "stopping", "closed", "failed",
                           "forced"}]
      BY <1>1
<1> QED BY <1>2, <1>3, <1>4, <1>6, <1>7 DEF TypeOK

\* No stage outlives its context and no shutdown its grace, because time does
\* not pass while either is due.
LEMMA TypeNext == TypeOK /\ [Next]_vars => TypeOK'
<1> SUFFICES ASSUME TypeOK, [Next]_vars
             PROVE  TypeOK'
    OBVIOUS
<1> USE ServerAssumption
    DEF TypeOK, Procs, Requests, Callers, Servers, Points, Timed, Limit,
        Enter, process, locks, clocks
<1>1. CASE MainStep
      BY <1>1 DEF MainStep, Boot, Exit
<1>2. CASE Tick
  <2>1. spent' \in [Procs -> Nat] /\ waited' \in [Appliers -> BOOLEAN]
        BY <1>2 DEF Tick
  <2>2. \A p \in Procs : pc[p] \in Timed => spent'[p] <= Limit(pc[p])
        BY <1>2 DEF Tick, Quiet, Due
  <2>3. age' \in [Appliers -> 0..(writeTimeout + 1)]
        BY <1>2 DEF Tick
  <2>4. down' \in [Servers -> 0..ShutdownTimeout]
        BY <1>2 DEF Tick, Quiet, ServerDue
  <2> QED BY <1>2, <2>1, <2>2, <2>3, <2>4 DEF Tick
<1>3. CASE StartupStep
  <2>1. CASE StartupEnds     BY <2>1 DEF StartupEnds
  <2>2. CASE StartupMissing  BY <2>2 DEF StartupMissing
  <2>3. CASE ReloadLock(Startup) BY <2>3 DEF ReloadLock
  <2>4. ASSUME NEW ok \in BOOLEAN, ReloadEnds(Startup, ok)
        PROVE  TypeOK'
        BY <2>4 DEF ReloadEnds, AfterReload, Unlock
  <2> QED BY <1>3, <2>1, <2>2, <2>3, <2>4 DEF StartupStep, ReloadStep
<1>4. CASE Environment
  <2>1. CASE Signal BY <2>1 DEF Signal
  <2>2. ASSUME NEW s \in Servers, ListenFails(s) PROVE TypeOK'
        BY <2>2 DEF ListenFails
  <2>3. ASSUME NEW r \in Requests, AnswerAtOnce(r) PROVE TypeOK'
        BY <2>3 DEF AnswerAtOnce
  <2>4. ASSUME NEW r \in Requests, Accept(r) PROVE TypeOK'
        BY <2>4 DEF Accept, Called
  <2>5. ASSUME NEW r \in Requests, Panic(r) PROVE TypeOK'
        BY <2>5 DEF Panic, Unlock
  <2>6. ASSUME NEW a \in Appliers, MarkWrite(a) PROVE TypeOK'
        BY <2>6 DEF MarkWrite
  <2>7. ASSUME NEW r \in Readers \cup Probes, ReadEnds(r) PROVE TypeOK'
        BY <2>7 DEF ReadEnds
  <2> QED BY <1>4, <2>1, <2>2, <2>3, <2>4, <2>5, <2>6, <2>7
          DEF Environment, Arrive
<1>5. ASSUME NEW s \in Servers, ServeStep(s)
      PROVE  TypeOK'
      BY <1>5 DEF ServeStep, Stop, Drained, GraceOver
<1>6. ASSUME NEW r \in Requests, Reply(r)
      PROVE  TypeOK'
  <2>1. /\ age' \in [Appliers -> 0..(writeTimeout + 1)]
        /\ waited' \in [Appliers -> BOOLEAN]
        /\ wrote' \in [Appliers -> BOOLEAN]
    <3>1. CASE r \in Appliers
      <4>1. age' = [age EXCEPT ![r] = 0]
            BY <1>6, <3>1 DEF Reply
      <4>2. waited' = [waited EXCEPT ![r] = FALSE]
            BY <1>6, <3>1 DEF Reply
      <4>3. wrote' = [wrote EXCEPT ![r] = FALSE]
            BY <1>6, <3>1 DEF Reply
      <4>4. age' \in [Appliers -> 0..(writeTimeout + 1)]
        <5>1. 0 \in 0..(writeTimeout + 1)
              OBVIOUS
        <5>2. age \in [Appliers -> 0..(writeTimeout + 1)]
              OBVIOUS
        <5> HIDE ServerAssumption DEF TypeOK
        <5> QED BY <3>1, <4>1, <5>1, <5>2, Zenon
      <4>5. waited' \in [Appliers -> BOOLEAN]
            BY <4>2
      <4>6. wrote' \in [Appliers -> BOOLEAN]
            BY <4>3
      <4> QED BY <4>4, <4>5, <4>6
    <3>2. CASE r \notin Appliers
          BY <1>6, <3>2 DEF Reply
    <3> QED BY <3>1, <3>2
  <2>2. /\ pc' \in [Procs -> Points] /\ spent' \in [Procs -> Nat]
        /\ \A p \in Procs : pc'[p] \in Timed => spent'[p] <= Limit(pc'[p])
        BY <1>6 DEF Reply
  <2> QED BY <1>6, <2>1, <2>2 DEF Reply
<1>7. ASSUME NEW p \in Appliers \cup Readers, ReloadStep(p)
      PROVE  TypeOK'
  <2>1. CASE ReloadLock(p)
        BY <2>1 DEF ReloadLock
  <2>2. ASSUME NEW ok \in BOOLEAN, ReloadEnds(p, ok)
        PROVE  TypeOK'
        BY <2>2 DEF ReloadEnds, AfterReload, Unlock
  <2> QED BY <1>7, <2>1, <2>2 DEF ReloadStep
<1>8. ASSUME NEW a \in Appliers, ApplyStep(a)
      PROVE  TypeOK'
  <2>1. CASE ApplyLock(a)    BY <2>1 DEF ApplyLock
  <2>2. CASE PhasesEnd(a)    BY <2>2 DEF PhasesEnd
  <2>3. CASE PhasesReturn(a) BY <2>3 DEF PhasesReturn
  <2> QED BY <1>6, <1>7, <1>8, <2>1, <2>2, <2>3 DEF ApplyStep
<1>9. ASSUME NEW r \in Readers, ReadStep(r)
      PROVE  TypeOK'
  <2>1. CASE ReloadNotNeeded(r)
        BY <2>1 DEF ReloadNotNeeded
  <2> QED BY <1>6, <1>7, <1>9, <2>1 DEF ReadStep
<1>10. CASE UNCHANGED vars
      BY <1>10 DEF vars
<1> QED BY <1>1, <1>2, <1>3, <1>4, <1>5, <1>6, <1>8, <1>9, <1>10 DEF Next

\* Every variable keeps its type and every timer its bound.
THEOREM TypeCorrect == Spec => []TypeOK
BY TypeInit, TypeNext, PTL DEF Spec

-----------------------------------------------------------------------------
(* Replies within the write timeout                                        *)

\* The connection of an apply that never waited is as old as the stages it has
\* been through allow, and no handler runs unless the write timeout covers an
\* apply.
BudgetInv ==
    /\ Running => ApplyBudget <= writeTimeout
    /\ \A a \in Appliers :
          /\ pc[a] \notin {"check", "read"}
          /\ pc[a] # "idle" => ApplyBudget <= writeTimeout
          /\ ~waited[a] =>
                /\ pc[a] \in {"idle", "applyMu", "done"} => age[a] = 0
                /\ pc[a] = "phases" => age[a] <= spent[a]
                /\ pc[a] = "lock"   => age[a] <= ApplyTimeout
                /\ pc[a] = "reload" => age[a] <= ApplyTimeout + spent[a]
                /\ pc[a] = "reply"  => age[a] <= ApplyBudget

LEMMA BudgetInit == Init => BudgetInv
BY ServerAssumption DEF Init, BudgetInv, Procs, Requests, Running

LEMMA BudgetNext == TypeOK /\ BudgetInv /\ [Next]_vars => BudgetInv'
<1> SUFFICES ASSUME TypeOK, BudgetInv, [Next]_vars
             PROVE  BudgetInv'
    OBVIOUS
<1> USE ServerAssumption
    DEF TypeOK, BudgetInv, Procs, Requests, Servers, Points, Timed, Limit,
        ApplyBudget, Running, Enter, process, locks, clocks
<1>1. CASE MainStep
      BY <1>1 DEF MainStep, Boot, Exit
<1>2. CASE Tick
  <2>1. ASSUME NEW a \in Appliers, pc[a] \in Timed
        PROVE  spent'[a] = spent[a] + 1 /\ age'[a] <= age[a] + 1
        BY <1>2, <2>1 DEF Tick
  <2>2. ASSUME NEW a \in Appliers, pc[a] \in {"idle", "done"}
        PROVE  age'[a] = age[a]
        BY <1>2, <2>2 DEF Tick, Active
  <2>3. ASSUME NEW a \in Appliers
        PROVE  /\ pc[a] # "reply" /\ (waited[a] => waited'[a])
               /\ pc[a] \in {"applyMu", "lock"} => waited'[a]
        BY <1>2, <2>3 DEF Tick, Quiet, Due
  <2>4. UNCHANGED <<proc, writeTimeout, pc>>
        BY <1>2 DEF Tick
  <2>5. \A a \in Appliers : age[a] \in Nat /\ age'[a] \in Nat
        BY <1>2 DEF Tick
  <2> QED BY <2>1, <2>2, <2>3, <2>4, <2>5
<1>3. CASE StartupStep
  <2>1. CASE StartupEnds     BY <2>1 DEF StartupEnds
  <2>2. CASE StartupMissing  BY <2>2 DEF StartupMissing
  <2>3. CASE ReloadLock(Startup) BY <2>3 DEF ReloadLock
  <2>4. ASSUME NEW ok \in BOOLEAN, ReloadEnds(Startup, ok)
        PROVE  BudgetInv'
        BY <2>4 DEF ReloadEnds, AfterReload
  <2> QED BY <1>3, <2>1, <2>2, <2>3, <2>4 DEF StartupStep, ReloadStep
<1>4. CASE Environment
  <2>1. CASE Signal BY <2>1 DEF Signal
  <2>2. ASSUME NEW s \in Servers, ListenFails(s) PROVE BudgetInv'
        BY <2>2 DEF ListenFails
  <2>3. ASSUME NEW r \in Requests, AnswerAtOnce(r) PROVE BudgetInv'
        BY <2>3 DEF AnswerAtOnce, Arriving
  <2>4. ASSUME NEW r \in Requests, Accept(r) PROVE BudgetInv'
        BY <2>4 DEF Accept, Called, Arriving
  <2>5. ASSUME NEW r \in Requests, Panic(r) PROVE BudgetInv'
        BY <2>5 DEF Panic, Active
  <2>6. ASSUME NEW a \in Appliers, MarkWrite(a) PROVE BudgetInv'
        BY <2>6 DEF MarkWrite
  <2>7. ASSUME NEW r \in Readers \cup Probes, ReadEnds(r) PROVE BudgetInv'
        BY <2>7 DEF ReadEnds
  <2> QED BY <1>4, <2>1, <2>2, <2>3, <2>4, <2>5, <2>6, <2>7
          DEF Environment, Arrive
<1>5. ASSUME NEW s \in Servers, ServeStep(s)
      PROVE  BudgetInv'
      BY <1>5 DEF ServeStep, Stop, Drained, GraceOver
<1>6. ASSUME NEW r \in Requests, Reply(r)
      PROVE  BudgetInv'
  <2>1. CASE r \in Appliers BY <1>6, <2>1 DEF Reply
  <2>2. CASE r \notin Appliers BY <1>6, <2>2 DEF Reply
  <2> QED BY <2>1, <2>2
<1>7. ASSUME NEW p \in Appliers \cup Readers, ReloadStep(p)
      PROVE  BudgetInv'
  <2>1. CASE ReloadLock(p)
        BY <2>1 DEF ReloadLock
  <2>2. ASSUME NEW ok \in BOOLEAN, ReloadEnds(p, ok)
        PROVE  BudgetInv'
        BY <2>2 DEF ReloadEnds, AfterReload
  <2> QED BY <1>7, <2>1, <2>2 DEF ReloadStep
<1>8. ASSUME NEW a \in Appliers, ApplyStep(a)
      PROVE  BudgetInv'
  <2>1. CASE ApplyLock(a)    BY <2>1 DEF ApplyLock
  <2>2. CASE PhasesEnd(a)    BY <2>2 DEF PhasesEnd
  <2>3. CASE PhasesReturn(a) BY <2>3 DEF PhasesReturn
  <2> QED BY <1>6, <1>7, <1>8, <2>1, <2>2, <2>3 DEF ApplyStep
<1>9. ASSUME NEW r \in Readers, ReadStep(r)
      PROVE  BudgetInv'
  <2>1. CASE ReloadNotNeeded(r)
        BY <2>1 DEF ReloadNotNeeded
  <2> QED BY <1>6, <1>7, <1>9, <2>1 DEF ReadStep
<1>10. CASE UNCHANGED vars
      BY <1>10 DEF vars
<1> QED BY <1>1, <1>2, <1>3, <1>4, <1>5, <1>6, <1>8, <1>9, <1>10 DEF Next

\* main's comparison of the two timeouts is enough for every apply that did
\* not wait for a lock, whatever the timeouts are, counted from the arrival of
\* its body.
THEOREM RepliesInBudget == Spec => []ReplyInBudget
<1>1. TypeOK /\ BudgetInv => ReplyInBudget
      BY ServerAssumption
      DEF TypeOK, BudgetInv, ReplyInBudget, Cut, ApplyBudget
<1> QED BY TypeInit, TypeNext, BudgetInit, BudgetNext, <1>1, PTL DEF Spec

-----------------------------------------------------------------------------
(* Shutdown                                                                *)

\* A server that closed has no handler, one that was forced had its grace, and
\* whatever the process left running belonged to a server that failed or was
\* forced.
DrainInv ==
    /\ \A r \in Requests : Active(r) => srv[Home(r)] # "closed"
    /\ \A s \in Servers : srv[s] = "forced" => down[s] = ShutdownTimeout
    /\ proc = "boot" => \A r \in Requests : ~Active(r)
    /\ Exited => \A r \in Requests : Active(r) =>
          proc = "exit1" /\ srv[Home(r)] \in {"failed", "forced"}

LEMMA DrainInit == Init => DrainInv
BY ServerAssumption
   DEF Init, DrainInv, Procs, Requests, Servers, Active, Exited

LEMMA HomeIsServer == \A r \in Requests : Home(r) \in Servers
BY DEF Home, Servers

\* Only an arrival makes a request active, and only at a listening server.
LEMMA ActiveStays ==
    ASSUME TypeOK, [Next]_vars, NEW r \in Requests, Active(r)'
    PROVE  Active(r) \/ (Running /\ Arriving(r) /\ UNCHANGED process)
<1> USE ServerAssumption
    DEF TypeOK, Procs, Requests, Active, Enter
<1>1. CASE MainStep
      BY <1>1 DEF MainStep, Boot, Exit
<1>2. CASE Tick
      BY <1>2 DEF Tick
<1>3. CASE StartupStep
      BY <1>3 DEF StartupStep, StartupEnds, StartupMissing, ReloadStep,
                  ReloadLock, ReloadEnds
<1>4. CASE Environment
  <2>1. CASE Signal
        BY <2>1 DEF Signal
  <2>2. ASSUME NEW s \in Servers, ListenFails(s)
        PROVE  Active(r)
        BY <2>2 DEF ListenFails
  <2>3. ASSUME NEW q \in Requests, Arrive(q)
        PROVE  Active(r) \/ (Running /\ Arriving(r) /\ UNCHANGED process)
        BY <2>3 DEF Arrive, AnswerAtOnce, Accept, Arriving, process
  <2>4. ASSUME NEW q \in Requests, Panic(q)
        PROVE  Active(r)
        BY <2>4 DEF Panic
  <2>5. ASSUME NEW a \in Appliers, MarkWrite(a)
        PROVE  Active(r)
        BY <2>5 DEF MarkWrite
  <2>6. ASSUME NEW q \in Readers \cup Probes, ReadEnds(q)
        PROVE  Active(r)
        BY <2>6 DEF ReadEnds
  <2> QED BY <1>4, <2>1, <2>2, <2>3, <2>4, <2>5, <2>6 DEF Environment
<1>5. ASSUME NEW s \in Servers, ServeStep(s)
      PROVE  Active(r)
      BY <1>5 DEF ServeStep, Stop, Drained, GraceOver
<1>6. ASSUME NEW q \in Requests, Reply(q)
      PROVE  Active(r)
      BY <1>6 DEF Reply
<1>7. ASSUME NEW a \in Appliers, ApplyStep(a)
      PROVE  Active(r)
      BY <1>6, <1>7 DEF ApplyStep, ApplyLock, PhasesEnd, PhasesReturn,
                        ReloadStep, ReloadLock, ReloadEnds
<1>8. ASSUME NEW q \in Readers, ReadStep(q)
      PROVE  Active(r)
      BY <1>6, <1>8 DEF ReadStep, ReloadNotNeeded, ReloadStep, ReloadLock,
                        ReloadEnds
<1>9. CASE UNCHANGED vars
      BY <1>9 DEF vars
<1> QED BY <1>1, <1>2, <1>3, <1>4, <1>5, <1>6, <1>7, <1>8, <1>9 DEF Next

\* What the steps of a handler leave alone.
LEMMA ServersMove ==
    ASSUME [Next]_vars
    PROVE  \/ UNCHANGED <<proc, srv, down>>
           \/ Running /\ Tick
           \/ MainStep
           \/ \E s \in Servers : ListenFails(s) \/ ServeStep(s)
BY DEF Next, StartupStep, StartupEnds, StartupMissing, ReloadStep, ReloadLock,
       ReloadEnds, Environment, Signal, Arrive, AnswerAtOnce, Accept, Panic,
       MarkWrite, ReadEnds, ApplyStep, ApplyLock, PhasesEnd, PhasesReturn,
       ReadStep, ReloadNotNeeded, Reply, Tick, vars, process

LEMMA DrainNext == TypeOK /\ DrainInv /\ [Next]_vars => DrainInv'
<1> SUFFICES ASSUME TypeOK, DrainInv, [Next]_vars
             PROVE  DrainInv'
    OBVIOUS
<1> USE HomeIsServer
<1>1. \A r \in Requests : Active(r)' =>
          \/ Active(r)
          \/ Running /\ Arriving(r) /\ UNCHANGED process
      BY ActiveStays
<1>2. CASE UNCHANGED <<proc, srv, down>>
      BY <1>1, <1>2 DEF DrainInv, Arriving, Running, Exited
<1>3. CASE Running /\ Tick
      BY <1>1, <1>3
      DEF DrainInv, Tick, Running, Exited, Arriving, process, TypeOK
<1>4. CASE MainStep
  <2>1. \A r \in Requests : Active(r)' <=> Active(r)
        BY <1>4 DEF MainStep, Boot, Exit, Active
  <2>2. CASE Boot
        BY <2>1, <2>2 DEF Boot, DrainInv, Exited
  <2>3. CASE Exit
        BY <2>1, <2>3 DEF Exit, DrainInv, Exited, Failed
  <2> QED BY <1>4, <2>2, <2>3 DEF MainStep
<1>5. ASSUME NEW s \in Servers, ListenFails(s) \/ ServeStep(s)
      PROVE  DrainInv'
  <2>1. \A r \in Requests : Active(r)' <=> Active(r)
        BY <1>5
        DEF ListenFails, ServeStep, Stop, Drained, GraceOver, Active
  <2> USE <2>1 DEF DrainInv, TypeOK, Running, Exited
  <2>2. CASE ListenFails(s) BY <2>2 DEF ListenFails
  <2>3. CASE Stop(s)        BY <2>3 DEF Stop
  <2>4. CASE Drained(s)     BY <2>4 DEF Drained, InFlight
  <2>5. CASE GraceOver(s)   BY <2>5 DEF GraceOver
  <2> QED BY <1>5, <2>2, <2>3, <2>4, <2>5 DEF ServeStep
<1> QED BY <1>2, <1>3, <1>4, <1>5, ServersMove

\* However handlers, signals and failing listeners interleave, exit code 0
\* means both servers drained, and nobody is cut off before the whole grace.
THEOREM ExitIsDrained == Spec => []ExitDrains
<1>1. TypeOK /\ DrainInv => ExitDrains
      BY HomeIsServer DEF DrainInv, ExitDrains
<1> QED BY TypeInit, TypeNext, DrainInit, DrainNext, <1>1, PTL DEF Spec
=============================================================================
