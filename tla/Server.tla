------------------------------- MODULE Server -------------------------------
(***************************************************************************)
(* The process around the provider: cmd/.../main.go, the two HTTP servers  *)
(* of internal/server/server.go, the middleware and the webhook handlers,  *)
(* with time in ticks.  Handlers contend for the provider's two locks      *)
(* while the server's write timeout runs, handlers may panic, a listener   *)
(* may fail, and a signal stops the process with a bounded grace.          *)
(*                                                                         *)
(* What is written and served is module Provider; here an apply is the     *)
(* time its phases and its reload may take.                                *)
(***************************************************************************)
EXTENDS Naturals, FiniteSets

CONSTANTS
    Appliers,           \* POST /records requests
    Readers,            \* other requests to the webhook server: GET /records
    Probes,             \* requests to the health server: GET /readyz
    Startup,            \* the goroutine of Provider.Startup
    None,               \* an unlocked mutex
    ApplyTimeout,       \* OPNSENSE_APPLY_TIMEOUT, in ticks
    ReconfigureTimeout, \* OPNSENSE_RECONFIGURE_TIMEOUT
    WriteTimeouts,      \* values of SERVER_WRITE_TIMEOUT an operator may set
    ShutdownTimeout,    \* shutdownTimeout
    MaxRequests         \* bound: requests in one life of the process

Requests == Appliers \cup Readers \cup Probes
Callers  == Appliers \cup Readers \cup {Startup}
Procs    == Requests \cup {Startup}
Servers  == {"webhook", "health"}

ASSUME ServerAssumption ==
    /\ Appliers \cap Readers = {} /\ Probes \cap (Appliers \cup Readers) = {}
    /\ Startup \notin Requests /\ None \notin Procs
    /\ ReconfigureTimeout \in Nat \ {0}
    /\ ApplyTimeout \in Nat /\ ApplyTimeout > ReconfigureTimeout
    /\ ShutdownTimeout \in Nat /\ MaxRequests \in Nat
    /\ WriteTimeouts \subseteq Nat

VARIABLES
    proc,           \* "boot", "running", "exit0" or "exit1"
    writeTimeout,   \* SERVER_WRITE_TIMEOUT of this process
    signalled,      \* the context of signal.NotifyContext is done
    srv,            \* what serve is doing for each server
    down,           \* ticks since each server's Shutdown was called
    applyMu,        \* Provider.applyMu
    reconfigureMu,  \* Provider.reconfigureMu
    pending,        \* Provider.pending
    pc,             \* where each request and Startup is
    wrote,          \* applyRun.wrote
    spent,          \* ticks on the context of the current stage
    age,            \* ticks on the connection's write deadline
    waited          \* observation only: the apply has waited for a lock

process  == <<proc, writeTimeout, signalled, srv, down>>
locks    == <<applyMu, reconfigureMu>>
clocks   == <<spent, age, waited>>
vars     == <<process, locks, pending, pc, wrote, clocks>>

Home(r) == IF r \in Probes THEN "health" ELSE "webhook"

\* Between the server's call of the handler chain and its return.
Active(r) == pc[r] \notin {"idle", "done"}

InFlight(s) == {r \in Requests : Home(r) = s /\ Active(r)}

Running == proc = "running"
Exited  == proc \in {"exit0", "exit1"}

\* errgroup: the first error cancels the context the servers share.
Failed(s)  == srv[s] \in {"failed", "forced"}
Cancelled  == signalled \/ \E s \in Servers : Failed(s)

-----------------------------------------------------------------------------
(* main                                                                    *)

Init ==
    /\ proc = "boot"
    /\ writeTimeout \in WriteTimeouts
    /\ signalled = FALSE
    /\ srv = [s \in Servers |-> "listening"]
    /\ down = [s \in Servers |-> 0]
    /\ applyMu = None /\ reconfigureMu = None
    /\ pending = FALSE
    /\ pc = [p \in Procs |-> IF p = Startup THEN "check" ELSE "idle"]
    /\ wrote = [a \in Appliers |-> FALSE]
    /\ spent = [p \in Procs |-> 0]
    /\ age = [a \in Appliers |-> 0]
    /\ waited = [a \in Appliers |-> FALSE]

\* Deliberately wrong: the trailing reconfigure is left out of the budget.
ApplyBudgetPhasesOnly == ApplyTimeout

ApplyBudget == ApplyTimeout + ReconfigureTimeout

Boot ==
    /\ proc = "boot"
    /\ proc' = IF ApplyBudget > writeTimeout THEN "exit1" ELSE "running"
    /\ UNCHANGED <<writeTimeout, signalled, srv, down, locks, pending, pc,
                   wrote, clocks>>

\* SIGTERM and its like; a second one changes nothing.
Signal ==
    /\ Running /\ ~signalled
    /\ signalled' = TRUE
    /\ UNCHANGED <<proc, writeTimeout, srv, down, locks, pending, pc, wrote,
                   clocks>>

\* Run returns when both servers have, and main with it; whatever still runs
\* ends with the process.
Exit ==
    /\ Running
    /\ \A s \in Servers : srv[s] \in {"closed", "failed", "forced"}
    /\ proc' = IF \E s \in Servers : Failed(s) THEN "exit1" ELSE "exit0"
    /\ UNCHANGED <<writeTimeout, signalled, srv, down, locks, pending, pc,
                   wrote, clocks>>

-----------------------------------------------------------------------------
(* serve                                                                   *)

\* ListenAndServe returns an error: the port is taken, or accepting fails
\* later.  serve returns at once; running handlers are not waited for.
ListenFails(s) ==
    /\ Running /\ srv[s] = "listening"
    /\ srv' = [srv EXCEPT ![s] = "failed"]
    /\ UNCHANGED <<proc, writeTimeout, signalled, down, locks, pending, pc,
                   wrote, clocks>>

\* Deliberately wrong: the connections are closed instead of drained.
StopAtOnce(s) ==
    /\ Running /\ srv[s] = "listening" /\ Cancelled
    /\ srv' = [srv EXCEPT ![s] = "closed"]
    /\ UNCHANGED <<proc, writeTimeout, signalled, down, locks, pending, pc,
                   wrote, clocks>>

\* The context is done: Shutdown closes the listener and waits.
Stop(s) ==
    /\ Running /\ srv[s] = "listening" /\ Cancelled
    /\ srv' = [srv EXCEPT ![s] = "stopping"]
    /\ UNCHANGED <<proc, writeTimeout, signalled, down, locks, pending, pc,
                   wrote, clocks>>

\* Shutdown has seen every connection idle.
Drained(s) ==
    /\ Running /\ srv[s] = "stopping" /\ InFlight(s) = {}
    /\ srv' = [srv EXCEPT ![s] = "closed"]
    /\ UNCHANGED <<proc, writeTimeout, signalled, down, locks, pending, pc,
                   wrote, clocks>>

\* Deliberately wrong: Shutdown is given a context without a deadline.
GraceNeverOver(s) == FALSE /\ UNCHANGED vars

GraceOver(s) ==
    /\ Running /\ srv[s] = "stopping" /\ down[s] = ShutdownTimeout
    /\ srv' = [srv EXCEPT ![s] = "forced"]
    /\ UNCHANGED <<proc, writeTimeout, signalled, down, locks, pending, pc,
                   wrote, clocks>>

-----------------------------------------------------------------------------
(* The handler chain: middleware, header checks and body                   *)

\* Deliberately wrong: the reload runs on what is left of the apply's context.
EnterSameContext(p, stage) ==
    /\ pc' = [pc EXCEPT ![p] = stage]
    /\ UNCHANGED spent

\* A process enters its next stage with a fresh context.
Enter(p, stage) ==
    /\ pc' = [pc EXCEPT ![p] = stage]
    /\ spent' = [spent EXCEPT ![p] = 0]

Arriving(r) ==
    /\ Running /\ srv[Home(r)] = "listening" /\ pc[r] = "idle"
    /\ Cardinality({q \in Requests : pc[q] # "idle"}) < MaxRequests

\* Answered without the firewall: refused by validateMediaHeader or decodeBody
\* (406, 415, 413 or 400), or one of the routes that only compute.
AnswerAtOnce(r) ==
    /\ Arriving(r)
    /\ Enter(r, "reply")
    /\ UNCHANGED <<process, locks, pending, wrote, age, waited>>

\* The request is well-formed and the provider is called.
Called(r) ==
    IF r \in Appliers THEN "applyMu"
    ELSE IF r \in Readers /\ pending THEN "lock" ELSE "read"

\* The body arrives at once: the ages count from its arrival, where the write
\* deadline has been running since the header was read.
Accept(r) ==
    /\ Arriving(r)
    /\ Enter(r, Called(r))
    /\ UNCHANGED <<process, locks, pending, wrote, age, waited>>

Unlock(r, mu) == IF mu = r THEN None ELSE mu

\* Deliberately wrong: the locks are not released by deferred calls.
PanicHolding(r) ==
    /\ Running /\ Active(r) /\ pc[r] # "reply"
    /\ Enter(r, "reply")
    /\ UNCHANGED <<process, locks, pending, wrote, age, waited>>

\* A handler panics: the deferred Unlocks run and the outermost middleware
\* turns it into a 500.
Panic(r) ==
    /\ Running /\ Active(r) /\ pc[r] # "reply"
    /\ applyMu' = Unlock(r, applyMu)
    /\ reconfigureMu' = Unlock(r, reconfigureMu)
    /\ Enter(r, "reply")
    /\ UNCHANGED <<process, pending, wrote, age, waited>>

\* The write deadline of the connection has passed when the handler returns:
\* the client sees a broken connection instead of the status.
Cut(a) == pc[a] = "reply" /\ age[a] > writeTimeout

\* The handler has returned and its response, if not cut, is flushed.
Reply(r) ==
    /\ Running /\ pc[r] = "reply"
    /\ Enter(r, "done")
    /\ IF r \in Appliers
       THEN /\ age' = [age EXCEPT ![r] = 0]
            /\ waited' = [waited EXCEPT ![r] = FALSE]
            /\ wrote' = [wrote EXCEPT ![r] = FALSE]
       ELSE UNCHANGED <<age, waited, wrote>>
    /\ UNCHANGED <<process, locks, pending>>

-----------------------------------------------------------------------------
(* ApplyChanges                                                            *)

ApplyLock(a) ==
    /\ Running /\ pc[a] = "applyMu" /\ applyMu = None
    /\ applyMu' = a
    /\ Enter(a, "phases")
    /\ UNCHANGED <<process, reconfigureMu, pending, wrote, age, waited>>

MarkWrite(a) ==
    /\ Running /\ pc[a] = "phases" /\ ~wrote[a] /\ spent[a] < ApplyTimeout
    /\ wrote' = [wrote EXCEPT ![a] = TRUE]
    /\ pending' = TRUE
    /\ UNCHANGED <<process, locks, pc, clocks>>

\* The phases end, at the latest with their context; the reload is due.
PhasesEnd(a) ==
    /\ Running /\ pc[a] = "phases" /\ (wrote[a] \/ pending)
    /\ Enter(a, "lock")
    /\ UNCHANGED <<process, locks, pending, wrote, age, waited>>

\* The first read failed, or there was nothing to write and nothing to repair.
PhasesReturn(a) ==
    /\ Running /\ pc[a] = "phases" /\ ~wrote[a]
    /\ Enter(a, "reply")
    /\ applyMu' = None
    /\ UNCHANGED <<process, reconfigureMu, pending, wrote, age, waited>>

-----------------------------------------------------------------------------
(* reconfigure, for applies, repairing reads and Startup                   *)

ReloadLock(p) ==
    /\ Running /\ pc[p] = "lock" /\ reconfigureMu = None
    /\ p \in Readers => pending
    /\ reconfigureMu' = p
    /\ Enter(p, "reload")
    /\ UNCHANGED <<process, applyMu, pending, wrote, age, waited>>

ReloadNotNeeded(r) ==
    /\ Running /\ pc[r] = "lock" /\ reconfigureMu = None
    /\ ~pending
    /\ Enter(r, "read")
    /\ UNCHANGED <<process, locks, pending, wrote, age, waited>>

\* An apply returns what its phases and the reload came to; a read goes on or
\* fails.
AfterReload(p, ok) ==
    IF p = Startup THEN "done"
    ELSE IF ok /\ p \in Readers THEN "read" ELSE "reply"

\* The call is answered or runs into its own context.
ReloadEnds(p, ok) ==
    /\ Running /\ pc[p] = "reload"
    /\ pending' = ~ok
    /\ reconfigureMu' = None
    /\ applyMu' = Unlock(p, applyMu)
    /\ Enter(p, AfterReload(p, ok))
    /\ UNCHANGED <<process, wrote, age, waited>>

\* A snapshot or a readiness probe returns.
ReadEnds(r) ==
    /\ Running /\ pc[r] = "read"
    /\ Enter(r, "reply")
    /\ UNCHANGED <<process, locks, pending, wrote, age, waited>>

-----------------------------------------------------------------------------
(* Startup                                                                 *)

\* Nothing is missing, a call failed, or the signal cancelled it.
StartupEnds ==
    /\ Running /\ pc[Startup] = "check"
    /\ Enter(Startup, "done")
    /\ UNCHANGED <<process, locks, pending, wrote, age, waited>>

StartupMissing ==
    /\ Running /\ pc[Startup] = "check" /\ ~signalled
    /\ pending' = TRUE
    /\ Enter(Startup, "lock")
    /\ UNCHANGED <<process, locks, wrote, age, waited>>

-----------------------------------------------------------------------------
(* Time.  Code between two waits takes none, and a deadline is met when it *)
(* is due.                                                                 *)

Timed == {"phases", "reload"}

Limit(stage) == IF stage = "phases" THEN ApplyTimeout ELSE ReconfigureTimeout

Due(p) ==
    \/ pc[p] = "reply"
    \/ pc[p] \in Timed /\ spent[p] = Limit(pc[p])
    \/ pc[p] = "applyMu" /\ applyMu = None
    \/ pc[p] = "lock" /\ reconfigureMu = None
    \/ pc[p] = "check" /\ signalled

ServerDue(s) ==
    \/ srv[s] = "listening" /\ Cancelled
    \/ srv[s] = "stopping" /\ (InFlight(s) = {} \/ down[s] = ShutdownTimeout)

Quiet == /\ \A p \in Procs : ~Due(p)
         /\ \A s \in Servers : ~ServerDue(s)
         /\ \E s \in Servers : srv[s] \in {"listening", "stopping"}

\* Ages count to the point where the reply is late.
Tick ==
    /\ Running /\ Quiet
    /\ spent' = [p \in Procs |-> IF pc[p] \in Timed THEN spent[p] + 1
                                 ELSE spent[p]]
    /\ age' = [a \in Appliers |->
                 IF Active(a) /\ age[a] <= writeTimeout THEN age[a] + 1
                 ELSE age[a]]
    /\ waited' = [a \in Appliers |->
                    waited[a] \/ pc[a] \in {"applyMu", "lock"}]
    /\ down' = [s \in Servers |-> IF srv[s] = "stopping" THEN down[s] + 1
                                  ELSE down[s]]
    /\ UNCHANGED <<proc, writeTimeout, signalled, srv, locks, pending, pc,
                   wrote>>

-----------------------------------------------------------------------------

\* Steps of one goroutine, which it takes when it can.
MainStep == Boot \/ Exit

ServeStep(s) == Stop(s) \/ Drained(s) \/ GraceOver(s)

ReloadStep(p) == ReloadLock(p) \/ \E ok \in BOOLEAN : ReloadEnds(p, ok)

ApplyStep(a) ==
    \/ ApplyLock(a) \/ PhasesEnd(a) \/ PhasesReturn(a)
    \/ ReloadStep(a) \/ Reply(a)

ReadStep(r) == ReloadNotNeeded(r) \/ ReloadStep(r) \/ Reply(r)

StartupStep == StartupEnds \/ StartupMissing \/ ReloadStep(Startup)

\* What may happen and need not: a read may wait for the firewall for ever.
Arrive(r)   == AnswerAtOnce(r) \/ Accept(r)
Environment ==
    \/ Signal
    \/ \E s \in Servers : ListenFails(s)
    \/ \E r \in Requests : Arrive(r) \/ Panic(r)
    \/ \E a \in Appliers : MarkWrite(a)
    \/ \E r \in Readers \cup Probes : ReadEnds(r)

Next ==
    \/ MainStep \/ Tick \/ StartupStep \/ Environment
    \/ \E s \in Servers : ServeStep(s)
    \/ \E a \in Appliers : ApplyStep(a)
    \/ \E r \in Readers : ReadStep(r)
    \/ \E r \in Probes : Reply(r)

Spec == Init /\ [][Next]_vars

\* Time passes and every goroutine that can go on does.
Fairness ==
    /\ WF_vars(MainStep) /\ WF_vars(Tick) /\ WF_vars(StartupStep)
    /\ \A s \in Servers : WF_vars(ServeStep(s))
    /\ \A a \in Appliers : WF_vars(ApplyStep(a))
    /\ \A r \in Readers : WF_vars(ReadStep(r))
    /\ \A r \in Probes : WF_vars(Reply(r))

FairSpec == Spec /\ Fairness

-----------------------------------------------------------------------------
(* Properties                                                              *)

Points == {"idle", "applyMu", "phases", "lock", "reload", "read",
           "check", "reply", "done"}

\* Types; no stage lasts longer than its context, and no shutdown longer than
\* its grace.
TypeOK ==
    /\ proc \in {"boot", "running", "exit0", "exit1"}
    /\ writeTimeout \in WriteTimeouts
    /\ signalled \in BOOLEAN /\ pending \in BOOLEAN
    /\ srv \in [Servers -> {"listening", "stopping", "closed", "failed",
                            "forced"}]
    /\ down \in [Servers -> 0..ShutdownTimeout]
    /\ applyMu \in Appliers \cup {None}
    /\ reconfigureMu \in Callers \cup {None}
    /\ pc \in [Procs -> Points]
    /\ wrote \in [Appliers -> BOOLEAN]
    /\ spent \in [Procs -> Nat]
    /\ \A p \in Procs : pc[p] \in Timed => spent[p] <= Limit(pc[p])
    /\ age \in [Appliers -> 0..(writeTimeout + 1)]
    /\ waited \in [Appliers -> BOOLEAN]

\* A process that starts has a write timeout that covers an apply: the reply
\* is cut off only if the apply had to wait for a lock, and for requests whose
\* body arrives with the header: what a slow body takes, up to
\* SERVER_READ_TIMEOUT, is part of the write deadline and not of the budget.
ReplyInBudget == \A a \in Appliers : Cut(a) => waited[a]

\* The process ends under a running handler only after the whole grace, or
\* when that handler's own listener failed, and never with exit code 0: what
\* the exit code calls clean has drained.
ExitDrains ==
    Exited => \A r \in Requests : Active(r) =>
        /\ proc = "exit1"
        /\ \/ srv[Home(r)] = "failed"
           \/ srv[Home(r)] = "forced" /\ down[Home(r)] = ShutdownTimeout

\* Applies that have arrived are all answered, or ended by the process,
\* although other handlers panic under the locks they need.
ApplyAnswered ==
    (\E a \in Appliers : Active(a)) ~>
        (Exited \/ \A a \in Appliers : ~Active(a))

\* A signal or a failed listener ends the process, although handlers hang.
StopEnds == Cancelled ~> Exited

\* Documented for SERVER_WRITE_TIMEOUT: an apply is never cut off by the
\* server.
ReplyNeverCut == \A a \in Appliers : ~Cut(a)
=============================================================================
