------------------------------ MODULE Readiness ------------------------------
(***************************************************************************)
(* cachedProbe.Check of internal/server/readiness.go: concurrent /readyz   *)
(* requests share one probe of the firewall through singleflight and a     *)
(* verdict cached for TTL.  The firewall (with the network before it) may  *)
(* be up, down or hanging, and changes at any time; what hangs may lose    *)
(* the probe's call for good.  A request's context may be cancelled while  *)
(* it waits.  Time is counted in ticks; computation takes none.            *)
(***************************************************************************)
EXTENDS Naturals, FiniteSets

CONSTANTS
    Callers,        \* requests for /readyz in progress
    TTL,            \* READINESS_CACHE_TTL
    ProbeTimeout,   \* probeTimeout
    None            \* no singleflight call

ASSUME ReadinessAssumption ==
    TTL \in Nat \ {0} /\ ProbeTimeout \in Nat \ {0} /\ None \notin Callers

VARIABLES
    lastAge,    \* ticks since lastAt, counted up to TTL
    lastErr,    \* the cached verdict is an error
    sf,         \* the caller running the singleflight function, or None
    verdict,    \* err of the singleflight function
    probeAge,   \* ticks the running probe has taken
    call,       \* the probe's call: "none", "asked", "lost", an answer that is
                \* under way ("up" or "down"), or "backoff" before a repetition
    pc,         \* where each caller is in Check
    result,     \* what Check returned to it
    cancelled,  \* callers whose request context is done
    upstream,   \* external: the firewall
    sinceUp,    \* observation only: ticks since the firewall was up
    sinceBad    \* observation only: ticks since it was down or hanging

vars == <<lastAge, lastErr, sf, verdict, probeAge, call, pc, result,
          cancelled, upstream, sinceUp, sinceBad>>

cache == <<lastAge, lastErr>>
flight == <<sf, verdict, probeAge, call>>
world == <<upstream, sinceUp, sinceBad>>

Horizon == TTL + ProbeTimeout

Capped(n, most) == IF n < most THEN n + 1 ELSE n

Init ==
    /\ lastAge = TTL /\ lastErr = FALSE     \* lastAt.IsZero(): never fresh
    /\ sf = None /\ verdict = FALSE /\ probeAge = 0 /\ call = "none"
    /\ pc = [c \in Callers |-> "idle"]
    /\ result = [c \in Callers |-> FALSE]
    /\ cancelled = {}
    /\ upstream \in {"up", "down", "hung"}
    /\ sinceUp = (IF upstream = "up" THEN 0 ELSE Horizon)
    /\ sinceBad = (IF upstream = "up" THEN Horizon ELSE 0)

Fresh == lastAge < TTL

Request(c) ==
    /\ pc[c] \in {"idle", "done"}
    /\ pc' = [pc EXCEPT ![c] = "read"]
    /\ result' = [result EXCEPT ![c] = FALSE]
    /\ UNCHANGED <<cache, flight, world, cancelled>>

\* The first look at the cache.
ReadCache(c) ==
    /\ pc[c] = "read"
    /\ pc' = [pc EXCEPT ![c] = IF Fresh THEN "done" ELSE "do"]
    /\ result' = IF Fresh THEN [result EXCEPT ![c] = lastErr] ELSE result
    /\ UNCHANGED <<cache, flight, world, cancelled>>

\* Deliberately wrong: every caller runs the function.
DoLeadAlways(c) ==
    /\ pc[c] = "do"
    /\ sf' = c
    /\ pc' = [pc EXCEPT ![c] = "recheck"]
    /\ UNCHANGED <<cache, verdict, probeAge, call, world, result, cancelled>>

\* sf.Do with no call in progress, and with one.
DoLead(c) ==
    /\ pc[c] = "do"
    /\ sf = None
    /\ sf' = c
    /\ pc' = [pc EXCEPT ![c] = "recheck"]
    /\ UNCHANGED <<cache, verdict, probeAge, call, world, result, cancelled>>

DoJoin(c) ==
    /\ pc[c] = "do"
    /\ sf # None
    /\ pc' = [pc EXCEPT ![c] = "wait"]
    /\ UNCHANGED <<cache, flight, world, result, cancelled>>

\* Deliberately wrong: the cache is not looked at again.
RecheckNever(c) ==
    /\ pc[c] = "recheck"
    /\ pc' = [pc EXCEPT ![c] = "probe"]
    /\ call' = "asked"
    /\ UNCHANGED <<cache, sf, verdict, probeAge, world, result, cancelled>>

\* Inside the singleflight: another caller may have refreshed the cache.
Recheck(c) ==
    /\ pc[c] = "recheck"
    /\ pc' = [pc EXCEPT ![c] = IF Fresh THEN "end" ELSE "probe"]
    /\ verdict' = IF Fresh THEN lastErr ELSE verdict
    /\ call' = IF Fresh THEN call ELSE "asked"
    /\ UNCHANGED <<cache, sf, probeAge, world, result, cancelled>>

\* The probe came back; its verdict is cached.
Remember(c, err) ==
    /\ verdict' = err
    /\ lastErr' = err
    /\ lastAge' = 0
    /\ probeAge' = 0 /\ call' = "none"
    /\ pc' = [pc EXCEPT ![c] = "end"]
    /\ UNCHANGED <<sf, world, result, cancelled>>

\* Deliberately wrong: the probe runs on its caller's context.
AnsweredAttached(c) ==
    /\ pc[c] = "probe"
    /\ call \in {"up", "down"} \/ c \in cancelled
    /\ Remember(c, c \in cancelled \/ call = "down")

\* The answer, or the refusal, arrives and the probe returns.
Answered(c) ==
    /\ pc[c] = "probe"
    /\ call \in {"up", "down"}
    /\ Remember(c, call = "down")

\* Client.do: a read that was refused, or that ran into the request timeout,
\* is repeated after a wait, unless its attempts are used up.
Retry(c) ==
    /\ pc[c] = "probe"
    /\ call \in {"down", "lost"}
    /\ call' = "backoff"
    /\ UNCHANGED <<cache, sf, verdict, probeAge, world, pc, result, cancelled>>

\* Deliberately wrong: nothing bounds a probe.
TimedOutNever(c) == FALSE /\ UNCHANGED vars

\* The probe's own timeout, detached from every caller, whatever has become
\* of the call and of the firewall by then.
TimedOut(c) ==
    /\ pc[c] = "probe"
    /\ probeAge = ProbeTimeout
    /\ Remember(c, TRUE)

\* The singleflight call ends: its result goes to the caller that ran it and
\* to every caller that joined.
EndFlight(c) ==
    /\ pc[c] = "end"
    /\ LET got == {c} \cup {d \in Callers : pc[d] = "wait"} IN
       /\ pc' = [d \in Callers |-> IF d \in got THEN "done" ELSE pc[d]]
       /\ result' = [d \in Callers |-> IF d \in got THEN verdict ELSE result[d]]
       /\ cancelled' = cancelled \ got
    /\ sf' = None /\ verdict' = FALSE
    /\ UNCHANGED <<cache, probeAge, call, world>>

\* kubelet gives up on its request; Check does not notice.
Cancel(c) ==
    /\ pc[c] \in {"probe", "wait"} /\ c \notin cancelled
    /\ cancelled' = cancelled \cup {c}
    /\ UNCHANGED <<cache, flight, world, pc, result>>

CheckStep(c) ==
    \/ ReadCache(c) \/ DoLead(c) \/ DoJoin(c) \/ Recheck(c)
    \/ Answered(c) \/ Retry(c) \/ TimedOut(c) \/ EndFlight(c)

Probing == {c \in Callers : pc[c] = "probe"}

\* External: a firewall that does not hang answers; one that hangs may have
\* lost the question or its answer, and will not come back to it.
FirewallAnswers ==
    /\ Probing # {} /\ call = "asked" /\ upstream # "hung"
    /\ call' = upstream
    /\ UNCHANGED <<cache, sf, verdict, probeAge, world, pc, result, cancelled>>

FirewallLoses ==
    /\ Probing # {} /\ call \in {"asked", "up", "down"} /\ upstream = "hung"
    /\ call' = "lost"
    /\ UNCHANGED <<cache, sf, verdict, probeAge, world, pc, result, cancelled>>

UpstreamChanges ==
    /\ upstream' \in {"up", "down", "hung"} \ {upstream}
    /\ sinceUp' = IF upstream' = "up" THEN 0 ELSE sinceUp
    /\ sinceBad' = IF upstream' = "up" THEN sinceBad ELSE 0
    /\ UNCHANGED <<cache, flight, pc, result, cancelled>>

\* Time passes while every caller is out of Check or waits for the firewall: for
\* one that hangs, for a call that is lost, or until the call is repeated.
Tick ==
    /\ \A c \in Callers : pc[c] \in {"idle", "done", "wait", "probe"}
    /\ Probing # {} => /\ probeAge < ProbeTimeout
                       /\ upstream = "hung" \/ call \in {"lost", "backoff"}
    /\ lastAge' = Capped(lastAge, TTL)
    /\ probeAge' = IF Probing = {} THEN 0 ELSE probeAge + 1
    /\ call' = IF call = "backoff" THEN "asked" ELSE call
    /\ sinceUp' = IF upstream = "up" THEN 0 ELSE Capped(sinceUp, Horizon)
    /\ sinceBad' = IF upstream = "up" THEN Capped(sinceBad, Horizon) ELSE 0
    /\ UNCHANGED <<lastErr, sf, verdict, pc, result, cancelled, upstream>>

Next ==
    \/ \E c \in Callers : Request(c) \/ CheckStep(c) \/ Cancel(c)
    \/ FirewallAnswers \/ FirewallLoses \/ UpstreamChanges
    \/ Tick

Spec == Init /\ [][Next]_vars

\* Goroutines run and clocks advance; nobody has to ask, or the firewall to
\* change.  A firewall may hang and come back as often as it likes: either it
\* answers or time passes.
FairSpec ==
    /\ Spec
    /\ WF_vars(Tick \/ FirewallAnswers \/ \E c \in Probing : CheckStep(c))
    /\ \A c \in Callers : WF_vars(CheckStep(c))

-----------------------------------------------------------------------------

\* Types, and which caller runs the function the others wait for.
TypeOK ==
    /\ \A c \in Callers :
          /\ sf = c <=> pc[c] \in {"recheck", "probe", "end"}
          /\ pc[c] = "wait" => sf # None
    /\ lastAge \in 0..TTL
    /\ sf \in Callers \cup {None}
    /\ probeAge \in 0..ProbeTimeout
    /\ Probing = {} <=> call = "none"
    /\ call \in {"none", "asked", "lost", "up", "down", "backoff"}
    /\ pc \in [Callers -> {"idle", "read", "do", "recheck", "probe", "end",
                           "wait", "done"}]
    /\ lastErr \in BOOLEAN /\ verdict \in BOOLEAN
    /\ result \in [Callers -> BOOLEAN]
    /\ cancelled \subseteq Callers
    /\ upstream \in {"up", "down", "hung"}
    /\ sinceUp \in 0..Horizon /\ sinceBad \in 0..Horizon

\* However many requests arrive, one probe at a time reaches the firewall, and
\* none while the cached verdict is fresh, even for a caller that looked at
\* the cache before another's probe refreshed it.
OneProbePerTTL ==
    /\ Cardinality(Probing) <= 1
    /\ Fresh => Probing = {}

\* A verdict handed out was true of the firewall while the probe it comes from
\* ran: the firewall was up, or was not, less than the TTL and one probe
\* timeout ago.  That is as recent as it gets: a call lost in a hanging firewall
\* times out, and its error is cached, although the firewall has recovered.  A
\* request that was cancelled never makes it "not ready".
VerdictIsRecent ==
    [][\A c \in Callers :
         pc[c] # "done" /\ pc'[c] = "done" =>
            IF result'[c] THEN sinceBad < Horizon ELSE sinceUp < Horizon]_vars

\* Every request is answered, whatever the firewall does.
CheckReturns == \A c \in Callers : pc[c] = "read" ~> pc[c] = "done"
=============================================================================
