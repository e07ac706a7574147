--------------------------- MODULE ReadinessProofs ---------------------------
(***************************************************************************)
(* Proofs about Readiness for every number of requests, every TTL and      *)
(* every probe timeout.                                                    *)
(***************************************************************************)
EXTENDS Readiness, FiniteSetTheorems, TLAPS

-----------------------------------------------------------------------------
(* Type correctness                                                        *)

LEMMA TypeInit == Init => TypeOK
<1> SUFFICES ASSUME Init
             PROVE  TypeOK
    OBVIOUS
<1> USE ReadinessAssumption DEF Init
<1>1. sinceUp \in 0..Horizon /\ sinceBad \in 0..Horizon
      BY DEF Horizon
<1>2. lastAge \in 0..TTL /\ probeAge \in 0..ProbeTimeout
      OBVIOUS
<1>3. lastErr \in BOOLEAN /\ verdict \in BOOLEAN
      BY Zenon
<1>4. /\ pc \in [Callers -> {"idle"}]
      /\ result \in [Callers -> BOOLEAN]
      OBVIOUS
<1>5. sf \in Callers \cup {None} /\ cancelled \subseteq Callers
      OBVIOUS
<1>6. Probing = {} /\ call = "none"
      BY DEF Probing
<1> QED BY <1>1, <1>2, <1>3, <1>4, <1>5, <1>6 DEF TypeOK

\* The caller that runs the singleflight function is the one between its start
\* and its end.
LEMMA TypeNext == TypeOK /\ [Next]_vars => TypeOK'
<1> SUFFICES ASSUME TypeOK, [Next]_vars
             PROVE  TypeOK'
    OBVIOUS
<1> USE ReadinessAssumption DEF TypeOK, Probing, cache, flight, world
<1>1. ASSUME NEW c \in Callers, Request(c)
      PROVE  TypeOK'
      BY <1>1 DEF Request
<1>2. ASSUME NEW c \in Callers, CheckStep(c)
      PROVE  TypeOK'
  <2>1. CASE ReadCache(c)
    <3>1. result' \in [Callers -> BOOLEAN]
          BY <2>1 DEF ReadCache
    <3> QED BY <2>1, <3>1 DEF ReadCache
  <2>2. CASE DoLead(c)    BY <2>2 DEF DoLead
  <2>3. CASE DoJoin(c)    BY <2>3 DEF DoJoin
  <2>4. CASE Recheck(c)   BY <2>4 DEF Recheck
  <2>5. CASE Answered(c)  BY <2>5 DEF Answered, Remember
  <2>6. CASE TimedOut(c)  BY <2>6 DEF TimedOut, Remember
  <2>8. CASE Retry(c)     BY <2>8 DEF Retry
  <2>7. CASE EndFlight(c)
    <3>1. result' \in [Callers -> BOOLEAN]
          BY <2>7 DEF EndFlight
    <3> QED BY <2>7, <3>1 DEF EndFlight
  <2> QED BY <1>2, <2>1, <2>2, <2>3, <2>4, <2>5, <2>6, <2>7, <2>8
          DEF CheckStep
<1>3. ASSUME NEW c \in Callers, Cancel(c)
      PROVE  TypeOK'
      BY <1>3 DEF Cancel
<1>4. CASE UpstreamChanges
      BY <1>4 DEF UpstreamChanges, Horizon
<1>5. CASE Tick
      BY <1>5 DEF Tick, Capped, Horizon
<1>6. CASE UNCHANGED vars
      BY <1>6 DEF vars
<1>7. CASE FirewallAnswers \/ FirewallLoses
      BY <1>7 DEF FirewallAnswers, FirewallLoses
<1> QED BY <1>1, <1>2, <1>3, <1>4, <1>5, <1>6, <1>7 DEF Next

\* Every variable keeps its type, and callers wait only while one of them runs
\* the singleflight function.
THEOREM TypeCorrect == Spec => []TypeOK
BY TypeInit, TypeNext, PTL DEF Spec

-----------------------------------------------------------------------------
(* One probe per TTL                                                       *)

ProbeInv == Fresh => Probing = {}

LEMMA ProbeNext == TypeOK /\ ProbeInv /\ [Next]_vars => ProbeInv'
<1> SUFFICES ASSUME TypeOK, ProbeInv, [Next]_vars, NEW d \in Callers,
                    Fresh', pc'[d] = "probe"
             PROVE  FALSE
    BY DEF ProbeInv, Probing
<1> USE ReadinessAssumption
    DEF TypeOK, ProbeInv, Probing, Fresh, cache, flight, world
<1>1. ASSUME NEW c \in Callers, Request(c) PROVE FALSE
      BY <1>1 DEF Request
<1>2. ASSUME NEW c \in Callers, CheckStep(c) PROVE FALSE
  <2>1. CASE ReadCache(c) BY <2>1 DEF ReadCache
  <2>2. CASE DoLead(c)    BY <2>2 DEF DoLead
  <2>3. CASE DoJoin(c)    BY <2>3 DEF DoJoin
  <2>4. CASE Recheck(c)   BY <2>4 DEF Recheck
  <2>5. CASE Answered(c)  BY <2>5 DEF Answered, Remember
  <2>6. CASE TimedOut(c)  BY <2>6 DEF TimedOut, Remember
  <2>8. CASE Retry(c)     BY <2>8 DEF Retry
  <2>7. CASE EndFlight(c) BY <2>7 DEF EndFlight
  <2> QED BY <1>2, <2>1, <2>2, <2>3, <2>4, <2>5, <2>6, <2>7, <2>8
          DEF CheckStep
<1>3. ASSUME NEW c \in Callers, Cancel(c) PROVE FALSE
      BY <1>3 DEF Cancel
<1>4. CASE UpstreamChanges
      BY <1>4 DEF UpstreamChanges
<1>5. CASE Tick
      BY <1>5 DEF Tick, Capped
<1>6. CASE UNCHANGED vars
      BY <1>6 DEF vars
<1>7. CASE FirewallAnswers \/ FirewallLoses
      BY <1>7 DEF FirewallAnswers, FirewallLoses
<1> QED BY <1>1, <1>2, <1>3, <1>4, <1>5, <1>6, <1>7 DEF Next

\* However many requests arrive, probes of the firewall neither overlap nor
\* run while the cached verdict is fresh.
THEOREM OneProbe == Spec => []OneProbePerTTL
<1>1. Init => ProbeInv
      BY DEF Init, ProbeInv, Probing
<1>2. TypeOK => Cardinality(Probing) <= 1
  <2> SUFFICES ASSUME TypeOK
               PROVE  Cardinality(Probing) <= 1
      OBVIOUS
  <2>1. \A c \in Probing : Probing = {c}
        BY DEF TypeOK, Probing
  <2>2. CASE Probing = {}
        BY <2>2, FS_EmptySet
  <2>3. ASSUME NEW c \in Probing
        PROVE  Cardinality(Probing) = 1
        BY <2>1, <2>3, FS_Singleton
  <2> QED BY <2>2, <2>3
<1>3. TypeOK /\ ProbeInv => OneProbePerTTL
      BY <1>2 DEF ProbeInv, OneProbePerTTL
<1> QED BY TypeInit, TypeNext, ProbeNext, <1>1, <1>3, PTL DEF Spec

-----------------------------------------------------------------------------
(* Verdicts are recent                                                     *)

\* What the probe's call has met is not older than the probe: an answer was true
\* when it was given, and a call that is refused, lost or kept waiting met a
\* firewall that was not up.  So the cached verdict is at most one probe older
\* than lastAge says, and the verdict of a call about to end is recent.
RecentInv ==
    /\ IF upstream = "up" THEN sinceUp = 0 ELSE sinceBad = 0
    /\ call = "up" => sinceUp <= probeAge
    /\ call \in {"down", "lost", "backoff"} \/ probeAge > 0 => sinceBad <= probeAge
    /\ Fresh => IF lastErr THEN sinceBad <= lastAge + ProbeTimeout
                           ELSE sinceUp <= lastAge + ProbeTimeout
    /\ \A c \in Callers : pc[c] = "end" =>
          IF verdict THEN sinceBad < Horizon ELSE sinceUp < Horizon

LEMMA RecentInit == Init => RecentInv
BY ReadinessAssumption DEF Init, RecentInv, Fresh, Horizon

LEMMA RecentNext == TypeOK /\ RecentInv /\ [Next]_vars => RecentInv'
<1> SUFFICES ASSUME TypeOK, RecentInv, [Next]_vars
             PROVE  RecentInv'
    OBVIOUS
<1> USE ReadinessAssumption
    DEF TypeOK, RecentInv, Fresh, Horizon, cache, flight, world
<1>1. ASSUME NEW c \in Callers, Request(c) PROVE RecentInv'
      BY <1>1 DEF Request
<1>2. ASSUME NEW c \in Callers, CheckStep(c) PROVE RecentInv'
  <2>1. CASE ReadCache(c) BY <2>1 DEF ReadCache
  <2>2. CASE DoLead(c)    BY <2>2 DEF DoLead
  <2>3. CASE DoJoin(c)    BY <2>3 DEF DoJoin
  <2>4. CASE Recheck(c)
    <3>1. CASE Fresh
      <4>1. verdict' = lastErr
            BY <2>4, <3>1 DEF Recheck
      <4>2. IF verdict' THEN sinceBad < Horizon ELSE sinceUp < Horizon
            BY <3>1, <4>1
      <4> QED BY <2>4, <4>2 DEF Recheck
    <3>2. CASE ~Fresh
          BY <2>4, <3>2 DEF Recheck
    <3> QED BY <3>1, <3>2
  <2>5. CASE Answered(c)
    <3>1. /\ lastAge' = 0 /\ UNCHANGED <<upstream, sinceUp, sinceBad>>
          /\ call' = "none" /\ probeAge' = 0
          BY <2>5 DEF Answered, Remember
    <3>2. CASE call = "up"
      <4>1. ~lastErr' /\ ~verdict'
            BY <2>5, <3>2 DEF Answered, Remember
      <4> QED BY <3>1, <3>2, <4>1
    <3>3. CASE call = "down"
      <4>1. lastErr' /\ verdict'
            BY <2>5, <3>3 DEF Answered, Remember
      <4> QED BY <3>1, <3>3, <4>1
    <3> QED BY <2>5, <3>2, <3>3 DEF Answered
  <2>6. CASE TimedOut(c)  BY <2>6 DEF TimedOut, Remember
  <2>8. CASE Retry(c)     BY <2>8 DEF Retry
  <2>7. CASE EndFlight(c) BY <2>7 DEF EndFlight
  <2> QED BY <1>2, <2>1, <2>2, <2>3, <2>4, <2>5, <2>6, <2>7, <2>8
          DEF CheckStep
<1>3. ASSUME NEW c \in Callers, Cancel(c) PROVE RecentInv'
      BY <1>3 DEF Cancel
<1>4. CASE UpstreamChanges
      BY <1>4 DEF UpstreamChanges
<1>5. CASE Tick
      BY <1>5 DEF Tick, Capped
<1>6. CASE UNCHANGED vars
      BY <1>6 DEF vars
<1>7. CASE FirewallAnswers \/ FirewallLoses
      BY <1>7 DEF FirewallAnswers, FirewallLoses
<1> QED BY <1>1, <1>2, <1>3, <1>4, <1>5, <1>6, <1>7 DEF Next

\* No request is told anything of the firewall that was not true less than the
\* TTL and a probe timeout ago, whoever ran the probe, whatever became of its
\* call and whoever hung up meanwhile.
THEOREM VerdictsAreRecent == Spec => VerdictIsRecent
<1> DEFINE Told(c) == pc[c] # "done" /\ pc'[c] = "done"
           Recent(c) == IF result'[c] THEN sinceBad < Horizon ELSE sinceUp < Horizon
<1>1. ASSUME TypeOK, RecentInv, [Next]_vars, NEW d \in Callers, Told(d)
      PROVE  Recent(d)
  <2> USE <1>1, ReadinessAssumption
      DEF TypeOK, RecentInv, Fresh, Horizon, cache, flight, world
  <2>1. ASSUME NEW c \in Callers, CheckStep(c) PROVE Recent(d)
    <3>1. CASE ReadCache(c)
      <4>1. c = d /\ Fresh /\ result'[d] = lastErr
            BY <3>1 DEF ReadCache
      <4> QED BY <4>1
    <3>2. CASE EndFlight(c)
      <4>1. result'[d] = verdict
            BY <3>2 DEF EndFlight
      <4> QED BY <3>2, <4>1 DEF EndFlight
    <3>3. CASE \/ DoLead(c) \/ DoJoin(c) \/ Recheck(c)
               \/ Answered(c) \/ Retry(c) \/ TimedOut(c)
          BY <3>3 DEF DoLead, DoJoin, Recheck, Answered, Retry, TimedOut,
                      Remember
    <3> QED BY <2>1, <3>1, <3>2, <3>3 DEF CheckStep
  <2>2. ASSUME NEW c \in Callers, Request(c) \/ Cancel(c) PROVE Recent(d)
        BY <2>2 DEF Request, Cancel
  <2>3. CASE \/ FirewallAnswers \/ FirewallLoses
             \/ UpstreamChanges \/ Tick \/ UNCHANGED vars
        BY <2>3 DEF FirewallAnswers, FirewallLoses, UpstreamChanges, Tick, vars
  <2> QED BY <2>1, <2>2, <2>3 DEF Next
<1>2. TypeOK /\ RecentInv /\ [Next]_vars
      => [\A c \in Callers : Told(c) => Recent(c)]_vars
      BY <1>1
<1> QED BY TypeInit, TypeNext, RecentInit, RecentNext, <1>2, PTL
        DEF Spec, VerdictIsRecent
=============================================================================
