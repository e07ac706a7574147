---------------------------- MODULE ClientProofs ----------------------------
(***************************************************************************)
(* Two facts about write calls for any number of workers and attempts: an  *)
(* add or set is saved at most once, and, while no attempt is abandoned,   *)
(* what was acknowledged is in the table.                                  *)
(***************************************************************************)
EXTENDS Client, TLAPS

\* The first attempt is one of the tries.
LEMMA FirstTry == 0 \in Tries /\ Tries \subseteq Nat
BY ClientAssumption DEF Tries

LEMMA ClientTypeInit == Init => TypeOK
<1> SUFFICES ASSUME Init
             PROVE  TypeOK
    OBVIOUS
<1> USE DEF Init, Contents, Points, Stages
<1>1. table \in [Workers -> Contents]
      OBVIOUS
<1>2. loaded \in [Workers -> [Tries -> [Workers -> Contents]]]
      BY <1>1
<1>3. /\ stage \in [Workers -> [Tries -> Stages]]
      /\ attempt \in [Workers -> Tries]
      /\ pc \in [Workers -> Points]
      /\ commits \in [Workers -> Nat]
      BY FirstTry
<1> QED BY <1>1, <1>2, <1>3 DEF TypeOK

\* What an attempt that failed does to the call: another attempt with the
\* mutex kept, or a return.
LEMMA AgainCases ==
    ASSUME TypeOK, NEW w \in Workers, NEW retryable, Again(w, retryable)
    PROVE  \/ /\ retryable
              /\ attempt[w] + 1 \in Tries
              /\ pc' = [pc EXCEPT ![w] = "send"]
              /\ attempt' = [attempt EXCEPT ![w] = attempt[w] + 1]
              /\ writeMu' = writeMu
           \/ /\ pc' = [pc EXCEPT ![w] = "error"]
              /\ attempt' = attempt
              /\ writeMu' = None
<1>1. CASE Return(w, "error")
      BY <1>1 DEF Return, Goto
<1>2. CASE ~Return(w, "error")
  <2>1. /\ retryable /\ attempt[w] + 1 < RetryAttempts
        /\ Goto(w, "send")
        /\ attempt' = [attempt EXCEPT ![w] = @ + 1]
        /\ UNCHANGED writeMu
        BY <1>2, Zenon DEF Again
  <2>2. attempt[w] + 1 \in Tries
        BY <2>1, ClientAssumption DEF Tries, TypeOK
  <2> QED BY <2>1, <2>2 DEF Goto
<1> QED BY <1>1, <1>2

\* Either way the call's own variables keep their types.
LEMMA AgainTypes ==
    ASSUME TypeOK, NEW w \in Workers, NEW retryable, Again(w, retryable)
    PROVE  /\ writeMu' \in Workers \cup {None}
           /\ pc' \in [Workers -> Points]
           /\ attempt' \in [Workers -> Tries]
<1>1. \/ /\ attempt[w] + 1 \in Tries
         /\ pc' = [pc EXCEPT ![w] = "send"]
         /\ attempt' = [attempt EXCEPT ![w] = attempt[w] + 1]
         /\ writeMu' = writeMu
      \/ /\ pc' = [pc EXCEPT ![w] = "error"]
         /\ attempt' = attempt
         /\ writeMu' = None
      BY AgainCases, Zenon
<1> QED BY <1>1 DEF TypeOK, Points

LEMMA ClientTypeNext == TypeOK /\ [Next]_vars => TypeOK'
<1> SUFFICES ASSUME TypeOK, [Next]_vars
             PROVE  TypeOK'
    OBVIOUS
<1> USE ClientAssumption, FirstTry
    DEF TypeOK, Contents, Points, Stages, Goto, Return, firewall
<1>1. ASSUME NEW w \in Workers, WorkerStep(w)
      PROVE  TypeOK'
  <2>1. CASE Call(w) BY <2>1 DEF Call
  <2>2. CASE Lock(w) BY <2>2 DEF Lock
  <2>3. CASE Send(w) BY <2>3 DEF Send
  <2>5. ASSUME NEW n \in Tries, Answered(w, n)
        PROVE  TypeOK'
    <3>1. stage' \in [Workers -> [Tries -> Stages]]
          BY <2>5 DEF Answered
    <3> QED BY <2>5, <3>1 DEF Answered
  <2>4. ASSUME NEW n \in Tries, Refused(w, n)
        PROVE  TypeOK'
        BY <2>4 DEF Refused
  <2>6. ASSUME NEW n \in Tries, Failed(w, n) PROVE TypeOK'
        BY <2>6, AgainTypes DEF Failed
  <2>7. ASSUME NEW n \in Tries, TooMany(w, n) PROVE TypeOK'
        BY <2>7, AgainTypes DEF TooMany
  <2>8. ASSUME NEW n \in Tries, Timeout(w, n) PROVE TypeOK'
        BY <2>8, AgainTypes DEF Timeout
  <2> QED BY <1>1, <2>1, <2>2, <2>3, <2>4, <2>5, <2>6, <2>7, <2>8
          DEF WorkerStep
<1>2. ASSUME NEW w \in Workers, NEW n \in Tries, Load(w, n)
      PROVE  TypeOK'
      BY <1>2 DEF Load
<1>3. ASSUME NEW w \in Workers, NEW n \in Tries, Save(w, n)
      PROVE  TypeOK'
      BY <1>3 DEF Save, Written
<1>4. ASSUME NEW w \in Workers, NEW n \in Tries, NotFound(w, n)
      PROVE  TypeOK'
      BY <1>4 DEF NotFound
<1>5. CASE UNCHANGED vars
      BY <1>5 DEF vars
<1> QED BY <1>1, <1>2, <1>3, <1>4, <1>5 DEF Next, FirewallStep

\* Every variable of the write path keeps its type; no call makes more than
\* RetryAttempts attempts.
THEOREM ClientTypeCorrect == Spec => []TypeOK
BY ClientTypeInit, ClientTypeNext, PTL DEF Spec

-----------------------------------------------------------------------------
(* Saved at most once                                                      *)

\* Of an add or set the firewall has at most the current attempt, and it has
\* not been saved before.
OnceInv ==
    \A w \in Workers \ Deleters :
        /\ \A n \in Tries : n # attempt[w] => stage[w][n] = "none"
        /\ stage[w][attempt[w]] \in {"queued", "loaded"} => commits[w] = 0
        /\ pc[w] \in {"idle", "lock", "send"} =>
              stage[w][attempt[w]] = "none" /\ commits[w] = 0
        /\ commits[w] <= 1

LEMMA OnceNext == TypeOK /\ OnceInv /\ [Next]_vars => OnceInv'
<1> SUFFICES ASSUME TypeOK, OnceInv, [Next]_vars
             PROVE  OnceInv'
    OBVIOUS
<1> USE ClientAssumption, FirstTry
    DEF TypeOK, OnceInv, Points, Stages, Goto, Return, firewall
<1>1. ASSUME NEW w \in Workers, WorkerStep(w)
      PROVE  OnceInv'
  <2>1. CASE Call(w) BY <2>1 DEF Call
  <2>2. CASE Lock(w) BY <2>2 DEF Lock
  <2>3. CASE Send(w) BY <2>3 DEF Send
  <2>4. ASSUME NEW n \in Tries, Answered(w, n) PROVE OnceInv'
        BY <2>4 DEF Answered, Waiting
  <2>5. ASSUME NEW n \in Tries, Refused(w, n) PROVE OnceInv'
        BY <2>5 DEF Refused, Waiting
  <2>6. ASSUME NEW n \in Tries, Failed(w, n) PROVE OnceInv'
    <3>1. CASE w \in Deleters
          BY <2>6, <3>1, AgainCases DEF Failed, Waiting
    <3>2. CASE w \notin Deleters
      <4>1. /\ pc' = [pc EXCEPT ![w] = "error"]
            /\ attempt' = attempt
            BY <2>6, <3>2, AgainCases DEF Failed, idempotent
      <4> QED BY <2>6, <4>1 DEF Failed, Waiting
    <3> QED BY <3>1, <3>2
  <2>7. ASSUME NEW n \in Tries, TooMany(w, n) PROVE OnceInv'
    <3>1. CASE /\ attempt[w] + 1 \in Tries
               /\ pc' = [pc EXCEPT ![w] = "send"]
               /\ attempt' = [attempt EXCEPT ![w] = attempt[w] + 1]
      <4>1. attempt[w] + 1 # n /\ n = attempt[w]
            BY <2>7 DEF TooMany, Waiting
      <4> QED BY <2>7, <3>1, <4>1 DEF TooMany, Waiting
    <3>2. CASE pc' = [pc EXCEPT ![w] = "error"] /\ attempt' = attempt
          BY <2>7, <3>2 DEF TooMany, Waiting
    <3> QED BY <2>7, <3>1, <3>2, AgainCases DEF TooMany
  <2>8. ASSUME NEW n \in Tries, Timeout(w, n) PROVE OnceInv'
        BY <2>8 DEF Timeout, Again, idempotent, Waiting
  <2> QED BY <1>1, <2>1, <2>2, <2>3, <2>4, <2>5, <2>6, <2>7, <2>8
          DEF WorkerStep
<1>2. ASSUME NEW w \in Workers, NEW n \in Tries, Load(w, n)
      PROVE  OnceInv'
      BY <1>2 DEF Load
<1>3. ASSUME NEW w \in Workers, NEW n \in Tries, Save(w, n)
      PROVE  OnceInv'
      BY <1>3 DEF Save
<1>4. ASSUME NEW w \in Workers, NEW n \in Tries, NotFound(w, n)
      PROVE  OnceInv'
      BY <1>4 DEF NotFound
<1>5. CASE UNCHANGED vars
      BY <1>5 DEF vars
<1> QED BY <1>1, <1>2, <1>3, <1>4, <1>5 DEF Next, FirewallStep

\* However a call is retried, timed out or answered late, its add or set is
\* saved at most once.
THEOREM SavedAtMostOnce == Spec => []CommitsOnce
<1> DEFINE I == TypeOK /\ OnceInv
<1>1. Init => I
      BY ClientTypeInit, FirstTry DEF Init, OnceInv
<1>2. I /\ [Next]_vars => I'
      BY ClientTypeNext, OnceNext
<1>3. I => CommitsOnce
      BY DEF OnceInv, CommitsOnce
<1> QED BY <1>1, <1>2, <1>3, PTL DEF Spec

-----------------------------------------------------------------------------
(* Acknowledged and saved                                                  *)

\* writeMu is held from the first attempt to the return.
LockInv == \A w \in Workers : pc[w] \in {"send", "wait"} <=> writeMu = w

\* While no attempt has been abandoned the firewall works only on the attempt
\* its caller waits for, so a save starts from the table as it is.
SerialInv ==
    ~abandoned =>
        \A w \in Workers :
            /\ \A n \in Tries :
                  /\ stage[w][n] # "none" => pc[w] = "wait" /\ attempt[w] = n
                  /\ stage[w][n] = "loaded" => loaded[w][n] = table
                  /\ stage[w][n] = "saved" => table[w] = Written(w)
            /\ pc[w] = "ok" => table[w] = Written(w)

\* The mutex is kept for another attempt and released on return.
LEMMA LockKept ==
    ASSUME TypeOK, LockInv, NEW w \in Workers, NEW n \in Tries,
           Waiting(w, n), NEW retryable, Again(w, retryable)
    PROVE  LockInv'
<1>1. \/ /\ pc' = [pc EXCEPT ![w] = "send"]
         /\ writeMu' = writeMu
      \/ /\ pc' = [pc EXCEPT ![w] = "error"]
         /\ writeMu' = None
      BY AgainCases, Zenon
<1> QED BY <1>1, ClientAssumption DEF LockInv, Waiting, TypeOK

\* An attempt that ended leaves the firewall idle: what the call does next
\* disturbs no other worker.
LEMMA SerialEnds ==
    ASSUME TypeOK, LockInv, SerialInv, NEW w \in Workers, NEW n \in Tries,
           Waiting(w, n), NEW retryable, Again(w, retryable),
           stage' = [stage EXCEPT ![w][n] = "none"],
           UNCHANGED <<table, loaded, abandoned>>
    PROVE  LockInv' /\ SerialInv'
<1> USE ClientAssumption DEF TypeOK
<1>1. \/ /\ pc' = [pc EXCEPT ![w] = "send"]
         /\ writeMu' = writeMu
      \/ /\ pc' = [pc EXCEPT ![w] = "error"]
         /\ writeMu' = None
      BY AgainCases
<1>2. \A v \in Workers : v # w => attempt'[v] = attempt[v]
      BY AgainCases
<1>3. LockInv'
      BY LockKept
<1>4. ASSUME ~abandoned, NEW v \in Workers, NEW m \in Tries
      PROVE  \/ stage'[v][m] = "none"
             \/ v # w /\ stage'[v][m] = stage[v][m]
      BY <1>4 DEF SerialInv, Waiting
<1>5. \A v \in Workers : /\ v # w => pc'[v] = pc[v]
                         /\ pc'[w] # "ok"
      BY <1>1
<1> QED BY <1>2, <1>3, <1>4, <1>5 DEF SerialInv

LEMMA SerialNext ==
    TypeOK /\ LockInv /\ SerialInv /\ [Next]_vars => LockInv' /\ SerialInv'
<1> SUFFICES ASSUME TypeOK, LockInv, SerialInv, [Next]_vars
             PROVE  LockInv' /\ SerialInv'
    OBVIOUS
<1> USE ClientAssumption, FirstTry
    DEF TypeOK, LockInv, SerialInv, Points, Stages, Goto, Return, firewall
<1>1. ASSUME NEW w \in Workers, WorkerStep(w)
      PROVE  LockInv' /\ SerialInv'
  <2>1. CASE Call(w) BY <2>1 DEF Call
  <2>2. CASE Lock(w) BY <2>2 DEF Lock
  <2>3. CASE Send(w) BY <2>3 DEF Send
  <2>4. ASSUME NEW n \in Tries, Answered(w, n)
        PROVE  LockInv' /\ SerialInv'
        BY <2>4 DEF Answered, Waiting
  <2>5. ASSUME NEW n \in Tries, Refused(w, n)
        PROVE  LockInv' /\ SerialInv'
        BY <2>5 DEF Refused, Waiting
  <2>6. ASSUME NEW n \in Tries, Failed(w, n)
        PROVE  LockInv' /\ SerialInv'
        BY <2>6, SerialEnds DEF Failed
  <2>7. ASSUME NEW n \in Tries, TooMany(w, n)
        PROVE  LockInv' /\ SerialInv'
        BY <2>7, SerialEnds DEF TooMany
  <2>8. ASSUME NEW n \in Tries, Timeout(w, n)
        PROVE  LockInv' /\ SerialInv'
    <3>1. abandoned' = TRUE
          BY <2>8 DEF Timeout
    <3>2. LockInv'
          BY <2>8, LockKept DEF Timeout
    <3> QED BY <3>1, <3>2
  <2> QED BY <1>1, <2>1, <2>2, <2>3, <2>4, <2>5, <2>6, <2>7, <2>8
          DEF WorkerStep
<1>2. ASSUME NEW w \in Workers, NEW n \in Tries, Load(w, n)
      PROVE  LockInv' /\ SerialInv'
      BY <1>2 DEF Load
<1>3. ASSUME NEW w \in Workers, NEW n \in Tries, Save(w, n)
      PROVE  LockInv' /\ SerialInv'
      BY <1>3 DEF Save
<1>4. ASSUME NEW w \in Workers, NEW n \in Tries, NotFound(w, n)
      PROVE  LockInv' /\ SerialInv'
      BY <1>4 DEF NotFound, Written
<1>5. CASE UNCHANGED vars
      BY <1>5 DEF vars
<1> QED BY <1>1, <1>2, <1>3, <1>4, <1>5 DEF Next, FirewallStep

\* For any number of workers, writeMu makes up for the firewall's unlocked
\* load-modify-write: without an abandoned attempt no acknowledged write is
\* lost.
THEOREM AcknowledgedIsSaved == Spec => []AckedIsSaved
<1> DEFINE I == TypeOK /\ LockInv /\ SerialInv
<1>1. Init => I
      BY ClientTypeInit, FirstTry, ClientAssumption
      DEF Init, LockInv, SerialInv
<1>2. I /\ [Next]_vars => I'
      BY ClientTypeNext, SerialNext
<1>3. I => AckedIsSaved
      BY DEF SerialInv, AckedIsSaved
<1> QED BY <1>1, <1>2, <1>3, PTL DEF Spec
=============================================================================
