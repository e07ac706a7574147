------------------------------- MODULE Client -------------------------------
(***************************************************************************)
(* The write calls of internal/opnsense/client.go with the retry policy of *)
(* transport.go, against a firewall whose config save is load-modify-write *)
(* with no lock around it.  Workers of an apply add, set and delete rows   *)
(* at the same time; writeMu lets one of them call at a time.  An attempt  *)
(* can be answered, refused before it is processed, fail after it was, or  *)
(* run into its timeout, and then the firewall may still be working on it. *)
(***************************************************************************)
EXTENDS Naturals, FiniteSets

CONSTANTS
    Adders,         \* workers in AddHostOverride, each for a row of its own
    Setters,        \* workers in SetHostOverride
    Deleters,       \* workers in DelHostOverride
    RetryAttempts,  \* OPNSENSE_RETRY_ATTEMPTS
    None            \* an unlocked mutex

Workers == Adders \cup Setters \cup Deleters

Tries == 0..(RetryAttempts - 1)

ASSUME ClientAssumption ==
    /\ Adders \cap Setters = {} /\ Adders \cap Deleters = {}
    /\ Setters \cap Deleters = {}
    /\ RetryAttempts \in Nat \ {0}
    /\ None \notin Workers

VARIABLES
    table,      \* external: the saved row of each worker
    writeMu,    \* the worker holding Client.writeMu, or None
    pc,         \* where each worker's call is
    attempt,    \* the loop variable of do
    stage,      \* external: what the firewall is doing with each attempt
    loaded,     \* external: the table an attempt's save starts from
    commits,    \* observation only: how often a worker's write was saved
    abandoned   \* observation only: an attempt was left running

vars == <<table, writeMu, pc, attempt, stage, loaded, commits, abandoned>>

firewall == <<table, stage, loaded, commits>>

Contents == {"absent", "old", "new"}

\* What a worker's call makes of its row.
Written(w) == IF w \in Deleters THEN "absent" ELSE "new"

\* Deliberately wrong: every operation may be repeated.
idempotentAll(w) == TRUE

\* idempotentOps: of the writes, only a delete may be repeated blindly.
idempotent(w) == w \in Deleters

-----------------------------------------------------------------------------

Init ==
    /\ table = [w \in Workers |-> IF w \in Adders THEN "absent" ELSE "old"]
    /\ writeMu = None
    /\ pc = [w \in Workers |-> "idle"]
    /\ attempt = [w \in Workers |-> 0]
    /\ stage = [w \in Workers |-> [n \in Tries |-> "none"]]
    /\ loaded = [w \in Workers |-> [n \in Tries |-> table]]
    /\ commits = [w \in Workers |-> 0]
    /\ abandoned = FALSE

Goto(w, point) == pc' = [pc EXCEPT ![w] = point]

Call(w) ==
    /\ pc[w] = "idle"
    /\ Goto(w, "lock")
    /\ UNCHANGED <<firewall, writeMu, attempt, abandoned>>

\* Deliberately wrong: writes are not serialised.
LockUnguarded(w) ==
    /\ pc[w] = "lock"
    /\ writeMu' = w
    /\ Goto(w, "send")
    /\ UNCHANGED <<firewall, attempt, abandoned>>

Lock(w) ==
    /\ pc[w] = "lock"
    /\ writeMu = None
    /\ writeMu' = w
    /\ Goto(w, "send")
    /\ UNCHANGED <<firewall, attempt, abandoned>>

Send(w) ==
    /\ pc[w] = "send"
    /\ stage' = [stage EXCEPT ![w][attempt[w]] = "queued"]
    /\ Goto(w, "wait")
    /\ UNCHANGED <<table, loaded, commits, writeMu, attempt, abandoned>>

\* do returns and the deferred Unlock runs.
Return(w, outcome) ==
    /\ Goto(w, outcome)
    /\ writeMu' = None
    /\ UNCHANGED attempt

\* Deliberately wrong: the attempts are not counted down.
AgainForever(w, retryable) ==
    \/ retryable /\ Goto(w, "send") /\ UNCHANGED <<writeMu, attempt>>
    \/ Return(w, "error")

\* Deliberately wrong: one attempt too many.
AgainOffByOne(w, retryable) ==
    \/ /\ retryable /\ attempt[w] < RetryAttempts
       /\ Goto(w, "send")
       /\ attempt' = [attempt EXCEPT ![w] = @ + 1]
       /\ UNCHANGED writeMu
    \/ Return(w, "error")

\* retryAfter, the attempts left, and the caller's context: an attempt that
\* failed is repeated or ends the call.
Again(w, retryable) ==
    \/ /\ retryable /\ attempt[w] + 1 < RetryAttempts
       /\ Goto(w, "send")
       /\ attempt' = [attempt EXCEPT ![w] = @ + 1]
       /\ UNCHANGED writeMu
    \/ Return(w, "error")

\* The firewall starts on an attempt.
Load(w, n) ==
    /\ stage[w][n] = "queued"
    /\ stage' = [stage EXCEPT ![w][n] = "loaded"]
    /\ loaded' = [loaded EXCEPT ![w][n] = table]
    /\ UNCHANGED <<table, commits, writeMu, pc, attempt, abandoned>>

Save(w, n) ==
    /\ stage[w][n] = "loaded"
    /\ w \in Deleters => loaded[w][n][w] # "absent"
    /\ table' = [loaded[w][n] EXCEPT ![w] = Written(w)]
    /\ commits' = [commits EXCEPT ![w] = @ + 1]
    /\ stage' = [stage EXCEPT ![w][n] = "saved"]
    /\ UNCHANGED <<loaded, writeMu, pc, attempt, abandoned>>

\* A delete of a row that is gone saves nothing.
NotFound(w, n) ==
    /\ stage[w][n] = "loaded"
    /\ w \in Deleters /\ loaded[w][n][w] = "absent"
    /\ stage' = [stage EXCEPT ![w][n] = "saved"]
    /\ UNCHANGED <<table, loaded, commits, writeMu, pc, attempt, abandoned>>

Waiting(w, n) == pc[w] = "wait" /\ attempt[w] = n

\* The answer arrives: "saved", "deleted", or "not found" for a delete that an
\* earlier attempt carried out.
Answered(w, n) ==
    /\ Waiting(w, n) /\ stage[w][n] = "saved"
    /\ stage' = [stage EXCEPT ![w][n] = "none"]
    /\ Return(w, "ok")
    /\ UNCHANGED <<table, loaded, commits, abandoned>>

\* A 4xx or "failed" before anything is saved, or an answer that cannot be
\* decoded after it: returned as it is, never retried.
Refused(w, n) ==
    /\ Waiting(w, n) /\ stage[w][n] \in {"queued", "saved"}
    /\ stage' = [stage EXCEPT ![w][n] = "none"]
    /\ Return(w, "error")
    /\ UNCHANGED <<table, loaded, commits, abandoned>>

\* A 5xx or a broken connection, before or after the save.
Failed(w, n) ==
    /\ Waiting(w, n) /\ stage[w][n] \in {"queued", "saved"}
    /\ stage' = [stage EXCEPT ![w][n] = "none"]
    /\ Again(w, idempotent(w))
    /\ UNCHANGED <<table, loaded, commits, abandoned>>

\* 429 comes before any processing and is retried for every operation.
TooMany(w, n) ==
    /\ Waiting(w, n) /\ stage[w][n] = "queued"
    /\ stage' = [stage EXCEPT ![w][n] = "none"]
    /\ Again(w, TRUE)
    /\ UNCHANGED <<table, loaded, commits, abandoned>>

\* OPNSENSE_REQUEST_TIMEOUT, a network error to the policy; the firewall is
\* not told and finishes what it has begun.
Timeout(w, n) ==
    /\ Waiting(w, n) /\ stage[w][n] \in {"queued", "loaded"}
    /\ abandoned' = TRUE
    /\ Again(w, idempotent(w))
    /\ UNCHANGED firewall

WorkerStep(w) ==
    \/ Call(w) \/ Lock(w) \/ Send(w)
    \/ \E n \in Tries : Answered(w, n) \/ Refused(w, n) \/ Failed(w, n)
                        \/ TooMany(w, n) \/ Timeout(w, n)

FirewallStep(w) == \E n \in Tries : Load(w, n) \/ Save(w, n) \/ NotFound(w, n)

Next == \E w \in Workers : WorkerStep(w) \/ FirewallStep(w)

Spec == Init /\ [][Next]_vars

\* A call that can go on does, in the end by its timeout.
FairSpec == Spec /\ \A w \in Workers : WF_vars(WorkerStep(w) \/ FirewallStep(w))

-----------------------------------------------------------------------------

Points == {"idle", "lock", "send", "wait", "ok", "error"}
Stages == {"none", "queued", "loaded", "saved"}

TypeOK ==
    /\ table \in [Workers -> Contents]
    /\ writeMu \in Workers \cup {None}
    /\ pc \in [Workers -> Points]
    /\ attempt \in [Workers -> Tries]
    /\ stage \in [Workers -> [Tries -> Stages]]
    /\ loaded \in [Workers -> [Tries -> [Workers -> Contents]]]
    /\ commits \in [Workers -> Nat]
    /\ abandoned \in BOOLEAN

\* Attempts the firewall has received and not finished.
InProgress == {x \in Workers \X Tries : stage[x[1]][x[2]] \in {"queued", "loaded"}}

\* A write that was acknowledged is in the table, and stays there while other
\* workers write, as long as no attempt was abandoned to its timeout: writeMu
\* makes up for the lock the firewall's load-modify-write lacks.
AckedIsSaved ==
    ~abandoned => \A w \in Workers : pc[w] = "ok" => table[w] = Written(w)

\* An add or a set is saved at most once per call, whatever was retried: it is
\* repeated only after a 429.
CommitsOnce == \A w \in Workers \ Deleters : commits[w] <= 1

\* Every write call returns and lets the next worker write.
CallReturns ==
    \A w \in Workers : pc[w] = "lock" ~> pc[w] \in {"ok", "error"}

\* Documented: "the firewall never sees two mutating calls at once".
WritesSerial == Cardinality(InProgress) <= 1
=============================================================================
