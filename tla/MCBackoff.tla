----------------------------- MODULE MCBackoff -----------------------------
(***************************************************************************)
(* The waits of one call that is refused over and over, each time with any *)
(* Retry-After header, for every configuration of the two delays.          *)
(***************************************************************************)
EXTENDS Backoff

CONSTANTS
    Attempts,   \* the largest OPNSENSE_RETRY_ATTEMPTS
    Initials,   \* values of OPNSENSE_RETRY_INITIAL_DELAY
    Maxima      \* values of OPNSENSE_RETRY_MAX_DELAY

\* Config.Validate bounds the attempts, and the delays by one another.  That
\* leaves delays of years, for which the arithmetic is not meant: the shifted
\* delay stays below twice the range of a duration, the maximum with its jitter
\* within it, and the maximum within the day that Retry-After is capped at.
DelaysFit ==
    /\ Half \in Nat \ {0} /\ Second \in Nat /\ Attempts \in Nat
    /\ maxRetryAfterSeconds \in Nat
    /\ maxRetryAfterSeconds * Second < Half
    /\ \A m \in Maxima : /\ m \in Nat /\ m + m \div 2 < Half
                          /\ m <= maxRetryAfterSeconds * Second
    /\ \A i \in Initials : /\ i \in Nat
                            /\ \A a \in 0..(Attempts - 2) :
                                 i * 2^a \in 1..(2 * Half)

VARIABLE retry  \* the two delays, the attempt, and the header and wait after it

Headers == {NoHeader}
           \cup {Seconds(n) : n \in {-1, 0, 1, maxRetryAfterSeconds,
                                     maxRetryAfterSeconds + 1}}
           \cup {Date(d) : d \in {-1, 3, Half - 1}}

\* Config.Validate: the maximum is not below the initial delay.
Init ==
    \E initial \in Initials, maxDelay \in Maxima :
        /\ maxDelay >= initial
        /\ retry = [initial |-> initial, maxDelay |-> maxDelay, attempt |-> 0,
                    header |-> NoHeader, wait |-> initial]

Wait ==
    /\ retry.attempt < Attempts - 1
    /\ LET b == base(retry.initial, retry.maxDelay, retry.attempt)
       IN  \E h \in Headers, jitter \in Jitters(b) :
             retry' = [retry EXCEPT
                         !.attempt = @ + 1,
                         !.header  = h,
                         !.wait    = backoff(b, retry.maxDelay,
                                             parseRetryAfter(h), jitter)]

\* A call is repeated after at least the exponential delay and the time the
\* server asked for, and never later than the maximum, although the shift and
\* the conversion from seconds can overflow.
WaitInRange ==
    /\ retry.wait <= retry.maxDelay
    /\ retry.attempt > 0 =>
          retry.wait >= Due(retry.initial, retry.maxDelay, retry.attempt - 1,
                            retry.header)
=============================================================================
