------------------------------ MODULE Backoff ------------------------------
(***************************************************************************)
(* How long transport.go waits before it repeats a call: parseRetryAfter   *)
(* and backoff, on durations that wrap around as Go's do.                  *)
(***************************************************************************)
EXTENDS Integers

CONSTANTS
    Half,                   \* a time.Duration lies in -Half .. Half - 1
    Second,                 \* time.Second
    maxRetryAfterSeconds    \* the cap on the numeric Retry-After form

\* What a duration holds after an operation.
Wrap(n) == ((n + Half) % (2 * Half)) - Half

Largest(m, n)  == IF m > n THEN m ELSE n
Smallest(m, n) == IF m < n THEN m ELSE n

\* A Retry-After header: absent or unreadable, a number of seconds, or a date
\* that lies some time ahead (or behind).
NoHeader   == [form |-> "none", value |-> 0]
Seconds(n) == [form |-> "seconds", value |-> n]
Date(d)    == [form |-> "date", value |-> d]

\* Deliberately wrong: the number of seconds is not capped.
parseRetryAfterUncapped(h) ==
    CASE h.form = "seconds" /\ h.value >= 0 -> Wrap(h.value * Second)
      [] h.form = "date" /\ h.value > 0     -> h.value
      [] OTHER                              -> 0

parseRetryAfter(h) ==
    CASE h.form = "seconds" /\ h.value >= 0 ->
            Wrap(Smallest(h.value, maxRetryAfterSeconds) * Second)
      [] h.form = "date" /\ h.value > 0 -> h.value
      [] OTHER                          -> 0

\* initial << attempt; what does not fit or is too long becomes the maximum.
base(initial, maxDelay, attempt) ==
    LET shifted == Wrap(initial * 2^attempt)
    IN  IF shifted <= 0 \/ shifted > maxDelay THEN maxDelay ELSE shifted

\* rand.Int64N of half the base, where there is half of it.
Jitters(b) == IF b \div 2 > 0 THEN 0..(b \div 2 - 1) ELSE {0}

backoff(b, maxDelay, hint, jitter) ==
    Smallest(Largest(Wrap(b + jitter), Smallest(hint, maxDelay)), maxDelay)

-----------------------------------------------------------------------------
(* What the wait is for, in unbounded arithmetic: the time the server asks *)
(* for and the exponential delay, as far as the maximum allows.            *)

Asked(h) ==
    IF h.form = "none" THEN 0
    ELSE Largest(0, h.value * (IF h.form = "seconds" THEN Second ELSE 1))

Due(initial, maxDelay, attempt, h) ==
    Smallest(maxDelay, Largest(initial * 2^attempt, Asked(h)))
=============================================================================
