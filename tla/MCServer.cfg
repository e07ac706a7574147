\* Any two of two applies, a read and a health probe, beside the startup check.
\* An apply may take three ticks, a shutdown one; a write timeout of two ticks
\* is refused.  The process stops, so deadlock is expected.
SPECIFICATION FairSpec
CONSTANTS
    Appliers = {a1, a2}
    Readers = {r1}
    Probes = {h1}
    Startup = startup
    None = none
    ApplyTimeout = 2
    ReconfigureTimeout = 1
    WriteTimeouts = {2, 3}
    ShutdownTimeout = 1
    MaxRequests = 2
INVARIANTS TypeOK ReplyInBudget ExitDrains
PROPERTIES ApplyAnswered StopEnds
CHECK_DEADLOCK FALSE
