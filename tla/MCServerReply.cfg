\* The instance of MCServer, for what is said of SERVER_WRITE_TIMEOUT.
SPECIFICATION Spec
CONSTANTS
    Appliers = {a1, a2}
    Readers = {r1}
    Probes = {h1}
    Startup = startup
    None = none
    ApplyTimeout = 2
    ReconfigureTimeout = 1
    WriteTimeouts = {2, 3}
    ShutdownTimeout = 1
    MaxRequests = 2
INVARIANT ReplyNeverCut
CHECK_DEADLOCK FALSE
