\* Three requests, a verdict cached for two ticks, probes of up to two.
SPECIFICATION FairSpec
CONSTANTS
    Callers = {c1, c2, c3}
    TTL = 2
    ProbeTimeout = 2
    None = none
INVARIANTS TypeOK OneProbePerTTL
PROPERTIES VerdictIsRecent CheckReturns
