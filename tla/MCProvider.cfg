\* Two applies, a read, the startup check and crashes.
SPECIFICATION FairSpec
CONSTANTS
    Keys = {k1}
    Targets = {t1}
    Appliers = {a1, a2}
    Readers = {r1}
    Startup = startup
    None = none
INVARIANTS TypeOK NoSilentDivergence GaugeSettles RestartCovered
PROPERTIES ApplyReturnsServed PublicationKept DivergenceRepaired ApplyReturns
