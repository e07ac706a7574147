\* What the documentation promises of the startup check, for single rows.
SPECIFICATION Spec
CONSTANTS
    Keys = {k1}
    Targets = {t1, t2}
    Appliers = {a1}
    Readers = {r1}
    Startup = startup
    None = none
INVARIANT RestartRepairs
