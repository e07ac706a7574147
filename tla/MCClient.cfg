\* One worker per operation; each makes one call.  When all have returned and
\* the firewall has finished, the system stops.
SPECIFICATION FairSpec
CONSTANTS
    Adders = {a1}
    Setters = {s1}
    Deleters = {d1}
    RetryAttempts = 2
    None = none
INVARIANTS TypeOK AckedIsSaved CommitsOnce
PROPERTY CallReturns
CHECK_DEADLOCK FALSE
