\* Every endpoint, on every table of at most one row made by someone else;
\* every table of up to three rows that share record sets; every plan of up to
\* three endpoints; and the waits of up to four attempts with durations of six
\* bits, where the shift and the seconds overflow.  Everything ends.
SPECIFICATION Spec
CONSTANTS
    NoZone = {"apex"}
    BadTXT = {"bad"}
    MaxTTL = 3
    MaxRows = 3
    Configured <- TwoDomains
    BadText = {"long"}
    MaxItems = 3
    Half = 32
    Second = 4
    maxRetryAfterSeconds = 7
    Attempts = 5
    Initials = {1, 2, 3, 4}
    Maxima = {1, 4, 10, 20}
INVARIANTS
    ReadBack DropsUnwritable GroupsOrderFree
    FoldIsAgreement DropsReported InvalidTXTCounted
    WaitInRange
CHECK_DEADLOCK FALSE
