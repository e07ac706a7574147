SPECIFICATION Spec
CONSTANTS
    Adders = {a1}
    Setters = {}
    Deleters = {d1}
    RetryAttempts = 2
    None = none
INVARIANT WritesSerial
CHECK_DEADLOCK FALSE
