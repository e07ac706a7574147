\* A delete and an add between two pages keep the total and shift the rows.
SPECIFICATION Spec
CONSTANTS
    UUIDs = {1, 2, 3}
    MaxRank = 1
    PageSize = 1
    ReadAttempts = 2
    NoTotal = NoTotal
INVARIANT NeverPartial
