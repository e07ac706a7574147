\* Two names, two workers, three faults of any kind anywhere.
SPECIFICATION FairSpec
CONSTANTS
    NoZone = {}
    BadTXT = {9}
    MaxTTL = 1
    UUIDs = {1, 2, 3, 4, 5, 6, 7, 8}
    Tables <- TwoNames
    Plans <- TwoNamePlans
    Workers = 2
    MaxFaults = 3
    NoRow = NoRow
INVARIANTS TypeOK OwnedRows SuccessIsConverged NoDuplicates
PROPERTIES NeverEmptied EventuallyConverged
