SPECIFICATION Spec
CONSTANTS
    NoZone = {}
    BadTXT = {9}
    MaxTTL = 1
    UUIDs = {1, 2, 3, 4}
    Tables <- ConflictTables
    Plans <- ConflictPlans
    Workers = 1
    MaxFaults = 0
    NoRow = NoRow
INVARIANT OwnedRows
