\* Four rows over pages of two, so that a read takes up to three pages.
SPECIFICATION FairSpec
CONSTANTS
    UUIDs = {1, 2, 3, 4}
    MaxRank = 2
    PageSize = 2
    ReadAttempts = 2
    NoTotal = NoTotal
INVARIANTS TypeOK AcceptedIsWhole PagesBounded
PROPERTY ReadEnds
