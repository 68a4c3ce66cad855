SPECIFICATION FormSpec
CONSTANTS
    Catalog <- TwoEntries
    Infer <- Home
    Recipes <- All
    Offered <- Applies
    Depends <- Needs
    HasParams <- Asking
    Downloaded = {1}
    ScanBatch = 1
    ChanCap = 1
    MaxKeys = 6
CHECK_DEADLOCK FALSE
INVARIANT WorkFollowed
PROPERTY FormFaithful
PROPERTY ScanEnds
