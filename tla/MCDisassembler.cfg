CONSTANTS
    MaxInt = 7
    ByteBase = 20
    MaxOperand = 99
    Chunks <- MCListed
SPECIFICATION FairSpec
INVARIANTS ListingReassembles ListingReadsAsCompiled
CHECK_DEADLOCK FALSE
