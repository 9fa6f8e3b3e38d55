CONSTANTS
    MaxInt = 7
    ByteBase = 20
    MaxOperand = 99
    MaxCallDepth = 9
    MaxStackSlots = 100
    Chunks <- MCChunks
SPECIFICATION FairSpec
INVARIANTS TypeOK FramesAreContiguous FramesRunTheirOwnCode OperandsAreTemporaries
    StackWithinCap DepthWithinLimit
PROPERTIES CallersAreUntouched CallsAreSeparate
CHECK_DEADLOCK FALSE
