CONSTANTS
    MaxInt = 7
    ByteBase = 20
    MaxOperand = 50
    MaxCallDepth = 12
    MaxStackSlots = 51
    Sources <- MCSizes
SPECIFICATION FairSpec
INVARIANTS NoProgramExhaustsTheStack
CHECK_DEADLOCK FALSE
