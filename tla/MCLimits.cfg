CONSTANTS
    MaxInt = 7
    ByteBase = 20
    MaxOperand = 50
    MaxCallDepth = 4
    MaxStackSlots = 51
    Sources <- MCSizes
SPECIFICATION FairSpec
INVARIANTS RefusedExactlyIfTooLarge VerdictsAgree CompiledProgramsKeepTheirFrames
CHECK_DEADLOCK FALSE
