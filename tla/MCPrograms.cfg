CONSTANTS
    MaxInt = 7
    ByteBase = 20
    MaxOperand = 255
    MaxCallDepth = 4
    MaxStackSlots = 256
    Sources <- MCPrograms
SPECIFICATION FairSpec
INVARIANTS OutputsAgree ProgramsMeanWhatTheySay
PROPERTIES SlotsAgreeAtPrints Terminates
CHECK_DEADLOCK FALSE
