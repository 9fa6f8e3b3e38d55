CONSTANTS
    MaxInt = 7
    ByteBase = 20
    MaxOperand = 60
    MaxCallDepth = 4
    MaxStackSlots = 64
    CommandLines <- MCCommandLines
    Disk <- MCDisk
    Unreadable <- MCUnreadable
SPECIFICATION FairSpec
INVARIANTS UnreadableInputIsNoInput
CHECK_DEADLOCK FALSE
