CONSTANTS
    MaxInt = 7
    ByteBase = 20
    MaxOperand = 255
    MaxCallDepth = 4
    MaxStackSlots = 256
    Sources <- MCOperators
SPECIFICATION FairSpec
INVARIANTS OperatorsAreExact
CHECK_DEADLOCK FALSE
