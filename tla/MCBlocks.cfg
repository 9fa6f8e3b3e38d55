CONSTANTS
    MaxInt = 3
    ByteBase = 20
    MaxOperand = 255
    MaxCallDepth = 4
    MaxStackSlots = 256
    Sources <- MCBodies
SPECIFICATION FairSpec
INVARIANTS AcceptsExactlyTheWellScoped SlotsFollowTheRules RefusedNamesSayWhy
    HolesArePending CompiledCodeIsWellTyped ConstantsAreReadOnce ReadsAreOfWrittenSlots
PROPERTIES EmittedCodeIsFinal
CHECK_DEADLOCK FALSE
