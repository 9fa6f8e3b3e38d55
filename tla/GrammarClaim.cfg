CONSTANTS
    MaxInt = 7
    Sources <- MCSources
SPECIFICATION FairSpec
INVARIANTS AcceptsTheDocumentedGrammar
CHECK_DEADLOCK FALSE
