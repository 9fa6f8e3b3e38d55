CONSTANTS
    MaxInt = 7
    Sources <- MCSources
SPECIFICATION FairSpec
INVARIANTS AcceptsItsGrammar TreeReadsBack OperatorsBindByLevel SpansQuoteTheirSource
PROPERTIES ParserDecides
CHECK_DEADLOCK FALSE
