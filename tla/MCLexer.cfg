CONSTANTS
    MaxInt = 7
    SourceTexts <- MCFiles
SPECIFICATION FairSpec
INVARIANTS TokensTileTheSource TokensAreLongest EndsWhereItMust LayoutsAreLexed
PROPERTIES LexerDecides
CHECK_DEADLOCK FALSE
