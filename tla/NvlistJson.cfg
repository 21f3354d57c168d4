SPECIFICATION FairSpec
CONSTANTS
    Input <- MCInput
    Width = 16
    MayFail = TRUE
INVARIANTS NoAbort ParsesExactly
PROPERTY ParseEnds
