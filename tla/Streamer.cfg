SPECIFICATION Spec
CONSTANTS
    Token <- MCToken
    Lead = "L"
    Trail = "T"
    Tags <- MCTags
    Externals <- MCExternals
    MaxText = 7
    ClientOps = {"prefix", "continue", "retry"}
CHECK_DEADLOCK FALSE
INVARIANTS   CharactersAreWhole
