SPECIFICATION Spec
CONSTANTS
    Piece <- MCPiece
    MaxMessages = 2
    MaxPieces = 2
    MaxRound = 2
    Magic <- MCMagic
    ModelType <- MCModelType
    Caches <- MCCaches
    Histories <- MCHistories
    NoFile = NoFile
CHECK_DEADLOCK FALSE
INVARIANT LoadIsSound
