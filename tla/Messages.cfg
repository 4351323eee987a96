SPECIFICATION MessagesSpec
CONSTANTS
    Piece = {p}
    MaxMessages = 4
    MaxPieces = 2
    MaxRound = 3
INVARIANTS CursorInRange RolesAlternate RoundsFollowTurns RoundsStartAtZero
