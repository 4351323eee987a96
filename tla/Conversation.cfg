SPECIFICATION Spec
CONSTANTS
    u1 = u1
    u2 = u2
    a1 = a1
    t1 = t1
    c1 = c1
    p1 = p1
    p2 = p2
    Piece <- MCPiece
    UserTexts = {u1, u2}
    Answers = {a1}
    ToolTexts = {t1}
    Completions = {c1}
    SysPrompts = {p1, p2}
    NoPrompt = NoPrompt
    NoFile = NoFile
    MaxLength = 50
    MaxMessages = 7
    MaxPieces = 3
    MaxRound = 5
    Programs <- MCPrograms
CHECK_DEADLOCK FALSE
INVARIANTS ContextIsHistory PromptIsHistory TokPosRestores ToolInputIsUsed
PROPERTIES ShiftMakesRoom UsesTokenContext TurnEnds
