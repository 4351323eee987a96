SPECIFICATION Spec
CONSTANTS
    t1 = t1
    t2 = t2
    EOS = EOS
    Token = {t1, t2}
    Blank = Blank
    Window = 3
    Extra = 2
    Choice = {t1, t2, EOS}
    NoChoice = NoChoice
    PenaltyWindow = 2
    Inputs <- MCInputs
    MaxLength = 9
CHECK_DEADLOCK FALSE
INVARIANTS OnlyRewindsFail CountsAreOfWindow
PROPERTY WindowHolds
