SPECIFICATION Spec
CONSTANTS
    t1 = t1
    t2 = t2
    EOS = EOS
    Token = {t1, t2, EOS}
    N = 3
    Prompt = 1
    MaxLength = 3
INVARIANTS SessionIsTrace DistinctTraces EnoughSelections
PROPERTIES SelectedSurvive SearchEnds
CHECK_DEADLOCK FALSE
