SPECIFICATION Spec
CONSTANTS
    a = a
    b = b
    w1 = w1
    w2 = w2
    Obj = {a, b}
    Main = Main
    Worker = {w1, w2}
    None = None
CHECK_DEADLOCK FALSE
INVARIANTS OneThreadAtATime WorkingIsAlive ReadyWhenTold AcceptedIsRun
PROPERTIES AbortEnds
