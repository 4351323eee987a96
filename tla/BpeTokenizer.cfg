SPECIFICATION Spec
CONSTANTS
    a = a
    b = b
    MaxPairs = 3
    Words <- MCWords
    Tables <- MCTables
CHECK_DEADLOCK FALSE
INVARIANTS ChainIsWord EndsIrreducible
PROPERTIES ImplementsGreedyMerge QueueEmpties
