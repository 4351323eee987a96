SPECIFICATION Spec
CONSTANTS
    t1 = t1
    t2 = t2
    eos = eos
    Token <- MCToken
    EOS = eos
    Empty = Empty
    NoSession = NoSession
    MaxLength = 5
    Batch = 2
    Prompts <- MCPrompts
    MaxNews <- MCMaxNews
    Keeps = {2}
    MaxOffset = 6
    ClientOps = {}
    Faults = {"allocate"}
INVARIANTS TypeOK CacheInBounds NewTokensBounded
PROPERTIES OutputIsContextTail AbortStops GenerateReturns ImplementsTokenContext
