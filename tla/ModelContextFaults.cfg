SPECIFICATION Spec
CONSTANTS
    t1 = t1
    t2 = t2
    eos = eos
    Token <- MCTokenSmall
    EOS = eos
    Empty = Empty
    NoSession = NoSession
    MaxLength = 3
    Batch = 1
    Prompts <- MCRefeedsSmall
    MaxNews <- MCMaxNews
    Keeps = {1}
    MaxOffset = 3
    ClientOps = {"shift", "exec"}
    Faults = {"allocate", "reserve"}
PROPERTY AbortStops
