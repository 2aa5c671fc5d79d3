SPECIFICATION ExchangeSpec
CONSTANTS
    None = None
    MaxDepth = 4
    HashBits = 4
    Populations <- FullResponder
    NewElements = {}
    SpuriousRoots = {}
    Estimates = {0}
    MaxRounds = 2
    MaxBuckets = 2
    RoundDepth = 2
    MinCapacity = 1
    MaxCapacity = 1
    OverflowCapacity = 5
    MaxAggregate = 4
    MaxWire = 8
    Headroom = 0
    GateThreshold = 8
    Threads = {t1}
    Avx512 = FALSE
    Pclmul = FALSE
INVARIANT
    NothingDropped
