SPECIFICATION ReconSpec
CONSTANTS
    None = None
    MaxDepth = 2
    HashBits = 3
    Populations <- SmallPopulations
    NewElements <- Newcomers
    SpuriousRoots <- OneSpurious
    Estimates = {0, 2}
    MaxRounds = 3
    MaxBuckets = 2
    RoundDepth = 2
    MinCapacity = 1
    MaxCapacity = 1
    OverflowCapacity = 2
    MaxAggregate = 4
    MaxWire = 4
    Headroom = 0
    GateThreshold = 3
    Threads = {t1, t2, t3}
    Avx512 = FALSE
    Pclmul = FALSE
INVARIANTS
    FrontierIsAccounted
    DifferenceIsRecovered
    OneBackendOneWarning
    DecodingIsExact
    PopulationIsServed
    BitmapsAreExact
PROPERTIES
    ExchangesEnd
