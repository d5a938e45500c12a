SPECIFICATION FairSpec

CONSTANTS
    p1 = p1
    p2 = p2
    c1 = c1
    c2 = c2
    Producers <- MCProducers
    Consumers <- MCConsumers
    MaxSize <- MCMaxSize
    PushBound <- MCPushBound
    SpuriousBound <- MCSpuriousBound

INVARIANTS
    WithinCapacity
    NobodySleepsInVain

PROPERTIES
    ImplementsChannel
    BlockedPushReturns
