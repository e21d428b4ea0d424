CONSTANTS
    MaxMsg = 3
    BoxCap = 3
    MaxTraces = 1

SPECIFICATION FairSpec
INVARIANTS
    TypeOK
    NothingLeft
    VisibleOnlyConfigured
    McuMemoryAlive
    HandlerFindsAll
PROPERTIES
    ProbeReturns
    EveryMailServed
