CONSTANTS
    Bufs = {b1, b2, b3}
    NoBuf = NoBuf
    Fds = {d1, d2}
    NoFd = NoFd
    Count = 2
    Threads = {t1}

SPECIFICATION FairSpec
INVARIANTS
    TypeOK
    RefsMatchOwners
    MemoryFollowsUsers
    AllOrNothing
    ArraysUsedAlive
    MappingsUndone
PROPERTY ExitReturnsMemory
