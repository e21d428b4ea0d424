CONSTANTS
    f1 = f1
    f2 = f2
    a = a
    b = b
    c = c
    Files = {f1, f2}
    NoFile = NoFile
    Chans = {c1, c2}
    BAD_CHAN = BAD_CHAN
    CmdCap = 2
    StatusCap = 2
    Threads = {a, b}
    NoThread = NoThread
    FileOf <- TwoFiles
    Ops <- Neighbours
    NoIrq = NoIrq
    MaxUsers = 2
    MaxTries = 2
    MaxSignals = 0
    AllocFails = TRUE
    MaxOutstanding = 1
    PromptReuse = FALSE

SPECIFICATION Spec
INVARIANTS
    DeliveredToOwner
    ChannelsDistinct
    NoOrphanChannel
    BuffersOutliveChannel
    OrphanBelongsToNobody
SYMMETRY ChanSymmetry
