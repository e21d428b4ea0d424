CONSTANTS
    f1 = f1
    a = a
    b = b
    c = c
    Files = {f1}
    NoFile = NoFile
    Chans = {c1}
    BAD_CHAN = BAD_CHAN
    CmdCap = 2
    StatusCap = 2
    Threads = {a, b, c}
    NoThread = NoThread
    FileOf <- OneFile
    Ops <- Team
    NoIrq = NoIrq
    MaxUsers = 1
    MaxTries = 1
    MaxSignals = 1
    MaxOutstanding = 2
    PromptReuse = TRUE

SPECIFICATION FairSpec
INVARIANT OwnedUntilInterrupted
PROPERTIES
    DestroyReturns
    StartCodeReaches
