CONSTANTS
    f1 = f1
    f2 = f2
    a = a
    b = b
    c = c
    Files = {f1}
    NoFile = NoFile
    Chans = {c1}
    BAD_CHAN = BAD_CHAN
    CmdCap = 2
    StatusCap = 2
    Threads = {a, b, c}
    NoThread = NoThread
    FileOf <- OneFile
    Ops <- Workers
    NoIrq = NoIrq
    MaxUsers = 1
    MaxTries = 1
    MaxSignals = 0
    AllocFails = FALSE
    MaxOutstanding = 1
    PromptReuse = TRUE

SPECIFICATION Spec
INVARIANTS
    EncodeAfterConfigured
