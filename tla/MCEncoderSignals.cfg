CONSTANTS
    f1 = f1
    f2 = f2
    a = a
    b = b
    c = c
    Files = {f1}
    NoFile = NoFile
    Chans = {c1, c2}
    BAD_CHAN = BAD_CHAN
    CmdCap = 2
    StatusCap = 2
    Threads = {a, b}
    NoThread = NoThread
    FileOf <- OneFile
    Ops <- Pair
    NoIrq = NoIrq
    MaxUsers = 1
    MaxTries = 1
    MaxSignals = 2
    AllocFails = TRUE
    MaxOutstanding = 1
    PromptReuse = TRUE

SPECIFICATION Spec
INVARIANTS
    MutexDiscipline
    QueuesRelocked
PROPERTY FreedAfterAnswer
