CONSTANTS
    MaxMsg = 2
    BoxCap = 2
    MaxTraces = 1

SPECIFICATION Spec
INVARIANT NoFailureBeforeAck
