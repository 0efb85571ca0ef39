\* Ring buffers of three, FIFOs of one, three characters each way: the indices go round a buffer.
SPECIFICATION Spec
CONSTANTS
    BufLen = 3
    Depth = 1
    DefaultTimeout = 1
    INT_MAX = 3
    MaxTx = 3
    MaxRx = 3
    MaxCall = 2
    Timeouts = {0}
INVARIANTS
    SafeUart
    InOrder
PROPERTIES
    CharactersArrive
