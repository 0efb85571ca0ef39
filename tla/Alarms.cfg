SPECIFICATION ClockSpec
CONSTANTS
    a1 = a1
    a2 = a2
    a3 = a3
    Root = Root
    NULL = NULL
    Alarm = {a1, a2, a3}
    Wrap = 5
    Rate = 100
    StopsNext = FALSE
    TickWord = 32
    ALT_US = 6
    Rates = {1, 4, 6}
    Time <- MCTime
    Zone = {1}
    MaxElapsed = 8
    INT_MAX = 15
    LoopsPerMicrosecond = 2
    Sleep = {0, 14, 29}
    Arc <- MCArc
    HeapStart = 4
    HeapLimit = 76
    SlabIncrement = 24
    TextBytes = 64
    Request = {18}
    MaxCalls = 2
INVARIANTS
    SafeList
    TimeRight
    CallGraphOK
PROPERTIES
    ImplementsAlarmClock
    TickReturns
