SPECIFICATION MCSpec
CONSTANTS
    null = null
    uart = uart
    fs = fs
    None = None
    Device <- MCDevice
    FileSystem = {fs}
    NullDev = null
    Uart = uart
    Callbacks <- MCCallbacks
    NameOf <- MCNameOf
    Path <- MCPath
    MaxFd = 5
    DriverResults <- MCDriverResults
    OpenFlags = {"O_NONBLOCK"}
    LineWords = 2
    DSets = 2
    ISets = 2
    Initda = TRUE
    Buffer <- MCBuffer
    ProgramData <- MCProgramData
    Flash <- MCFlash
    Code <- MCCode
    Section <- MCSection
VIEW CallsToCome
PROPERTIES
    LockIsExclusive
