CONSTANTS
    t1 = t1
    t2 = t2
    Tasks = {t1, t2}
    Waiters = {t2}
    Repeating = {t1}
    OnFrameThread = {t1}
    Framer = Framer
    Worker = Worker
    None = None
    FrameLen = 2
    SubframeLen = 1
    MinSamples = 1
    Precise = TRUE
    Modes = {TRUE, FALSE}
SPECIFICATION LoopSpec
INVARIANTS
    OneProcessor
    EachTaskInOnePlace
    PendingTasksExact
    WaiterReturnsProcessed
PROPERTIES
    ImplementsLedger
