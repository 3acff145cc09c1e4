CONSTANTS
    t1 = t1
    t2 = t2
    Tasks = {t1, t2}
    Waiters = {t1, t2}
    Repeating = {t1, t2}
    OnFrameThread = {t1}
    Framer = Framer
    Worker = Worker
    None = None
    FrameLen = 1
    SubframeLen = 0
    MinSamples = 0
    Precise = TRUE
    Modes = {FALSE}
SPECIFICATION LoopSpec
INVARIANT PendingTasksAreScheduled
