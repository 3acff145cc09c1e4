CONSTANTS
    t1 = t1
    t2 = t2
    Tasks = {t2}
    Waiters = {t2}
    Repeating = {t2}
    OnFrameThread = {}
    Framer = Framer
    Worker = Worker
    None = None
    FrameLen = 1
    SubframeLen = 0
    MinSamples = 1
    Precise = TRUE
    Modes = {TRUE}
SPECIFICATION LoopFramesSpec
PROPERTIES
    TaskEventuallyProcessed
