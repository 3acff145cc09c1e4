CONSTANTS
    t1 = t1  c1 = c1  c2 = c2
    t3 = t3  t4 = t4  c3 = c3  c4 = c4
    None = None
SPECIFICATION PausedSpec
CHECK_DEADLOCK FALSE
PROPERTIES
    QueueProgress
