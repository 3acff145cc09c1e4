CONSTANTS
    t1 = t1  t2 = t2  t3 = t3  w = w  f = f
    Tasks = {t1, t2, t3}
    Actors = {t1, t2, t3, w, f}
    None = None
    n1 = n1  n2 = n2  n3 = n3
    Nodes = {n1, n2, n3}
    Stub = Stub
    Null = Null
    Setters = {n1, n2}
    MaxSets <- OneEach
    MaxTime = 1
    Nobody = Nobody
    Storers = {s1, s2}
    Loaders = {l1}
    Waiting = {l1}
    Words = 2
    HalfMod = 2
    Overtake = 1
    MaxStores = 2
SPECIFICATION CoreSpec
CHECK_DEADLOCK FALSE
INVARIANTS
    
    CoreConsistent
    TimerNeverOversleeps
    SeqlockLoadsWhole
PROPERTIES
    MpscImplementsFifo
    
