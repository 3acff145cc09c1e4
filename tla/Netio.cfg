CONSTANTS
    w1 = w1  w2 = w2  t1 = t1  t2 = t2  t3 = t3
    Writers = {w1, w2}
    MaxPackets = 2
    NonBlocking = TRUE
    PortsFirst = FALSE
    Multicast = TRUE
    Tasks = {t1, t2, t3}
SPECIFICATION NetioSpec
CHECK_DEADLOCK FALSE
INVARIANTS
    
    UdpSendsAllInOrder
    TcpCallbackWorkflow
PROPERTIES
    SoundReadsEverySample
    
