CONSTANTS
    Users = {1, 2, 3}
    MaxBytes = 5
    ObjectSize = 2
SPECIFICATION ControlPlaneSpec
CHECK_DEADLOCK FALSE
INVARIANTS
    
    PoolWithinLimit
    
    RtcpReadsWhatWasBuilt
    HashmapFindsExactly
    
PROPERTIES
    RtcpIdentitiesSound
