SPECIFICATION StreamsSpec
CHECK_DEADLOCK FALSE
INVARIANTS
    
    PcmPlayedInPlace
    OpusPlayedInPlace
    WatchdogEndsExactly
    SenderKeepsSamples
    
    SlotsFeedComplete

    
