SPECIFICATION FairSpec
CONSTANTS
    SockBuf = 1
    Window = 1
    Idle = 1
INVARIANTS TypeOK EndMeansDelivered
PROPERTIES PipeSpec ClientIdleMeansQuiet HungServiceReleased EndReachesPeer
CHECK_DEADLOCK FALSE
