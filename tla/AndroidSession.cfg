CONSTANTS
    NumPeers = 2
    Announcements <- MCAnnouncements
    ExitNode = 2
    MaxTunnels = 3
    MaxStarts = 2
    MaxSignals = 3
    MaxFaults = 1
SPECIFICATION FairSpec
INVARIANTS TypeOK  ReportIsTrue
PROPERTIES StopCompletes
CHECK_DEADLOCK FALSE
