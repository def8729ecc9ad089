CONSTANTS
    People = {"p"}
    Platforms = {"macos", "windows"}
    FirstListen = {TRUE}
    Fallible = {"persist", "request", "reload", "status"}
    MaxTime = 2
    MaxCommands = 2
    MaxTroubles = 1
SPECIFICATION FairSpec
INVARIANTS TypeOK SessionAsAsked 
PROPERTIES JoinRequestRecord
