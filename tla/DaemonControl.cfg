CONSTANTS
    Slots = {d1, d2}
    Clients = {a, b}
    Configs = {"c0"}
    Commands = {"start", "stop", "pause", "resume", "reload", "apply", "install", "uninstall"}
    Platforms = {"unix", "windows"}
    NoFile = NoFile
    MaxCommands = 2
    MaxFaults = 1
SPECIFICATION FairSpec
INVARIANTS TypeOK AtMostOneDaemon OldRequestsIgnored
PROPERTIES ServiceKeepsRunning
CHECK_DEADLOCK FALSE
