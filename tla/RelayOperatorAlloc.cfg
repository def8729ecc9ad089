\* Allocation, limits, exits and restarts, and the end of every lease: no packets.
SPECIFICATION FairSpec
CONSTANTS
  RequestIds = {ida, idb}
  Requesters = {r1, r2}
  Addrs = {}
  NoAddr = NoAddr
  PacketSizes = {}
  PortStart = 1
  PortEnd = 5
  UsePortRange = TRUE
  MaxActiveSessions = 2
  MaxSessionsPerRequester = 1
  MaxBytesPerSession = 1
  MaxForwardBps = 0
  LeaseSecs = 1
  MinLeaseSecs = 2
  ProbeLeaseSecs = 1
  TicksPerSec = 2
  LegErrors = FALSE
  MaxClock = 5
  MaxRequests = 2
  MaxBoots = 2
INVARIANTS TypeOK LimitsRespected GrantHonoured
PROPERTIES LeaseEnds ImplementsLease
