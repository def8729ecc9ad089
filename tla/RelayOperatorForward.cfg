\* Packets, byte budget, rate limit, leases that outlive their entries, crashes and restarts.
SPECIFICATION Spec
CONSTANTS
  RequestIds = {ida}
  Requesters = {r1}
  Addrs = {x, y}
  NoAddr = NoAddr
  PacketSizes = {1, 2}
  PortStart = 1
  PortEnd = 3
  UsePortRange = TRUE
  MaxActiveSessions = 1
  MaxSessionsPerRequester = 1
  MaxBytesPerSession = 4
  MaxForwardBps = 2
  LeaseSecs = 1
  MinLeaseSecs = 1
  ProbeLeaseSecs = 1
  TicksPerSec = 2
  LegErrors = TRUE
  MaxClock = 4
  MaxRequests = 2
  MaxBoots = 2
INVARIANTS  TotalsWithinBudget RateBound
 
