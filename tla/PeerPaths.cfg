\* Announcements, leases, hole punching and moves, without outages.
SPECIFICATION Spec
CONSTANTS
  u1 = u1  u2 = u2  theirs = theirs  own = own
  LocalEp = l
  Publics = {u1}
  OwnRelays = {own}
  PeerRelays = {theirs}
  LeaseEnd <- ShortLeases
  Host <- MCHost
  None = None
  NatEnabled = TRUE
  OtherPeers = TRUE
  Announcements <- RelayAnnouncements
  Outages = FALSE
  RetryAfter = 1
  Sticky = 1
  SignalTimeout = 1
  PathTimeout = 2
  PeerCacheTimeout = 3
  PathCacheTimeout = 2
  MaxTime = 3
  MaxEvents = 5
INVARIANTS TypeOK
PROPERTIES  RelayTried TurnedToForAReason
