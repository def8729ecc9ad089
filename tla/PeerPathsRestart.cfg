\* Pauses and restarts with the peer cache, without hole punching.
SPECIFICATION Spec
CONSTANTS
  u1 = u1  u2 = u2  theirs = theirs  own = own
  LocalEp = l
  Publics = {u1, u2}
  OwnRelays = {own}
  PeerRelays = {}
  LeaseEnd <- ShortLeases
  Host <- MCHost
  None = None
  NatEnabled = FALSE
  OtherPeers = FALSE
  Announcements <- PublicAnnouncements
  Outages = TRUE
  RetryAfter = 1
  Sticky = 1
  SignalTimeout = 1
  PathTimeout = 2
  PeerCacheTimeout = 3
  PathCacheTimeout = 2
  MaxTime = 3
  MaxEvents = 4
INVARIANTS InstalledIsKnown
PROPERTIES RestartReusesProvenPath
