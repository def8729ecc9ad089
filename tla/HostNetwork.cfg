SPECIFICATION Spec
CONSTANTS
  Platforms = {"linux", "macos", "windows"}
  Order <- MCOrder
  Homes <- MCHomes
  Offers <- MCOffers
  Control <- MCControl
  FirstConfigs <- MCFirstConfigs
  FirstPeers <- MCFirstPeers
  Exits = {"p", "none"}
  Fallible <- MCFallible
  MaxEvents = 2
  MaxFaults = 1
  MaxCrashes = 1
  MaxTotal = 3
INVARIANTS
  TypeOK
  
  
