\* One participant, two operators.
SPECIFICATION Spec
CONSTANTS
  ra = ra
  rb = rb
  Participants = {p1}
  Relays = {ra, rb}
  LeaseSecs <- MCLeaseSecs
  RetryAfters = {1}
  RequestRetryAfter = 2
  RequestTimeout = 3
  VerifyTimeout = 1
  FailedRetryAfter = 1
  MaxCooldown = 2
  ProbeRetryAfter = 1
  OnlineGrace = 0
  MaxProbes = 1
  MaxRequests = 2
  MaxTime = 3
  MaxLeases = 2
INVARIANTS TypeOK VerifiedOverOwnLease PauseForgetsRequests LeaseUsedOnce
PROPERTIES CooldownRespected
