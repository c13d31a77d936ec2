SPECIFICATION FairSpec
CONSTANTS
  big = big
  small = small
  r1 = r1
  Models <- BigFirst
  Need <- Sizes
  Fallback = small
  Installed = {big, small}
  Total = 10
  Headroom = 1
  GameUse = 4
  Reserve = 4
  Preload = TRUE
  Reqs = {r1}
INVARIANTS
  InflightExact
  ReservationHonoured
PROPERTIES
  StreamsEnd
  PinFollowsGame
