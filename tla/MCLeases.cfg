SPECIFICATION FairSpec
CONSTANTS
  t1 = t1
  t2 = t2
  b1 = b1
  b2 = b2
  NoBackend = NoBackend
  Tasks = {t1, t2}
  Backends = {b1, b2}
  Slots <- OneSlot
  Coders = {b1}
  Reviewers = {b1, b2}
  CloudSlots = 1
  MaxParallel = 2
  RunCap = 1
  LocalCap = 1
  MayCrash = TRUE
INVARIANTS
  SlotsHeld
  CloudHeld
  WithinCaps
PROPERTIES
  GameGetsBackend
  KillStops
