SPECIFICATION FairServiceSpec
CONSTANTS
  r1 = r1
  r2 = r2
  s1 = s1
  w1 = w1
  w2 = w2
  k1 = k1
  k2 = k2
  k3 = k3
  Runs = {r1}
  Sessions = {s1}
  Writers = {w1, w2}
  NoWriter = NoWriter
  Keys = {k1, k2}
  SessionOf <- OneSession
  LeaseTTL = 1
  MaxToken = 2
  MaxRevision = 10
  MaxEvents = 10
  MaxProgress = 0
  Faults = {"stall", "raise"}
PROPERTIES
  InterruptionConverges
  AttemptReleasesFence
